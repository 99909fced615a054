--------------------------- MODULE InputStreamProofs ---------------------------
(***************************************************************************)
(* Proofs about InputStream, for any number of authorities, inputs, moves  *)
(* and failures, and any loss, delay or reordering of messages.            *)
(***************************************************************************)
EXTENDS InputStream, FiniteSetTheorems, SequenceTheorems, WellFoundedInduction, TLAPS

Newest(st) == IF st = << >> THEN 0 ELSE st[Len(st)]

\* Numbers that have been stamped.
Given(S)     == \A k \in S : k \in Nat /\ k <= seq
GivenSeq(st) == st \in Seq(Nat) /\ \A i \in 1..Len(st) : st[i] <= seq

SlotOK(s) ==
  /\ s.at \in visited /\ s.last_input_seq \in Nat /\ s.idle \in Nat
  /\ s = [at |-> s.at, last_input_seq |-> s.last_input_seq, pending |-> s.pending,
          idle |-> s.idle, state |-> s.state]
  /\ Given(s.pending) /\ GivenSeq(s.state)
  /\ \A k \in s.pending : k > s.last_input_seq
  /\ s.last_input_seq > 0 => s.state # << >> /\ s.last_input_seq = Newest(s.state)

\* One body, in a slot or on its way.
Single ==
  /\ \A s, t \in slots : s = t
  /\ \A m, n \in adopts : m = n
  /\ slots = {} \/ adopts = {}

Known ==
  /\ seq \in Nat /\ Given(pending)
  /\ home \subseteq visited /\ redirects \subseteq visited
  /\ \A b \in batches : b.to \in visited /\ Given(b.frames)
  /\ \A m \in adopts : GivenSeq(m.state)
  /\ used \in [moves : Nat, fails : Nat, joins : Nat, returns : Nat]

SlotsOK == \A s \in slots : SlotOK(s)

IInv == Known /\ Single /\ SlotsOK /\ AckedHasActed

-----------------------------------------------------------------------------
(* Helpers. *)

\* The order of the natural numbers is well founded, as a set of pairs.
LEMMA NatOrder == IsWellFoundedOn({p \in Nat \X Nat : p[1] < p[2]}, Nat)
  BY NatLessThanWellFounded, Zenon DEF OpToRel

\* Numbers that have been stamped have a highest one, and Highest finds it.
LEMMA HighestIn ==
  ASSUME NEW S, S # {}, Given(S), seq \in Nat
  PROVE  Highest(S) \in S /\ \A k \in S : k <= Highest(S)
<1> DEFINE R == {p \in Nat \X Nat : p[1] < p[2]}
           T == {seq - k : k \in S}
<1>1. T \subseteq Nat /\ T # {}
  BY SMT DEF Given
<1>2. PICK x \in T : \A y \in T : ~ (<<y, x>> \in R)
  <2>1. IsWellFoundedOn(R, Nat)
    BY NatOrder
  <2> HIDE DEF R, T
  <2> QED BY <1>1, <2>1, WFMin
<1>3. PICK m \in S : x = seq - m
  OBVIOUS
<1>4. \A k \in S : k <= m
  <2> TAKE k \in S
  <2>1. ~ (<<seq - k, x>> \in R)
    BY <1>2
  <2>2. seq - k \in Nat /\ x \in Nat
    BY <1>1
  <2>3. ~ (seq - k < x)
    BY <2>1, <2>2
  <2> QED BY <2>3, <1>3, SMT DEF Given
<1> QED BY <1>4 DEF Highest

LEMMA Appended ==
  ASSUME NEW st, GivenSeq(st), NEW n \in Nat, n <= seq, seq \in Nat
  PROVE  GivenSeq(Append(st, n)) /\ Append(st, n) # << >> /\ Newest(Append(st, n)) = n
<1> DEFINE a == Append(st, n)
<1>1. st \in Seq(Nat) /\ \A i \in 1..Len(st) : st[i] <= seq
  BY DEF GivenSeq
<1>2. a \in Seq(Nat) /\ Len(a) = Len(st) + 1 /\ Len(st) \in Nat
  BY <1>1
<1>3. \A i \in 1..Len(a) : a[i] = IF i = Len(st) + 1 THEN n ELSE st[i]
  BY <1>1
<1>4. a # << >>
  BY <1>2
<1> HIDE DEF a
<1>5. GivenSeq(a)
  <2>1. ASSUME NEW i \in 1..Len(a) PROVE a[i] <= seq
    <3>1. CASE i = Len(st) + 1
      BY <1>3, <3>1
    <3>2. CASE i # Len(st) + 1
      <4>1. i \in 1..Len(st)
        BY <1>2, <3>2
      <4> QED BY <1>1, <1>3, <3>2, <4>1
    <3> QED BY <3>1, <3>2
  <2> QED BY <1>2, <2>1 DEF GivenSeq
<1>6. Newest(a) = n
  <2>1. Len(a) \in 1..Len(a) /\ Len(a) = Len(st) + 1
    BY <1>2
  <2>2. a[Len(a)] = n
    BY <1>3, <2>1
  <2> QED BY <1>4, <2>2 DEF Newest
<1> QED BY <1>4, <1>5, <1>6 DEF a

\* Stepping a slot keeps what it is, and acts on nothing or on the highest number.
LEMMA SteppedOK ==
  ASSUME NEW s, SlotOK(s), seq \in Nat
  PROVE  /\ SlotOK(Stepped(s)) /\ Stepped(s).at = s.at
         /\ Stepped(s).pending = {}
         /\ \/ s.pending = {} /\ Stepped(s).state = s.state
               /\ Stepped(s).last_input_seq = s.last_input_seq
            \/ \E n \in s.pending :
                 /\ Stepped(s).state = Append(s.state, n)
                 /\ Stepped(s).last_input_seq = n
<1> DEFINE n == Highest(s.pending)
<1>1. CASE s.pending = {}
  <2>1. Stepped(s) = [at |-> s.at, last_input_seq |-> s.last_input_seq,
                      pending |-> s.pending, idle |-> s.idle + 1, state |-> s.state]
    BY <1>1 DEF Stepped, SlotOK
  <2> QED BY <1>1, <2>1 DEF SlotOK, Given
<1>2. CASE s.pending # {}
  <2>1. n \in s.pending /\ n \in Nat /\ n <= seq /\ n > s.last_input_seq
    BY <1>2, HighestIn DEF SlotOK, Given
  <2> HIDE DEF n
  <2> DEFINE st == Append(s.state, n)
             t  == [at |-> s.at, last_input_seq |-> n, pending |-> {},
                    idle |-> s.idle + 1, state |-> st]
  <2>2. Stepped(s) = t
    BY <1>2, <2>1 DEF Stepped, SlotOK, n
  <2>3. GivenSeq(st) /\ st # << >> /\ Newest(st) = n
    BY <2>1, Appended DEF SlotOK
  <2> HIDE DEF st
  <2>4. /\ t.at = s.at /\ t.last_input_seq = n /\ t.pending = {} /\ t.state = st
        /\ t.idle = s.idle + 1
    OBVIOUS
  <2> HIDE DEF t
  <2>5. t.at \in visited /\ t.last_input_seq \in Nat /\ t.idle \in Nat /\ Given(t.pending)
    BY <2>1, <2>4 DEF SlotOK, Given
  <2>6. t = [at |-> t.at, last_input_seq |-> t.last_input_seq, pending |-> t.pending,
             idle |-> t.idle, state |-> t.state]
    BY <2>4 DEF t
  <2>7. SlotOK(t)
    BY <2>1, <2>3, <2>4, <2>5, <2>6 DEF SlotOK
  <2> QED BY <2>1, <2>2, <2>4, <2>7, Zenon DEF st
<1> QED BY <1>1, <1>2

LEMMA GivenKept ==
  ASSUME seq \in Nat, seq' \in Nat, seq <= seq'
  PROVE  /\ \A S : Given(S) => Given(S)'
         /\ \A st : GivenSeq(st) => GivenSeq(st)'
  BY DEF Given, GivenSeq

LEMMA SlotKept ==
  ASSUME NEW s, SlotOK(s), seq \in Nat, seq' \in Nat, seq <= seq', visited \subseteq visited'
  PROVE  SlotOK(s)'
<1>1. Given(s.pending)' /\ GivenSeq(s.state)'
  BY GivenKept DEF SlotOK
<1>2. s.at \in visited'
  BY DEF SlotOK
<1> QED BY <1>1, <1>2, Zenon DEF SlotOK

LEMMA Prefix ==
  ASSUME NEW st, GivenSeq(st), NEW n \in 0..Len(st)
  PROVE  GivenSeq(SubSeq(st, 1, n))
  BY DEF GivenSeq

LEMMA NewSlotOK ==
  ASSUME NEW a, a \in visited', NEW st, GivenSeq(st)'
  PROVE  SlotOK(NewSlot(a, st))'
<1> DEFINE t == NewSlot(a, st)
<1>1. /\ t.at = a /\ t.last_input_seq = 0 /\ t.pending = {} /\ t.idle = 0 /\ t.state = st
      /\ t = [at |-> t.at, last_input_seq |-> t.last_input_seq, pending |-> t.pending,
              idle |-> t.idle, state |-> t.state]
  BY DEF NewSlot
<1> HIDE DEF t
<1>2. SlotOK(t)'
  BY <1>1 DEF SlotOK, Given
<1> QED BY <1>2 DEF t

LEMMA SlotExcept ==
  ASSUME NEW s, NEW r, NEW a, NEW l, NEW p, NEW i, NEW st, NEW q,
         s = [at |-> a, last_input_seq |-> l, pending |-> p, idle |-> i, state |-> st],
         r = [s EXCEPT !.pending = q, !.idle = 0]
  PROVE  r = [at |-> a, last_input_seq |-> l, pending |-> q, idle |-> 0, state |-> st]
  OBVIOUS

LEMMA QueuedOK ==
  ASSUME NEW s, SlotOK(s), NEW F, Given(F)
  PROVE  /\ SlotOK(Queued(s, F)) /\ Queued(s, F).at = s.at
         /\ Queued(s, F).state = s.state
         /\ Queued(s, F).last_input_seq = s.last_input_seq
         /\ Queued(s, F).pending \subseteq s.pending \cup F /\ Queued(s, F).idle = 0
<1> DEFINE P == s.pending \cup {k \in F : k > s.last_input_seq}
           t == [at |-> s.at, last_input_seq |-> s.last_input_seq, pending |-> P,
                 idle |-> 0, state |-> s.state]
<1>1. Queued(s, F) = t
  <2> DEFINE N == {k \in F : k > s.last_input_seq}
  <2>1. Queued(s, F) = [s EXCEPT !.pending = s.pending \cup N, !.idle = 0]
    BY DEF Queued
  <2> HIDE DEF N
  <2>2. s = [at |-> s.at, last_input_seq |-> s.last_input_seq, pending |-> s.pending,
             idle |-> s.idle, state |-> s.state]
    BY DEF SlotOK
  <2>3. Queued(s, F) = [at |-> s.at, last_input_seq |-> s.last_input_seq,
                        pending |-> s.pending \cup N, idle |-> 0, state |-> s.state]
    BY <2>1, <2>2, SlotExcept
  <2> QED BY <2>3, Zenon DEF N
<1>2. Given(P) /\ \A k \in P : k > s.last_input_seq
  BY DEF SlotOK, Given
<1>3. P \subseteq s.pending \cup F
  OBVIOUS
<1> HIDE DEF P
<1>4. /\ t.at = s.at /\ t.last_input_seq = s.last_input_seq /\ t.pending = P
      /\ t.idle = 0 /\ t.state = s.state
      /\ t = [at |-> t.at, last_input_seq |-> t.last_input_seq, pending |-> t.pending,
              idle |-> t.idle, state |-> t.state]
  OBVIOUS
<1> HIDE DEF t
<1>5. SlotOK(t)
  BY <1>2, <1>4 DEF SlotOK
<1> QED BY <1>1, <1>3, <1>4, <1>5

-----------------------------------------------------------------------------
(* What every step keeps. *)

LEMMA Initially == Init => IInv
  BY DEF Init, IInv, Known, Single, SlotsOK, AckedHasActed, Given

\* A step that stamps nothing keeps what has been given.
LEMMA SameSeq ==
  ASSUME IInv, seq' = seq, visited \subseteq visited'
  PROVE  /\ \A S : Given(S) => Given(S)'
         /\ \A st : GivenSeq(st) => GivenSeq(st)'
         /\ \A s : SlotOK(s) => SlotOK(s)'
<1>1. seq \in Nat /\ seq' \in Nat /\ seq <= seq'
  BY DEF IInv, Known
<1>2. ASSUME NEW s, SlotOK(s) PROVE SlotOK(s)'
  BY <1>1, <1>2, SlotKept
<1>3. /\ \A S : Given(S) => Given(S)'
      /\ \A st : GivenSeq(st) => GivenSeq(st)'
  BY <1>1, GivenKept
<1> QED BY <1>2, <1>3, Zenon

LEMMA FrameStep ==
  ASSUME IInv, Frame PROVE IInv'
<1>1. /\ seq \in Nat /\ seq' \in Nat /\ seq' = seq + 1 /\ pending' \subseteq pending \cup {seq + 1}
      /\ home' = home /\ slots' = slots /\ batches' = batches /\ snaps' = snaps
      /\ adopts' = adopts /\ redirects' = redirects /\ visited' = visited /\ used' = used
  BY DEF IInv, Known, Frame, Kept
<1>2. /\ \A S : Given(S) => Given(S)'
      /\ \A st : GivenSeq(st) => GivenSeq(st)'
  BY <1>1, GivenKept
<1>3. Given(pending)'
  BY <1>1 DEF IInv, Known, Given
<1>4. Known'
  BY <1>1, <1>2, <1>3, Zenon DEF IInv, Known
<1>5. SlotsOK'
  BY <1>1, SlotKept DEF IInv, SlotsOK
<1>6. Single' /\ AckedHasActed'
  BY <1>1 DEF IInv, Single, AckedHasActed
<1> QED BY <1>4, <1>5, <1>6 DEF IInv

LEMMA SendStep ==
  ASSUME IInv, SendBatch PROVE IInv'
<1>1. /\ seq' = seq /\ pending' = pending /\ home' = home /\ slots' = slots /\ snaps' = snaps
      /\ adopts' = adopts /\ redirects' = redirects /\ visited' = visited /\ used' = used
  BY DEF SendBatch, client
<1>2. /\ \A S : Given(S) => Given(S)'
      /\ \A st : GivenSeq(st) => GivenSeq(st)'
      /\ \A s : SlotOK(s) => SlotOK(s)'
  BY <1>1, SameSeq
<1>3. \A b \in batches' : b.to \in visited /\ Given(b.frames)
  BY DEF SendBatch, IInv, Known
<1>4. Known'
  BY <1>1, <1>2, <1>3, Zenon DEF IInv, Known
<1>5. SlotsOK' /\ Single' /\ AckedHasActed'
  BY <1>1, <1>2, Zenon DEF IInv, SlotsOK, Single, AckedHasActed
<1> QED BY <1>4, <1>5 DEF IInv

LEMMA SnapshotStep ==
  ASSUME IInv, NEW r \in snaps, RecvSnapshot(r) PROVE IInv'
<1>1. /\ seq' = seq /\ pending' \subseteq pending /\ home' = home /\ slots' = slots
      /\ snaps' \subseteq snaps /\ batches' = batches
      /\ adopts' = adopts /\ redirects' = redirects /\ visited' = visited /\ used' = used
  BY DEF RecvSnapshot
<1>2. /\ \A S : Given(S) => Given(S)'
      /\ \A st : GivenSeq(st) => GivenSeq(st)'
      /\ \A s : SlotOK(s) => SlotOK(s)'
  BY <1>1, SameSeq
<1>3. Given(pending)'
  BY <1>1 DEF IInv, Known, Given
<1>4. Known'
  BY <1>1, <1>2, <1>3, Zenon DEF IInv, Known
<1>5. SlotsOK' /\ Single'
  BY <1>1, <1>2, Zenon DEF IInv, SlotsOK, Single
<1>6. AckedHasActed'
  BY <1>1 DEF IInv, AckedHasActed
<1> QED BY <1>4, <1>5, <1>6 DEF IInv

LEMMA RedirectStep ==
  ASSUME IInv, NEW a \in redirects, RecvRedirect(a) PROVE IInv'
<1>1. /\ seq' = seq /\ pending' = {} /\ home' = {a} /\ slots' = slots /\ snaps' = snaps
      /\ batches' = batches /\ redirects' \subseteq redirects
      /\ adopts' = adopts /\ visited' = visited /\ used' = used
  BY DEF RecvRedirect
<1>2. /\ \A S : Given(S) => Given(S)'
      /\ \A st : GivenSeq(st) => GivenSeq(st)'
      /\ \A s : SlotOK(s) => SlotOK(s)'
  BY <1>1, SameSeq
<1>3. Given(pending)'
  BY <1>1 DEF Given
<1>4. a \in visited
  BY DEF IInv, Known
<1>5. home' \subseteq visited' /\ redirects' \subseteq visited'
  BY <1>1, <1>4 DEF IInv, Known
<1>6. Known'
  BY <1>1, <1>2, <1>3, <1>5, Zenon DEF IInv, Known
<1>7. SlotsOK' /\ Single' /\ AckedHasActed'
  BY <1>1, <1>2, Zenon DEF IInv, SlotsOK, Single, AckedHasActed
<1> QED BY <1>6, <1>7 DEF IInv

LEMMA BatchStep ==
  ASSUME IInv, NEW b \in batches, RecvBatch(b) PROVE IInv'
<1>1. /\ seq' = seq /\ pending' = pending /\ home' = home /\ snaps' = snaps
      /\ batches' \subseteq batches /\ redirects' = redirects
      /\ adopts' = adopts /\ visited' = visited /\ used' = used
      /\ slots' = {IF s.at = b.to THEN Queued(s, b.frames) ELSE s : s \in slots}
  BY DEF RecvBatch, client
<1>2. /\ \A S : Given(S) => Given(S)'
      /\ \A st : GivenSeq(st) => GivenSeq(st)'
      /\ \A s : SlotOK(s) => SlotOK(s)'
  BY <1>1, SameSeq
<1>3. Known'
  BY <1>1, <1>2 DEF IInv, Known
<1>4. Given(b.frames)
  BY DEF IInv, Known
<1>5. ASSUME NEW t \in slots' PROVE SlotOK(t)'
  <2>1. PICK s \in slots : t = IF s.at = b.to THEN Queued(s, b.frames) ELSE s
    BY <1>1
  <2>2. SlotOK(s) /\ SlotOK(Queued(s, b.frames))
    BY <1>4, QueuedOK DEF IInv, SlotsOK
  <2>3. SlotOK(t)
    BY <2>1, <2>2
  <2> QED BY <2>3, <1>2
<1>6. Single'
  BY <1>1 DEF IInv, Single
<1>7. AckedHasActed'
  BY <1>1 DEF IInv, AckedHasActed
<1> QED BY <1>3, <1>5, <1>6, <1>7 DEF IInv, SlotsOK

\* The number a slot acknowledges is the last its body has acted on.
LEMMA SlotActed ==
  ASSUME NEW t, SlotOK(t), t.last_input_seq > 0
  PROVE  t.last_input_seq \in Elements(t.state)
<1>1. t.state \in Seq(Nat) /\ t.state # << >> /\ t.last_input_seq = t.state[Len(t.state)]
  BY DEF SlotOK, GivenSeq, Newest
<1>2. Len(t.state) \in DOMAIN t.state
  BY <1>1
<1> QED BY <1>1, <1>2 DEF Elements

LEMMA TickStep ==
  ASSUME IInv, NEW s \in slots, Tick(s) PROVE IInv'
<1> DEFINE t == Stepped(s)
<1>1. /\ seq' = seq /\ pending' = pending /\ home' = home
      /\ batches' = batches /\ redirects' = redirects
      /\ adopts' = adopts /\ visited' = visited /\ used' = used
      /\ slots' = (slots \ {s}) \cup {t}
      /\ snaps' = snaps \cup {[last_input_seq |-> t.last_input_seq, state |-> t.state]}
  BY DEF Tick, client
<1>2. /\ \A S : Given(S) => Given(S)'
      /\ \A st : GivenSeq(st) => GivenSeq(st)'
      /\ \A r : SlotOK(r) => SlotOK(r)'
  BY <1>1, SameSeq
<1>3. Known'
  BY <1>1, <1>2, Zenon DEF IInv, Known
<1>4. SlotOK(t)
  BY SteppedOK DEF IInv, SlotsOK, Known
<1> HIDE DEF t
<1>5. SlotsOK'
  BY <1>1, <1>2, <1>4 DEF IInv, SlotsOK
<1>6. Single'
  BY <1>1 DEF IInv, Single
<1>7. AckedHasActed'
  <2>1. t.last_input_seq > 0 => t.last_input_seq \in Elements(t.state)
    BY <1>4, SlotActed
  <2> QED BY <1>1, <2>1 DEF IInv, AckedHasActed
<1> QED BY <1>3, <1>5, <1>6, <1>7 DEF IInv

LEMMA EvictStep ==
  ASSUME IInv, NEW s \in slots, Evict(s) PROVE IInv'
<1>1. /\ seq' = seq /\ pending' = pending /\ home' = home /\ snaps' = snaps
      /\ batches' = batches /\ redirects' = redirects
      /\ adopts' = adopts /\ visited' = visited /\ used' = used
      /\ slots' \subseteq slots
  BY DEF Evict, client
<1>2. /\ \A S : Given(S) => Given(S)'
      /\ \A st : GivenSeq(st) => GivenSeq(st)'
      /\ \A r : SlotOK(r) => SlotOK(r)'
  BY <1>1, SameSeq
<1>3. Known'
  BY <1>1, <1>2, Zenon DEF IInv, Known
<1>4. SlotsOK' /\ Single' /\ AckedHasActed'
  BY <1>1, <1>2 DEF IInv, SlotsOK, Single, AckedHasActed
<1> QED BY <1>3, <1>4 DEF IInv

LEMMA CrossStep ==
  ASSUME IInv, NEW s \in slots, NEW to, Cross(s, to) PROVE IInv'
<1> DEFINE t == Stepped(s)
           m == [to |-> to, state |-> t.state]
           u == [used EXCEPT !["moves"] = @ + 1]
<1>1. /\ seq' = seq /\ pending' = pending /\ home' = home /\ snaps' = snaps
      /\ batches' = batches /\ redirects' = redirects
      /\ adopts' = adopts \cup {m} /\ visited' = visited
      /\ slots' = slots \ {s} /\ used' = u
  BY DEF Cross, client, Spend
<1>2. /\ \A S : Given(S) => Given(S)'
      /\ \A st : GivenSeq(st) => GivenSeq(st)'
      /\ \A r : SlotOK(r) => SlotOK(r)'
  BY <1>1, SameSeq
<1>3. GivenSeq(t.state)
  BY SteppedOK DEF IInv, SlotsOK, Known, SlotOK
<1>4. u \in [moves : Nat, fails : Nat, joins : Nat, returns : Nat]
  BY DEF IInv, Known
<1>5. m.state = t.state
  OBVIOUS
<1> HIDE DEF t, m, u
<1>6. \A n \in adopts' : GivenSeq(n.state)'
  BY <1>1, <1>2, <1>3, <1>5 DEF IInv, Known
<1>7. Known'
  BY <1>1, <1>2, <1>4, <1>6, Zenon DEF IInv, Known
<1>8. slots' = {} /\ adopts = {}
  BY <1>1 DEF IInv, Single
<1>9. SlotsOK' /\ Single' /\ AckedHasActed'
  BY <1>1, <1>8 DEF IInv, SlotsOK, Single, AckedHasActed
<1> QED BY <1>7, <1>9 DEF IInv

LEMMA AdoptStep ==
  ASSUME IInv, NEW m \in adopts, Adopt(m) PROVE IInv'
<1> DEFINE t == NewSlot(m.to, m.state)
           u == [used EXCEPT !.returns = IF m.to \in visited THEN @ + 1 ELSE @]
<1>1. /\ seq' = seq /\ pending' = pending /\ home' = home /\ snaps' = snaps
      /\ batches' = batches /\ redirects' = redirects \cup {m.to}
      /\ adopts' = adopts \ {m} /\ visited' = visited \cup {m.to}
      /\ slots' = slots \cup {t} /\ used' = u
  BY DEF Adopt, Arrives, client
<1>2. /\ \A S : Given(S) => Given(S)'
      /\ \A st : GivenSeq(st) => GivenSeq(st)'
      /\ \A r : SlotOK(r) => SlotOK(r)'
  BY <1>1, SameSeq
<1>3. GivenSeq(m.state)' /\ m.to \in visited'
  BY <1>1, <1>2 DEF IInv, Known
<1>4. u \in [moves : Nat, fails : Nat, joins : Nat, returns : Nat]
  BY DEF IInv, Known
<1>5. SlotOK(t)'
  BY <1>3, NewSlotOK
<1> HIDE DEF t, u
<1>6. slots = {} /\ adopts' = {}
  BY <1>1 DEF IInv, Single
<1>7. home' \subseteq visited' /\ redirects' \subseteq visited'
  BY <1>1 DEF IInv, Known
<1>8. Known'
  BY <1>1, <1>2, <1>4, <1>6, <1>7 DEF IInv, Known
<1>9. SlotsOK' /\ Single' /\ AckedHasActed'
  BY <1>1, <1>5, <1>6 DEF IInv, SlotsOK, Single, AckedHasActed
<1> QED BY <1>8, <1>9 DEF IInv

LEMMA Spent ==
  ASSUME NEW v \in [moves : Nat, fails : Nat, joins : Nat, returns : Nat],
         NEW x \in Nat, NEW y \in Nat, NEW r,
         r = [v EXCEPT !.fails = x, !.returns = y] \/ r = [v EXCEPT !.joins = x, !.returns = y]
  PROVE  r \in [moves : Nat, fails : Nat, joins : Nat, returns : Nat]
  OBVIOUS

LEMMA RecoverStep ==
  ASSUME IInv, NEW s \in slots, NEW to, Recover(s, to) PROVE IInv'
<1> DEFINE u == [used EXCEPT !["fails"] = @ + 1,
                             !.returns = IF to \in visited THEN @ + 1 ELSE @]
<1>1. PICK n \in 0..Len(s.state) :
        slots' = (slots \ {s}) \cup {NewSlot(to, SubSeq(s.state, 1, n))}
  BY DEF Recover
<1> DEFINE st == SubSeq(s.state, 1, n)
           t  == NewSlot(to, st)
<1>2. /\ seq' = seq /\ pending' = pending /\ home' = home /\ snaps' = snaps
      /\ batches' = batches /\ redirects' = redirects \cup {to}
      /\ adopts' = adopts /\ visited' = visited \cup {to} /\ used' = u
  BY DEF Recover, Arrives, Counted, client
<1>3. /\ \A S : Given(S) => Given(S)'
      /\ \A q : GivenSeq(q) => GivenSeq(q)'
      /\ \A r : SlotOK(r) => SlotOK(r)'
  BY <1>2, SameSeq
<1>4. u \in [moves : Nat, fails : Nat, joins : Nat, returns : Nat]
  <2>1. used \in [moves : Nat, fails : Nat, joins : Nat, returns : Nat]
    BY DEF IInv, Known
  <2>2. /\ used.fails + 1 \in Nat
        /\ (IF to \in visited THEN used.returns + 1 ELSE used.returns) \in Nat
    BY <2>1
  <2> QED BY <2>1, <2>2, Spent
<1>5. GivenSeq(s.state)
  BY DEF IInv, SlotsOK, SlotOK
<1>6. GivenSeq(st)
  BY <1>5, Prefix
<1>7. SlotOK(t)'
  BY <1>2, <1>3, <1>6, NewSlotOK
<1> HIDE DEF t, st, u
<1>8. slots' = {t} /\ adopts = {}
  BY <1>1 DEF IInv, Single, t, st
<1>9. home' \subseteq visited' /\ redirects' \subseteq visited'
  BY <1>2 DEF IInv, Known
<1>10. Known'
  BY <1>2, <1>3, <1>4, <1>8, <1>9 DEF IInv, Known
<1>11. SlotsOK' /\ Single' /\ AckedHasActed'
  BY <1>2, <1>7, <1>8 DEF IInv, SlotsOK, Single, AckedHasActed
<1> QED BY <1>10, <1>11 DEF IInv

LEMMA JoinStep ==
  ASSUME IInv, NEW a, Join(a) PROVE IInv'
<1> DEFINE t == NewSlot(a, << >>)
           u == [used EXCEPT !["joins"] = @ + 1,
                             !.returns = IF a \in visited THEN @ + 1 ELSE @]
<1>1. /\ seq' = seq /\ pending' = pending /\ home' = home /\ snaps' = snaps
      /\ batches' = batches /\ redirects' = redirects \cup {a} /\ slots' = {t}
      /\ adopts' = adopts /\ adopts = {} /\ visited' = visited \cup {a} /\ used' = u
  BY DEF Join, Hosted, Arrives, Counted, client
<1>2. /\ \A S : Given(S) => Given(S)'
      /\ \A q : GivenSeq(q) => GivenSeq(q)'
      /\ \A r : SlotOK(r) => SlotOK(r)'
  BY <1>1, SameSeq
<1>3. u \in [moves : Nat, fails : Nat, joins : Nat, returns : Nat]
  <2>1. used \in [moves : Nat, fails : Nat, joins : Nat, returns : Nat]
    BY DEF IInv, Known
  <2>2. /\ used.joins + 1 \in Nat
        /\ (IF a \in visited THEN used.returns + 1 ELSE used.returns) \in Nat
    BY <2>1
  <2> QED BY <2>1, <2>2, Spent
<1>4. SlotOK(t)'
  <2>1. GivenSeq(<< >>)'
    BY DEF GivenSeq
  <2>2. a \in visited'
    BY <1>1
  <2> QED BY <2>1, <2>2, NewSlotOK
<1> HIDE DEF t, u
<1>5. home' \subseteq visited' /\ redirects' \subseteq visited'
  BY <1>1 DEF IInv, Known
<1>6. Known'
  BY <1>1, <1>2, <1>3, <1>5 DEF IInv, Known
<1>7. SlotsOK' /\ Single' /\ AckedHasActed'
  BY <1>1, <1>4 DEF IInv, SlotsOK, Single, AckedHasActed
<1> QED BY <1>6, <1>7 DEF IInv

LEMMA Inductive ==
  ASSUME IInv, [Next]_vars PROVE IInv'
<1>1. CASE Next
  BY <1>1, FrameStep, SendStep, SnapshotStep, RedirectStep, BatchStep, TickStep, EvictStep,
     CrossStep, AdoptStep, RecoverStep, JoinStep DEF Next
<1>2. CASE UNCHANGED vars
  BY <1>2 DEF vars, client, IInv, Known, Single, SlotsOK, AckedHasActed, SlotOK, Given, GivenSeq
<1> QED BY <1>1, <1>2

\* Whatever is lost, late or reordered, and however often the player is moved, a
\* snapshot's acknowledgement is of an input the body it shows has acted on
\* (ZoneSim::step, send_snapshots): the client never drops an input that has had
\* no effect for one that has not had any either.
THEOREM AckHonest == Spec => []AckedHasActed
<1>1. IInv /\ [Next]_vars => IInv'
  BY Inductive
<1>2. IInv => AckedHasActed
  BY DEF IInv
<1> QED BY Initially, <1>1, <1>2, PTL DEF Spec

-----------------------------------------------------------------------------
(***************************************************************************)
(* As long as nobody gets a player back, an authority that has applied no  *)
(* input of this stay has none before it that is older than the body it    *)
(* was given: what is on its way to it was stamped after the client came.  *)
(***************************************************************************)

AllNewer(S, st) == \A k \in S : k > Newest(st)

FreshAt(s) ==
  s.last_input_seq = 0 =>
    /\ AllNewer(s.pending, s.state)
    /\ \A b \in batches : b.to = s.at => AllNewer(b.frames, s.state)
    /\ s.at \in home => AllNewer(pending, s.state)

Fresh == \A s \in slots : FreshAt(s)

LEMMA NewestGiven ==
  ASSUME NEW st, GivenSeq(st), seq \in Nat
  PROVE  Newest(st) \in Nat /\ Newest(st) <= seq
<1>1. CASE st = << >>
  BY <1>1 DEF Newest
<1>2. CASE st # << >>
  <2>1. Len(st) \in 1..Len(st) /\ Newest(st) = st[Len(st)] /\ st[Len(st)] \in Nat
    BY <1>2 DEF Newest, GivenSeq
  <2> QED BY <2>1 DEF GivenSeq
<1> QED BY <1>1, <1>2

\* A body that comes to an authority which has not had it.
LEMMA FreshArrival ==
  ASSUME IInv, NEW a, a \notin visited, NEW st, slots' = {NewSlot(a, st)},
         batches' = batches, home' = home, pending' = pending
  PROVE  Fresh'
<1> DEFINE t == NewSlot(a, st)
<1>1. t.at = a /\ t.pending = {}
  BY DEF NewSlot
<1> HIDE DEF t
<1>2. a \notin home /\ \A b \in batches : b.to # a
  BY DEF IInv, Known
<1>3. FreshAt(t)'
  BY <1>1, <1>2 DEF FreshAt, AllNewer
<1> QED BY <1>3 DEF Fresh, t

LEMMA NotBefore ==
  ASSUME MaxReturns = 0, IInv, NEW a, Arrives(a)
  PROVE  a \notin visited
<1>1. used.returns \in Nat
  BY DEF IInv, Known
<1> QED BY <1>1 DEF Arrives

LEMMA FreshStep ==
  ASSUME MaxReturns = 0, IInv, Fresh, [Next]_vars
  PROVE  Fresh'
<1> seq \in Nat
  BY DEF IInv, Known
<1>1. CASE Frame
  <2>1. /\ pending' \subseteq pending \cup {seq + 1}
        /\ home' = home /\ slots' = slots /\ batches' = batches
    BY <1>1 DEF Frame, Kept
  <2>2. ASSUME NEW s \in slots PROVE FreshAt(s)'
    <3>1. Newest(s.state) \in Nat /\ Newest(s.state) <= seq
      BY NewestGiven DEF IInv, SlotsOK, SlotOK
    <3>2. FreshAt(s)
      BY DEF Fresh
    <3>3. AllNewer(pending, s.state) => AllNewer(pending', s.state)
      BY <2>1, <3>1, SMT DEF AllNewer
    <3> QED BY <2>1, <3>2, <3>3 DEF FreshAt
  <2> QED BY <2>1, <2>2 DEF Fresh
<1>2. CASE SendBatch
  <2>1. PICK a \in home : batches' = batches \cup {[to |-> a, frames |-> pending]}
    BY <1>2 DEF SendBatch
  <2>2. home' = home /\ slots' = slots /\ pending' = pending
    BY <1>2 DEF SendBatch, client
  <2> QED BY <2>1, <2>2 DEF Fresh, FreshAt
<1>3. ASSUME NEW r \in snaps, RecvSnapshot(r) PROVE Fresh'
  BY <1>3 DEF RecvSnapshot, Fresh, FreshAt, AllNewer
<1>4. ASSUME NEW a \in redirects, RecvRedirect(a) PROVE Fresh'
  BY <1>4 DEF RecvRedirect, Fresh, FreshAt, AllNewer
<1>5. ASSUME NEW b \in batches, RecvBatch(b) PROVE Fresh'
  <2>1. /\ pending' = pending /\ home' = home /\ batches' \subseteq batches
        /\ slots' = {IF s.at = b.to THEN Queued(s, b.frames) ELSE s : s \in slots}
    BY <1>5 DEF RecvBatch, client
  <2>2. ASSUME NEW s \in slots PROVE FreshAt(s)'
    BY <2>1 DEF Fresh, FreshAt
  <2>3. ASSUME NEW s \in slots, s.at = b.to PROVE FreshAt(Queued(s, b.frames))'
    <3> DEFINE q == Queued(s, b.frames)
    <3>1. /\ q.at = s.at /\ q.state = s.state /\ q.last_input_seq = s.last_input_seq
          /\ q.pending \subseteq s.pending \cup b.frames
      BY QueuedOK DEF IInv, SlotsOK, Known
    <3> HIDE DEF q
    <3>2. s.last_input_seq = 0 => AllNewer(q.pending, s.state)
      BY <2>3, <3>1 DEF Fresh, FreshAt, AllNewer
    <3>3. FreshAt(q)'
      BY <2>1, <2>2, <3>1, <3>2 DEF FreshAt
    <3> QED BY <3>3 DEF q
  <2> QED BY <2>1, <2>2, <2>3 DEF Fresh
<1>6. ASSUME NEW s \in slots, Tick(s) PROVE Fresh'
  <2> DEFINE t == Stepped(s)
  <2>1. /\ pending' = pending /\ home' = home /\ batches' = batches
        /\ slots' = (slots \ {s}) \cup {t}
    BY <1>6 DEF Tick, client
  <2>2. /\ t.at = s.at /\ t.pending = {}
        /\ t.last_input_seq = 0 => t.state = s.state /\ s.last_input_seq = 0
    <3>1. \A n \in s.pending : n # 0
      BY DEF IInv, SlotsOK, SlotOK, Given
    <3> QED BY <3>1, SteppedOK DEF IInv, SlotsOK
  <2> HIDE DEF t
  <2>3. FreshAt(t)'
    BY <2>1, <2>2 DEF Fresh, FreshAt, AllNewer
  <2> QED BY <2>1, <2>3 DEF Fresh, FreshAt
<1>7. ASSUME NEW s \in slots, Evict(s) PROVE Fresh'
  BY <1>7 DEF Evict, client, Fresh, FreshAt
<1>8. ASSUME NEW s \in slots, NEW a, Cross(s, a) PROVE Fresh'
  BY <1>8 DEF Cross, client, Fresh, FreshAt
<1>9. ASSUME NEW s \in slots, NEW a, Recover(s, a) PROVE Fresh'
  <2>1. PICK n \in 0..Len(s.state) :
          slots' = (slots \ {s}) \cup {NewSlot(a, SubSeq(s.state, 1, n))}
    BY <1>9 DEF Recover
  <2>2. slots \ {s} = {}
    BY DEF IInv, Single
  <2>3. a \notin visited
    BY <1>9, NotBefore DEF Recover
  <2> QED BY <1>9, <2>1, <2>2, <2>3, FreshArrival DEF Recover, client
<1>10. ASSUME NEW m \in adopts, Adopt(m) PROVE Fresh'
  <2>1. slots' = {NewSlot(m.to, m.state)}
    BY <1>10 DEF Adopt, IInv, Single
  <2>2. m.to \notin visited
    BY <1>10, NotBefore DEF Adopt
  <2> QED BY <1>10, <2>1, <2>2, FreshArrival DEF Adopt, client
<1>11. ASSUME NEW a, Join(a) PROVE Fresh'
  <2>1. a \notin visited
    BY <1>11, NotBefore DEF Join
  <2> QED BY <1>11, <2>1, FreshArrival DEF Join, client
<1>12. CASE UNCHANGED vars
  BY <1>12 DEF vars, client, Fresh, FreshAt, AllNewer
<1> QED BY <1>1, <1>2, <1>3, <1>4, <1>5, <1>6, <1>7, <1>8, <1>9, <1>10, <1>11, <1>12 DEF Next

-----------------------------------------------------------------------------
(* Every step is a step of InputOrder, or changes nothing of it. *)

LEMMA BodyIs ==
  /\ Single => /\ \A s \in slots : Body = s.state
               /\ \A m \in adopts : Body = m.state
  /\ slots = {} /\ adopts = {} => Body = << >>
  BY Zenon DEF Single, Body

LEMMA BodyIsNext ==
  /\ Single' => /\ \A s \in slots' : Body' = s.state
                /\ \A m \in adopts' : Body' = m.state
  /\ slots' = {} /\ adopts' = {} => Body' = << >>
  BY Zenon DEF Single, Body

LEMMA SameBody ==
  ASSUME Single, Single', slots' = slots, adopts' = adopts
  PROVE  Body' = Body
<1>1. CASE \E s \in slots : TRUE
  BY <1>1, BodyIs, BodyIsNext
<1>2. CASE \E m \in adopts : TRUE
  BY <1>2, BodyIs, BodyIsNext
<1>3. CASE slots = {} /\ adopts = {}
  BY <1>3, BodyIs, BodyIsNext
<1> QED BY <1>1, <1>2, <1>3

\* What a tick does to the body: nothing, or one newer input.
LEMMA TickActs ==
  ASSUME IInv, Fresh, NEW s \in slots
  PROVE  \/ Stepped(s).state = s.state
         \/ \E n \in (Newest(s.state) + 1)..seq : Stepped(s).state = Append(s.state, n)
<1>1. seq \in Nat /\ SlotOK(s) /\ FreshAt(s)
  BY DEF IInv, Known, SlotsOK, Fresh
<1>2. SUFFICES ASSUME NEW n \in s.pending, Stepped(s).state = Append(s.state, n)
               PROVE  n \in (Newest(s.state) + 1)..seq
  BY <1>1, SteppedOK
<1>3. Newest(s.state) \in Nat
  BY <1>1, NewestGiven DEF SlotOK
<1>4. n \in Nat /\ n <= seq /\ n > s.last_input_seq
  BY <1>1 DEF SlotOK, Given
<1>5. n > Newest(s.state)
  <2>1. CASE s.last_input_seq = 0
    BY <1>1, <2>1 DEF FreshAt, AllNewer
  <2>2. CASE s.last_input_seq > 0
    BY <1>1, <1>4, <2>2 DEF SlotOK
  <2> QED BY <1>1, <2>1, <2>2 DEF SlotOK
<1> QED BY <1>1, <1>3, <1>4, <1>5

LEMMA ActIs ==
  ASSUME seq' = seq, NEW n \in (Newest(Body) + 1)..seq, Body' = Append(Body, n)
  PROVE  Promise!Next
<1>1. Newest(Body) = Promise!newest
  BY DEF Newest, Promise!newest
<1> QED BY <1>1 DEF Promise!Next, Promise!Act

LEMMA SetBackIs ==
  ASSUME seq' = seq, NEW n \in 0..Len(Body), Body' = SubSeq(Body, 1, n)
  PROVE  Promise!Next
  BY DEF Promise!Next, Promise!SetBack

LEMMA StepRefines ==
  ASSUME IInv, IInv', Fresh, [Next]_vars
  PROVE  [Promise!Next]_<<seq, Body>>
<1> Single /\ Single'
  BY DEF IInv
<1>1. CASE Frame
  <2>1. seq' = seq + 1 /\ Body' = Body
    BY <1>1, SameBody DEF Frame
  <2> QED BY <2>1 DEF Promise!Next, Promise!Stamp
<1>2. ASSUME \/ SendBatch
             \/ \E r \in snaps : RecvSnapshot(r)
             \/ \E a \in redirects : RecvRedirect(a)
             \/ UNCHANGED vars
      PROVE UNCHANGED <<seq, Body>>
  BY <1>2, SameBody DEF SendBatch, RecvSnapshot, RecvRedirect, vars, client
<1>3. ASSUME NEW b \in batches, RecvBatch(b) PROVE UNCHANGED <<seq, Body>>
  <2>1. /\ seq' = seq /\ adopts' = adopts
        /\ slots' = {IF s.at = b.to THEN Queued(s, b.frames) ELSE s : s \in slots}
    BY <1>3 DEF RecvBatch, client
  <2>2. CASE slots = {}
    BY <2>1, <2>2, SameBody
  <2>3. ASSUME NEW s \in slots PROVE Body' = Body
    <3>1. PICK t \in slots' : t = IF s.at = b.to THEN Queued(s, b.frames) ELSE s
      BY <2>1
    <3>2. Queued(s, b.frames).state = s.state
      BY QueuedOK DEF IInv, SlotsOK, Known
    <3>3. Body' = t.state /\ Body = s.state
      BY BodyIs, BodyIsNext
    <3> QED BY <3>1, <3>2, <3>3
  <2> QED BY <2>1, <2>2, <2>3
<1>4. ASSUME NEW s \in slots, Tick(s) \/ \E a : Cross(s, a)
      PROVE [Promise!Next]_<<seq, Body>>
  <2>1. seq' = seq
    BY <1>4 DEF Tick, Cross, client
  <2>2. Body = s.state /\ Body' = Stepped(s).state
    <3>1. CASE Tick(s)
      <4>1. Stepped(s) \in slots'
        BY <3>1 DEF Tick
      <4> QED BY <4>1, BodyIs, BodyIsNext
    <3>2. ASSUME NEW a, Cross(s, a) PROVE Body' = Stepped(s).state
      <4>1. [to |-> a, state |-> Stepped(s).state] \in adopts'
        BY <3>2 DEF Cross
      <4>2. Body' = [to |-> a, state |-> Stepped(s).state].state
        BY <4>1, BodyIsNext
      <4> QED BY <4>2
    <3> QED BY <1>4, <3>1, <3>2, BodyIs
  <2>3. CASE Stepped(s).state = s.state
    BY <2>1, <2>2, <2>3
  <2>4. CASE \E n \in (Newest(s.state) + 1)..seq : Stepped(s).state = Append(s.state, n)
    BY <2>1, <2>2, <2>4, ActIs
  <2> QED BY <2>3, <2>4, TickActs
<1>5. ASSUME NEW s \in slots, Evict(s) PROVE [Promise!Next]_<<seq, Body>>
  <2>1. seq' = seq /\ slots' = {} /\ adopts' = {}
    BY <1>5 DEF Evict, client, Single
  <2>2. Body' = << >> /\ Body = s.state /\ s.state \in Seq(Nat)
    BY <2>1, BodyIs, BodyIsNext DEF IInv, SlotsOK, SlotOK, GivenSeq
  <2>3. 0 \in 0..Len(Body) /\ Body' = SubSeq(Body, 1, 0)
    BY <2>2
  <2> QED BY <2>1, <2>3, SetBackIs
<1>6. ASSUME NEW s \in slots, NEW a, Recover(s, a) PROVE [Promise!Next]_<<seq, Body>>
  <2>1. PICK n \in 0..Len(s.state) :
          slots' = (slots \ {s}) \cup {NewSlot(a, SubSeq(s.state, 1, n))}
    BY <1>6 DEF Recover
  <2>2. Body = s.state /\ Body' = NewSlot(a, SubSeq(s.state, 1, n)).state
    BY <2>1, BodyIs, BodyIsNext
  <2>3. Body' = SubSeq(Body, 1, n) /\ n \in 0..Len(Body) /\ seq' = seq
    BY <1>6, <2>2 DEF NewSlot, Recover, client
  <2> QED BY <2>3, SetBackIs
<1>7. ASSUME NEW m \in adopts, Adopt(m) PROVE UNCHANGED <<seq, Body>>
  <2>1. NewSlot(m.to, m.state) \in slots' /\ seq' = seq
    BY <1>7 DEF Adopt, client
  <2>2. Body = m.state /\ Body' = NewSlot(m.to, m.state).state
    BY <2>1, BodyIs, BodyIsNext
  <2> QED BY <2>1, <2>2 DEF NewSlot
<1>8. ASSUME NEW a, Join(a) PROVE UNCHANGED <<seq, Body>>
  <2>1. NewSlot(a, << >>) \in slots' /\ seq' = seq /\ slots = {} /\ adopts = {}
    BY <1>8 DEF Join, Hosted, client
  <2>2. Body = << >> /\ Body' = NewSlot(a, << >>).state
    BY <2>1, BodyIs, BodyIsNext
  <2> QED BY <2>1, <2>2 DEF NewSlot
<1> QED BY <1>1, <1>2, <1>3, <1>4, <1>5, <1>6, <1>7, <1>8 DEF Next

\* Over loss, reordering, re-sending, crossings, failovers and evictions, and with
\* no authority getting the player back, the body acts on the inputs in order and
\* on none twice: InputStream implements InputOrder.
THEOREM ActsInOrder ==
  ASSUME MaxReturns = 0
  PROVE  Spec => InOrder
<1>1. Init => Fresh /\ Promise!Init
  <2>1. Init => Fresh
    BY DEF Init, Fresh
  <2>2. Init => Promise!Init
    BY BodyIs DEF Init, Promise!Init
  <2> QED BY <2>1, <2>2
<1>2. IInv /\ Fresh /\ [Next]_vars => IInv' /\ Fresh'
  BY Inductive, FreshStep
<1>3. IInv /\ IInv' /\ Fresh /\ [Next]_vars => [Promise!Next]_<<seq, Body>>
  BY StepRefines
<1> QED BY Initially, <1>1, <1>2, <1>3, PTL DEF Spec, InOrder, Promise!Spec

-----------------------------------------------------------------------------
(* What the buffers and messages hold. *)

ClientOK ==
  /\ seq \in 0..MaxSeq
  /\ home \subseteq Authority /\ Cardinality(home) <= 1
  /\ pending \subseteq 1..seq /\ Cardinality(pending) <= Lag
PredictedOK == predicted = << >> \/ \E p \in States : predicted = <<p>>
BodiesOK    == slots \subseteq Slot /\ adopts \subseteq Adoption
FlightOK ==
  /\ batches \subseteq Batch /\ snaps \subseteq Local
  /\ redirects \subseteq Authority /\ visited \subseteq Authority
Spending == [moves : 0..MaxMoves, fails : 0..MaxFails, joins : 0..MaxJoins,
             returns : 0..MaxReturns]
UsedOK == used \in Spending

Sound == ClientOK /\ PredictedOK /\ BodiesOK /\ FlightOK /\ UsedOK

\* A set of numbers that is not empty has a least one.
LEMMA Least ==
  ASSUME NEW S \in SUBSET Nat, S # {}
  PROVE  \E k \in S : \A j \in S : k <= j
<1> DEFINE R == {p \in Nat \X Nat : p[1] < p[2]}
<1>1. PICK k \in S : \A j \in S : ~ (<<j, k>> \in R)
  <2>1. IsWellFoundedOn(R, Nat)
    BY NatOrder
  <2> HIDE DEF R
  <2> QED BY <2>1, WFMin
<1>2. \A j \in S : k <= j
  <2> TAKE j \in S
  <2>1. ~ (<<j, k>> \in R)
    BY <1>1
  <2> QED BY <2>1
<1> QED BY <1>2

LEMMA Sizes ==
  ASSUME NEW n \in Nat, NEW S \in SUBSET (1..n)
  PROVE  IsFiniteSet(S) /\ Cardinality(S) \in Nat
<1>1. IsFiniteSet(1..n)
  BY FS_Interval
<1> QED BY <1>1, FS_Subset, FS_CardinalityType

\* The ring does not grow past its bound.
LEMMA KeptOK ==
  ASSUME NEW n \in Nat, NEW S \in SUBSET (1..n), Cardinality(S) <= Lag
  PROVE  /\ Kept(S \cup {n + 1}) \subseteq 1..(n + 1)
         /\ Cardinality(Kept(S \cup {n + 1})) <= Lag
<1> DEFINE T == S \cup {n + 1}
<1>1. T \in SUBSET (1..(n + 1)) /\ T # {}
  OBVIOUS
<1>2. IsFiniteSet(S) /\ Cardinality(S) \in Nat
  BY Sizes
<1>3. IsFiniteSet(T) /\ Cardinality(T) \in Nat /\ Cardinality(T) <= Lag + 1
  <2>1. /\ IsFiniteSet(T)
        /\ Cardinality(T) = IF n + 1 \in S THEN Cardinality(S) ELSE Cardinality(S) + 1
    BY <1>2, FS_AddElement
  <2> QED BY <1>2, <2>1, InputAssumption
<1> HIDE DEF T
<1>4. Lowest(T) \in T
  <2>1. T \in SUBSET Nat
    BY <1>1
  <2>2. \E k \in T : \A j \in T : k <= j
    BY <1>1, <2>1, Least
  <2> QED BY <2>2 DEF Lowest
<1>5. Cardinality(T \ {Lowest(T)}) = Cardinality(T) - 1
  BY <1>3, <1>4, FS_RemoveElement
<1>6. Kept(T) \subseteq 1..(n + 1) /\ Cardinality(Kept(T)) <= Lag
  <2>1. (Kept(T) = T /\ Cardinality(T) <= Lag) \/ Kept(T) = T \ {Lowest(T)}
    BY <1>3, InputAssumption DEF Kept
  <2>2. CASE Kept(T) = T /\ Cardinality(T) <= Lag
    BY <1>1, <2>2
  <2>3. CASE Kept(T) = T \ {Lowest(T)}
    <3>1. Cardinality(Kept(T)) = Cardinality(T) - 1
      BY <1>5, <2>3
    <3>2. Cardinality(Kept(T)) <= Lag
      BY <1>3, <3>1, InputAssumption
    <3> QED BY <1>1, <2>3, <3>2
  <2> QED BY <2>1, <2>2, <2>3
<1> QED BY <1>6 DEF T

\* The numbers of a set are counted off from the lowest.
LEMMA Counting ==
  ASSUME NEW N \in Nat, NEW S \in SUBSET (1..N), NEW k \in 1..Cardinality(S)
  PROVE  \E i \in S : Cardinality({j \in S : j <= i}) = k
<1> DEFINE Upto(T, i) == {j \in T : j <= i}
           Missed(n) == \E T \in SUBSET (1..N) : /\ Cardinality(T) = n
                          /\ \E m \in 1..n : \A i \in T : Cardinality(Upto(T, i)) # m
           Bad == {n \in Nat : Missed(n)}
<1>1. \A T \in SUBSET (1..N) : IsFiniteSet(T) /\ Cardinality(T) \in Nat
  BY Sizes
<1>2. Bad = {}
  <2> SUFFICES ASSUME Bad # {} PROVE FALSE
    OBVIOUS
  <2>1. PICK n \in Bad : \A j \in Bad : n <= j
    <3>1. Bad \in SUBSET Nat
      OBVIOUS
    <3> HIDE DEF Bad
    <3> QED BY <3>1, Least
  <2>2. PICK T \in SUBSET (1..N) :
          /\ Cardinality(T) = n
          /\ \E m \in 1..n : \A i \in T : Cardinality(Upto(T, i)) # m
    OBVIOUS
  <2>3. PICK m \in 1..n : \A i \in T : Cardinality(Upto(T, i)) # m
    BY <2>2
  <2>4. T # {} /\ IsFiniteSet(T) /\ n \in Nat
    BY <1>1, <2>2, <2>3, FS_EmptySet
  <2>5. PICK top \in T : \A j \in T : j <= top
    <3> DEFINE D == {N - j : j \in T}
    <3>1. D \in SUBSET Nat /\ D # {}
      BY <2>4
    <3>2. PICK d \in D : \A e \in D : d <= e
      <4> HIDE DEF D
      <4> QED BY <3>1, Least
    <3>3. PICK j \in T : d = N - j
      BY <3>2
    <3>4. \A l \in T : l <= j
      <4> TAKE l \in T
      <4>1. N - j <= N - l
        BY <3>2, <3>3
      <4> QED BY <4>1
    <3> QED BY <3>4
  <2>6. Upto(T, top) = T
    BY <2>5
  <2>7. m # n
    BY <2>2, <2>3, <2>5, <2>6
  <2> DEFINE R == T \ {top}
  <2>8. R \in SUBSET (1..N) /\ Cardinality(R) = n - 1
    BY <2>2, <2>4, FS_RemoveElement
  <2>9. n - 1 \notin Bad
    <3> HIDE DEF Bad
    <3>1. ~(n <= n - 1)
      BY <2>4
    <3> QED BY <2>1, <3>1
  <2>10. m \in 1..(n - 1) /\ n - 1 \in Nat
    BY <2>3, <2>4, <2>7
  <2>11. ~ Missed(n - 1)
    BY <2>9, <2>10
  <2>12. PICK i \in R : Cardinality(Upto(R, i)) = m
    BY <2>8, <2>10, <2>11
  <2>13. Upto(R, i) = Upto(T, i)
    BY <2>5, <2>12
  <2> QED BY <2>3, <2>12, <2>13
<1>3. Cardinality(S) \in Nat /\ ~ Missed(Cardinality(S))
  BY <1>1, <1>2
<1> QED BY <1>3

LEMMA SortedOK ==
  ASSUME NEW n \in Nat, NEW S \in SUBSET (1..n)
  PROVE  Sorted(S) \in Seq(1..n)
<1> DEFINE place(i) == CHOOSE k \in S : Cardinality({j \in S : j <= k}) = i
<1>1. Cardinality(S) \in Nat
  BY Sizes
<1>2. \A i \in 1..Cardinality(S) : place(i) \in 1..n
  <2> TAKE i \in 1..Cardinality(S)
  <2>1. \E k \in S : Cardinality({j \in S : j <= k}) = i
    BY Counting
  <2> QED BY <2>1
<1>3. Sorted(S) = [i \in 1..Cardinality(S) |-> place(i)]
  BY DEF Sorted
<1> HIDE DEF place
<1> QED BY <1>1, <1>2, <1>3

\* Within its bounds, what SlotOK describes is a slot.
LEMMA IsSlot ==
  ASSUME NEW s, SlotOK(s), s.at \in Authority, s.last_input_seq \in 0..MaxSeq,
         s.pending \subseteq 1..MaxSeq, s.idle <= Timeout, s.state \in States
  PROVE  s \in Slot
<1>1. s.idle \in 0..Timeout
  BY InputAssumption DEF SlotOK
<1> QED BY <1>1, Zenon DEF SlotOK, Slot

-----------------------------------------------------------------------------
(* Every step keeps it. *)

LEMMA SoundFirst == Init => Sound
<1> SUFFICES ASSUME Init PROVE Sound
  OBVIOUS
<1>1. Cardinality({}) = 0
  BY FS_EmptySet
<1>2. ClientOK
  BY <1>1, InputAssumption DEF Init, ClientOK
<1>3. PredictedOK /\ BodiesOK /\ FlightOK
  BY DEF Init, PredictedOK, BodiesOK, FlightOK
<1>4. UsedOK
  BY InputAssumption DEF Init, UsedOK, Spending
<1> QED BY <1>2, <1>3, <1>4 DEF Sound

LEMMA FrameSound ==
  ASSUME IInv, Sound, Frame PROVE Sound'
<1>1. /\ seq \in 0..MaxSeq /\ MaxSeq \in Nat /\ seq' = seq + 1 /\ seq' \in 0..MaxSeq
      /\ home' = home /\ pending' = Kept(pending \cup {seq + 1})
      /\ UNCHANGED <<slots, batches, snaps, adopts, redirects, visited, used>>
  BY InputAssumption DEF Frame, Sound, ClientOK
<1>2. pending' \subseteq 1..seq' /\ Cardinality(pending') <= Lag
  BY <1>1, KeptOK DEF Sound, ClientOK
<1>3. ClientOK'
  BY <1>1, <1>2 DEF Sound, ClientOK
<1>4. PredictedOK'
  <2>1. CASE predicted = << >>
    BY <2>1 DEF Frame, PredictedOK
  <2>2. ASSUME NEW p \in States, predicted = <<p>> PROVE PredictedOK'
    <3>1. predicted' = <<Append(p, seq + 1)>>
      BY <2>2 DEF Frame
    <3>2. Append(p, seq + 1) \in States
      BY <1>1 DEF States
    <3> QED BY <3>1, <3>2 DEF PredictedOK
  <2> QED BY <2>1, <2>2 DEF Sound, PredictedOK
<1>5. BodiesOK' /\ FlightOK' /\ UsedOK'
  BY <1>1 DEF Sound, BodiesOK, FlightOK, UsedOK
<1> QED BY <1>3, <1>4, <1>5 DEF Sound

LEMMA SendSound ==
  ASSUME IInv, Sound, SendBatch PROVE Sound'
<1>1. UNCHANGED <<seq, home, pending, predicted, slots, snaps, adopts, redirects, visited, used>>
  BY DEF SendBatch, client
<1>2. pending \in SUBSET (1..MaxSeq)
  BY InputAssumption DEF Sound, ClientOK
<1>3. batches' \subseteq Batch
  <2>1. PICK a \in home : batches' = batches \cup {[to |-> a, frames |-> pending]}
    BY DEF SendBatch
  <2>2. a \in Authority /\ batches \subseteq Batch
    BY DEF Sound, ClientOK, FlightOK
  <2>3. [to |-> a, frames |-> pending] \in Batch
    BY <1>2, <2>2 DEF Batch
  <2> QED BY <2>1, <2>2, <2>3
<1> QED BY <1>1, <1>3 DEF Sound, ClientOK, PredictedOK, BodiesOK, FlightOK, UsedOK

LEMMA SnapshotSound ==
  ASSUME IInv, Sound, NEW s \in snaps, RecvSnapshot(s) PROVE Sound'
<1> DEFINE rest == {k \in pending : k > s.last_input_seq}
<1>1. /\ seq \in 0..MaxSeq /\ MaxSeq \in Nat /\ pending \subseteq 1..seq
      /\ Cardinality(pending) <= Lag /\ s \in Local
  BY InputAssumption DEF Sound, ClientOK, FlightOK
<1>2. /\ snaps' \subseteq snaps /\ pending' = rest /\ predicted' = <<s.state \o Sorted(rest)>>
      /\ UNCHANGED <<seq, home, slots, batches, adopts, redirects, visited, used>>
  BY DEF RecvSnapshot
<1>3. rest \in SUBSET pending
  OBVIOUS
<1> HIDE DEF rest
<1>4. Cardinality(rest) <= Lag
  <2>1. IsFiniteSet(pending) /\ Cardinality(pending) \in Nat
    BY <1>1, Sizes
  <2>2. Cardinality(rest) <= Cardinality(pending) /\ Cardinality(rest) \in Nat
    BY <1>3, <2>1, FS_Subset, FS_CardinalityType
  <2> QED BY <1>1, <2>1, <2>2, InputAssumption
<1>5. ClientOK'
  BY <1>1, <1>2, <1>3, <1>4 DEF Sound, ClientOK
<1>6. s.state \o Sorted(rest) \in States
  <2>1. rest \in SUBSET (1..MaxSeq)
    BY <1>1, <1>3
  <2>2. Sorted(rest) \in Seq(1..MaxSeq)
    BY <1>1, <2>1, SortedOK
  <2> QED BY <1>1, <2>2 DEF Local, States
<1>7. PredictedOK'
  BY <1>2, <1>6 DEF PredictedOK
<1>8. BodiesOK' /\ FlightOK' /\ UsedOK'
  BY <1>2 DEF Sound, BodiesOK, FlightOK, UsedOK
<1> QED BY <1>5, <1>7, <1>8 DEF Sound

LEMMA RedirectSound ==
  ASSUME IInv, Sound, NEW a \in redirects, RecvRedirect(a) PROVE Sound'
<1>1. /\ redirects' \subseteq redirects
      /\ home' = {a} /\ pending' = {} /\ predicted' = << >>
      /\ UNCHANGED <<seq, slots, batches, snaps, adopts, visited, used>>
  BY DEF RecvRedirect
<1>2. Cardinality(home') = 1 /\ Cardinality(pending') = 0 /\ Lag \in Nat
  BY <1>1, FS_Singleton, FS_EmptySet, InputAssumption
<1>3. ClientOK'
  BY <1>1, <1>2 DEF Sound, ClientOK, FlightOK
<1> QED BY <1>1, <1>3 DEF Sound, PredictedOK, BodiesOK, FlightOK, UsedOK

LEMMA BatchSound ==
  ASSUME IInv, Sound, NEW b \in batches, RecvBatch(b) PROVE Sound'
<1>1. /\ slots' = {IF s.at = b.to THEN Queued(s, b.frames) ELSE s : s \in slots}
      /\ batches' \subseteq batches
      /\ UNCHANGED <<seq, home, pending, predicted, snaps, adopts, redirects, visited, used>>
  BY DEF RecvBatch, client
<1>2. ASSUME NEW s \in slots PROVE Queued(s, b.frames) \in Slot
  <2> DEFINE q == Queued(s, b.frames)
  <2>1. s \in Slot /\ b \in Batch /\ Timeout \in Nat
    BY InputAssumption DEF Sound, BodiesOK, FlightOK
  <2>2. /\ SlotOK(q) /\ q.at = s.at /\ q.state = s.state
        /\ q.last_input_seq = s.last_input_seq
        /\ q.pending \subseteq s.pending \cup b.frames /\ q.idle = 0
    BY QueuedOK DEF IInv, SlotsOK, Known
  <2> HIDE DEF q
  <2>3. q \in Slot
    BY <2>1, <2>2, IsSlot DEF Slot, Batch
  <2> QED BY <2>3 DEF q
<1>3. slots' \subseteq Slot
  BY <1>1, <1>2 DEF Sound, BodiesOK
<1> QED BY <1>1, <1>3 DEF Sound, ClientOK, PredictedOK, BodiesOK, FlightOK, UsedOK

\* A tick that does not evict leaves a slot that is within the bounds.
LEMMA SteppedSlot ==
  ASSUME IInv, Sound, NEW s \in slots, Stepped(s).idle <= Timeout
  PROVE  Stepped(s) \in Slot
<1> DEFINE r == Stepped(s)
<1>1. s \in Slot
  BY DEF Sound, BodiesOK
<1>2. /\ SlotOK(r) /\ r.at = s.at /\ r.pending = {}
      /\ \/ r.state = s.state /\ r.last_input_seq = s.last_input_seq
         \/ \E n \in s.pending : r.state = Append(s.state, n) /\ r.last_input_seq = n
  BY SteppedOK DEF IInv, SlotsOK, Known
<1> HIDE DEF r
<1>3. r.state \in States /\ r.last_input_seq \in 0..MaxSeq
  <2>1. /\ s.state \in Seq(1..MaxSeq) /\ s.last_input_seq \in 0..MaxSeq
        /\ s.pending \in SUBSET (1..MaxSeq)
    BY <1>1 DEF Slot, States
  <2>2. CASE r.state = s.state /\ r.last_input_seq = s.last_input_seq
    BY <2>1, <2>2 DEF States
  <2>3. ASSUME NEW n \in s.pending, r.state = Append(s.state, n), r.last_input_seq = n
        PROVE  r.state \in States /\ r.last_input_seq \in 0..MaxSeq
    <3>1. n \in 1..MaxSeq /\ MaxSeq \in Nat
      BY <2>1, InputAssumption
    <3>2. Append(s.state, n) \in Seq(1..MaxSeq)
      BY <2>1, <3>1
    <3> QED BY <2>3, <3>1, <3>2 DEF States
  <2> QED BY <1>2, <2>2, <2>3
<1>4. r.at \in Authority /\ r.idle <= Timeout
  BY <1>1, <1>2 DEF Slot, r
<1>5. r \in Slot
  BY <1>2, <1>3, <1>4, IsSlot
<1> QED BY <1>5 DEF r

LEMMA TickSound ==
  ASSUME IInv, Sound, NEW s \in slots, Tick(s) PROVE Sound'
<1> DEFINE r == Stepped(s)
<1>1. /\ r.idle <= Timeout /\ slots' = (slots \ {s}) \cup {r}
      /\ snaps' = snaps \cup {[last_input_seq |-> r.last_input_seq, state |-> r.state]}
      /\ UNCHANGED <<seq, home, pending, predicted, batches, adopts, redirects, visited, used>>
  BY DEF Tick, client
<1>2. r \in Slot
  BY <1>1, SteppedSlot
<1> HIDE DEF r
<1>3. slots' \subseteq Slot
  BY <1>1, <1>2 DEF Sound, BodiesOK
<1>4. snaps' \subseteq Local
  BY <1>1, <1>2 DEF Sound, FlightOK, Slot, Local
<1> QED BY <1>1, <1>3, <1>4 DEF Sound, ClientOK, PredictedOK, BodiesOK, FlightOK, UsedOK

LEMMA EvictSound ==
  ASSUME IInv, Sound, NEW s \in slots, Evict(s) PROVE Sound'
BY DEF Evict, client, Sound, ClientOK, PredictedOK, BodiesOK, FlightOK, UsedOK

LEMMA CrossSound ==
  ASSUME IInv, Sound, NEW s \in slots, NEW to \in Authority, Cross(s, to) PROVE Sound'
<1> DEFINE r == Stepped(s)
<1>1. /\ r.idle <= Timeout /\ slots' = slots \ {s}
      /\ adopts' = adopts \cup {[to |-> to, state |-> r.state]}
      /\ used.moves < MaxMoves /\ used' = [used EXCEPT !.moves = @ + 1]
      /\ UNCHANGED <<seq, home, pending, predicted, batches, snaps, redirects, visited>>
  BY DEF Cross, Spend, client
<1>2. r.state \in States
  BY <1>1, SteppedSlot DEF Slot
<1> HIDE DEF r
<1>3. BodiesOK'
  BY <1>1, <1>2 DEF Sound, BodiesOK, Adoption
<1>4. UsedOK'
  BY <1>1, InputAssumption DEF Sound, UsedOK, Spending
<1> QED BY <1>1, <1>3, <1>4 DEF Sound, ClientOK, PredictedOK, FlightOK

LEMMA NewSlotIs ==
  ASSUME NEW a \in Authority, NEW st \in States
  PROVE  NewSlot(a, st) \in Slot
BY InputAssumption DEF NewSlot, Slot

\* An arrival is counted as a return within the bound.
LEMMA Returned ==
  ASSUME NEW v \in Spending, NEW a, a \in visited => v.returns < MaxReturns
  PROVE  (IF a \in visited THEN v.returns + 1 ELSE v.returns) \in 0..MaxReturns
BY InputAssumption DEF Spending

LEMMA Spends ==
  ASSUME NEW v \in Spending, NEW x \in 0..MaxReturns, NEW y, NEW r,
         \/ y \in 0..MaxFails /\ r = [v EXCEPT !.fails = y, !.returns = x]
         \/ y \in 0..MaxJoins /\ r = [v EXCEPT !.joins = y, !.returns = x]
  PROVE  r \in Spending
BY DEF Spending

LEMMA AdoptSound ==
  ASSUME IInv, Sound, NEW m \in adopts, Adopt(m) PROVE Sound'
<1>1. /\ adopts' \subseteq adopts /\ slots' = slots \cup {NewSlot(m.to, m.state)}
      /\ redirects' = redirects \cup {m.to} /\ visited' = visited \cup {m.to}
      /\ m.to \in visited => used.returns < MaxReturns
      /\ used' = [used EXCEPT !.returns = IF m.to \in visited THEN @ + 1 ELSE @]
      /\ UNCHANGED <<seq, home, pending, predicted, batches, snaps>>
  BY DEF Adopt, Arrives, client
<1>2. m.to \in Authority /\ m.state \in States
  BY DEF Sound, BodiesOK, Adoption
<1>3. BodiesOK'
  BY <1>1, <1>2, NewSlotIs DEF Sound, BodiesOK
<1>4. UsedOK'
  <2>1. used \in Spending
    BY DEF Sound, UsedOK
  <2>2. (IF m.to \in visited THEN used.returns + 1 ELSE used.returns) \in 0..MaxReturns
    BY <1>1, <2>1, Returned
  <2> QED BY <1>1, <2>1, <2>2 DEF UsedOK, Spending
<1> QED BY <1>1, <1>2, <1>3, <1>4 DEF Sound, ClientOK, PredictedOK, FlightOK

LEMMA PrefixIs ==
  ASSUME NEW S, NEW st \in Seq(S), NEW n \in 0..Len(st)
  PROVE  SubSeq(st, 1, n) \in Seq(S)
<1>1. Len(st) \in Nat /\ n \in Int /\ \A i \in 1..Len(st) : st[i] \in S
  OBVIOUS
<1>2. \A i \in 1..n : st[i] \in S
  BY <1>1
<1> QED BY <1>1, <1>2, SubSeqProperties

LEMMA RecoverSound ==
  ASSUME IInv, Sound, NEW s \in slots, NEW to \in Authority, Recover(s, to) PROVE Sound'
<1>1. PICK n \in 0..Len(s.state) :
        slots' = (slots \ {s}) \cup {NewSlot(to, SubSeq(s.state, 1, n))}
  BY DEF Recover
<1>2. /\ redirects' = redirects \cup {to} /\ visited' = visited \cup {to}
      /\ to \in visited => used.returns < MaxReturns
      /\ used.fails < MaxFails
      /\ UNCHANGED <<seq, home, pending, predicted, batches, snaps, adopts>>
  BY DEF Recover, Arrives, client
<1>3. SubSeq(s.state, 1, n) \in States
  <2>1. s.state \in States
    BY DEF Sound, BodiesOK, Slot
  <2> QED BY <2>1, PrefixIs DEF States
<1>4. BodiesOK'
  BY <1>1, <1>2, <1>3, NewSlotIs DEF Sound, BodiesOK
<1>5. UsedOK'
  <2> DEFINE x == IF to \in visited THEN used.returns + 1 ELSE used.returns
  <2>1. used \in Spending
    BY DEF Sound, UsedOK
  <2>2. x \in 0..MaxReturns
    BY <1>2, <2>1, Returned
  <2>3. used' = [used EXCEPT !.fails = used.fails + 1, !.returns = x]
    BY DEF Recover, Counted
  <2> HIDE DEF x
  <2>4. used.fails + 1 \in 0..MaxFails
    BY <1>2, <2>1, InputAssumption DEF Spending
  <2> QED BY <2>1, <2>2, <2>3, <2>4, Spends DEF UsedOK
<1> QED BY <1>2, <1>4, <1>5 DEF Sound, ClientOK, PredictedOK, FlightOK

LEMMA JoinSound ==
  ASSUME IInv, Sound, NEW a \in Entry, Join(a) PROVE Sound'
<1>1. /\ slots' = {NewSlot(a, << >>)}
      /\ redirects' = redirects \cup {a} /\ visited' = visited \cup {a}
      /\ a \in visited => used.returns < MaxReturns
      /\ used.joins < MaxJoins
      /\ UNCHANGED <<seq, home, pending, predicted, batches, snaps, adopts>>
  BY DEF Join, Arrives, client
<1>2. a \in Authority /\ << >> \in States
  BY InputAssumption DEF States
<1>3. BodiesOK'
  BY <1>1, <1>2, NewSlotIs DEF Sound, BodiesOK
<1>4. UsedOK'
  <2> DEFINE x == IF a \in visited THEN used.returns + 1 ELSE used.returns
  <2>1. used \in Spending
    BY DEF Sound, UsedOK
  <2>2. x \in 0..MaxReturns
    BY <1>1, <2>1, Returned
  <2>3. used' = [used EXCEPT !.joins = used.joins + 1, !.returns = x]
    BY DEF Join, Counted
  <2> HIDE DEF x
  <2>4. used.joins + 1 \in 0..MaxJoins
    BY <1>1, <2>1, InputAssumption DEF Spending
  <2> QED BY <2>1, <2>2, <2>3, <2>4, Spends DEF UsedOK
<1> QED BY <1>1, <1>2, <1>3, <1>4 DEF Sound, ClientOK, PredictedOK, FlightOK

LEMMA SoundNext ==
  ASSUME IInv, Sound, [Next]_vars PROVE Sound'
<1>1. CASE Next
  BY <1>1, FrameSound, SendSound, SnapshotSound, RedirectSound, BatchSound, TickSound,
     EvictSound, CrossSound, AdoptSound, RecoverSound, JoinSound DEF Next
<1>2. CASE UNCHANGED vars
  BY <1>2 DEF vars, client, Sound, ClientOK, PredictedOK, BodiesOK, FlightOK, UsedOK
<1> QED BY <1>1, <1>2

\* There is one body, in a slot or on its way, whatever happens to messages and
\* authorities; the client's ring, a slot's idle count and the numbers that are queued,
\* sent and acknowledged stay within what was stamped and what the code bounds
\* (push_input, queue_input, adopt_player).
THEOREM TypeCorrect == Spec => []TypeOK
<1>1. IInv /\ Sound /\ [Next]_vars => (IInv /\ Sound)'
  BY Inductive, SoundNext
<1>2. IInv /\ Sound => TypeOK
  <2> SUFFICES ASSUME IInv, Sound PROVE TypeOK
    OBVIOUS
  <2>1. Cardinality(slots) + Cardinality(adopts) <= 1
    <3>1. \/ slots = {} /\ adopts = {}
          \/ slots = {} /\ \E m : adopts = {m}
          \/ adopts = {} /\ \E s : slots = {s}
      BY DEF IInv, Single
    <3>2. Cardinality({}) = 0 /\ \A x : Cardinality({x}) = 1
      BY FS_EmptySet, FS_Singleton
    <3>3. /\ Cardinality(slots) = 0 \/ Cardinality(slots) = 1
          /\ Cardinality(adopts) = 0 \/ Cardinality(adopts) = 1
          /\ Cardinality(slots) = 0 \/ Cardinality(adopts) = 0
      BY <3>1, <3>2, Zenon
    <3> QED BY <3>3
  <2>2. predicted = << >> \/ \E p \in {predicted[1]} : predicted = <<p>> /\ p \in Seq(1..MaxSeq)
    BY DEF Sound, PredictedOK, States
  <2> QED BY <2>1, <2>2 DEF TypeOK, Sound, ClientOK, BodiesOK, FlightOK, UsedOK, Spending
<1> QED BY Initially, SoundFirst, <1>1, <1>2, PTL DEF Spec

\* One body, bounded buffers and honest acknowledgements, in every behaviour.
THEOREM AcksStaySound == Spec => []AcksSound
BY TypeCorrect, AckHonest, PTL DEF AcksSound
=============================================================================
