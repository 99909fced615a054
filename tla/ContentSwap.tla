------------------------------ MODULE ContentSwap ------------------------------
(***************************************************************************)
(* What a live edit promises whoever plays: each place serves one version  *)
(* of the content at a time, the version was published (or was there from  *)
(* the start), and while the place runs it only ever moves to a later one. *)
(***************************************************************************)
EXTENDS Naturals

CONSTANTS
  Place,    \* whatever serves content: the zones of the nodes, the clients
  Version,  \* versions of the content, records with an epoch
  Nothing,  \* what a place serves that does not run
  Initial   \* the versions there are before anything is published

VARIABLES
  published,  \* the versions there have been
  serving     \* the version each place serves

Init ==
  /\ published = Initial
  /\ serving \in [Place -> Initial \cup {Nothing}]

Publish ==
  /\ \E v \in Version : published' = published \cup {v}
  /\ UNCHANGED serving

Later(v) == {w \in published : w.epoch > v.epoch}

\* Running places move on, each at once and as a whole.
Swap ==
  /\ serving' \in [Place -> published \cup {Nothing}]
  /\ \A p \in Place :
        \/ serving'[p] = serving[p]
        \/ serving[p] # Nothing /\ serving'[p] \in Later(serving[p])
  /\ UNCHANGED published

\* A place starts to run, on any of the versions.
Open ==
  /\ \E p \in Place, v \in published :
        /\ serving[p] = Nothing
        /\ serving' = [serving EXCEPT ![p] = v]
  /\ UNCHANGED published

\* Places stop, or start over as they were at the very beginning.
Close ==
  /\ serving' \in [Place -> published \cup {Nothing}]
  /\ \A p \in Place : serving'[p] = serving[p] \/ serving'[p] \in Initial \cup {Nothing}
  /\ UNCHANGED published

Next == Publish \/ Swap \/ Open \/ Close

Spec == Init /\ [][Next]_<<published, serving>>
=============================================================================
