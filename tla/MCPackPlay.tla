----------------------------- MODULE MCPackPlay -----------------------------
(* Instances of PackPlay.                                                    *)
EXTENDS PackPlay

\* The shipped pack with the starting ability pointed at any of its spells...
Repointed == {[gone |-> {}, primary |-> s] : s \in DOMAIN Spells}
\* ... or without one definition, some of which nothing validated refers to.
Lacking ==
  {[gone |-> {<<kind, id>>}, primary |-> s] :
     kind \in {"spell", "status", "item", "ability", "mob"},
     id \in {"mana_draught", "fireball", "burning", "poisoned", "ember_staff",
             "mana_crystal", "frozen", "dead_risen_husk", "wisp"},
     s \in {"fireball", "verdance_spore_burst"}}
\* ... or without the very spell that the starting ability is pointed at.
SelfLacking ==
  {[gone |-> {<<"spell", s>>}, primary |-> s] : s \in DOMAIN Spells}
MCEdits ==
  SelfLacking \cup Repointed \cup {c \in Lacking : \A g \in c.gone : g[2] \in Ids[g[1]]}
=============================================================================
