----------------------------- MODULE MCWorldTick -----------------------------
(* An instance of WorldTick for TLC: two players, one with a nova on a kill and    *)
(* one with thorns, gear that heals, and spells that use every op.                *)
EXTENDS WorldTick

CONSTANTS ann, bob, red, robe, potion, staff

Hit(n) == [op |-> "damage", amount |-> n]
Shaped(faction, op) == [op |-> "shape", faction |-> faction, then |-> op]
InTurn(list) == [op |-> "seq", children |-> list]
Hex(status, n) == [op |-> "status", status |-> status, duration |-> n]

Flames == [op |-> "field", duration |-> 2, interval |-> 1,
           then |-> Shaped("enemies", Hex("burn", 2))]
MCBook ==
  [bolt |-> [op |-> "projectile", lifetime |-> 1,
             then |-> InTurn(<<Hit(1), [op |-> "motion"], Flames>>)],
   echo |-> [op |-> "repeat", count |-> 2, step |-> 1,
             then |-> [op |-> "delay", ticks |-> 1, then |-> Shaped("enemies", Hit(2))]],
   ward |-> InTurn(<<[op |-> "ifmarked", then |-> Hex("frozen", 1),
                      otherwise |-> [op |-> "chance", then |-> [op |-> "summon", duration |-> 2]]],
                     [op |-> "shield", amount |-> 1, duration |-> 1],
                     [op |-> "mark", duration |-> 2]>>)]
MCBrew == [op |-> "heal", amount |-> 1]

\* The nodes of a tree.
RECURSIVE Nodes(_)
Nodes(op) ==
  {op} \cup UNION {Nodes(child) : child \in
    (IF op.op = "seq" THEN ToSet(op.children)
     ELSE {op[f] : f \in DOMAIN op \cap {"then", "otherwise"}})}

MCOwner == {ann, bob}
MCArrivals == <<ann, bob>>
MCTeam == [o \in MCOwner |-> IF o = ann THEN red ELSE None]
MCKit == [o \in MCOwner |-> IF o = ann THEN <<robe, potion>> ELSE <<staff>>]
MCGear == [o \in MCOwner |->
  IF o = ann
  THEN {[when |-> "kill", on |-> "self", effect |-> Shaped("enemies", Hit(1))],
        [when |-> "hit", on |-> "self", effect |-> MCBrew]}
  ELSE {[when |-> "struck", on |-> "self", effect |-> MCBrew],
        [when |-> "tick", on |-> "self", effect |-> MCBrew]}]
MCOp ==
  UNION {Nodes(op) : op \in {MCBook[a] : a \in DOMAIN MCBook} \cup {MCBrew}
                             \cup {g.effect : g \in UNION {MCGear[o] : o \in MCOwner}}}

\* How long what the spells leave may last, node by node.
RECURSIVE Span(_), Late(_, _), Leaving(_)
Most(S) == CHOOSE n \in S \cup {0} : \A k \in S : k <= n
Span(op) ==
  Most({Span(o) : o \in Within(op)} \cup {l.lasts : l \in Leaves(op)}
       \cup {Span(l.then) : l \in Leaves(op)})
Late(op, p) ==
  Most({Late(o, p) : o \in Within(op)}
       \cup {Late(l.then, l.pass) + (IF p < l.pass THEN 0 ELSE 1) : l \in Leaves(op)})
Leaving(op) == Leaves(op) # {} \/ \E o \in Within(op) : Leaving(o)
ASSUME Fades([span  |-> [o \in Op |-> Span(o)],
              late  |-> [o \in Op |-> [p \in 0..3 |-> Late(o, p)]],
              still |-> {o \in Op : ~ Leaving(o)}])
==============================================================================
