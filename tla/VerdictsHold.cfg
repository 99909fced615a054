SPECIFICATION Spec
CONSTANTS
  Node = {n1, n2, n3}
  Coordinator = n1
  Liars = {n3}
  Zone = {z1, z2}
  Player = {p1, p2, p3, p4}
  Severities = {100}
  Round <- MCRound
  Sample = 3
  Window = 2
  MaxTick = 2
  Budget = 6
  ClaimCost = 3
SYMMETRY Symmetry
CHECK_DEADLOCK FALSE
INVARIANTS VerdictsStand ProfilesSound
 
