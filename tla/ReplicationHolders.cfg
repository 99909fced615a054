SPECIFICATION Spec
CONSTANTS
  a = a
  p = p
  q = q
  Node = {a, p, q}
  Player = {a, p, q}
  Factor = 1
  Interval = 1
  Window = 1
  TTL = 1
  Cap = 1
  MaxNet = 2
  Crashes = 1
  Tenures = 2
  Yields = 1
  Joins = 3
  Leaves = 1
  TicksA = 2
  TicksP = 1
  TicksQ = 1
  MaxTick <- MCMaxTick
  Budget <- MCBudget
SYMMETRY Peers
CONSTRAINT Sparing
INVARIANTS SeqOrdersIssue StoresSound
CHECK_DEADLOCK FALSE
 
