SPECIFICATION FairSpec
CONSTANTS
  a = a
  b = b
  p = p
  spawn = spawn
  wild = wild
  Node = {a, b}
  Player = {p}
  Zone = {spawn, wild}
  Core = {spawn}
  Admission = {spawn}
  Coordinator = a
  Priority <- MCPriority
  Replicates = FALSE
  MaxJoins = 1
  Crashes = 1
  Moves = 2
  Leaves = 1
  Idles = 1
  Lags = 1
  Losses = 1
  Budget <- MCBudget
INVARIANTS OnePlace BodiesSound
PROPERTY Settles
CHECK_DEADLOCK FALSE
