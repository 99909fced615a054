SPECIFICATION FairSpec
CONSTANTS
  a = a
  b = b
  p = p
  q = q
  spawn = spawn
  wild = wild
  Node = {a, b}
  Player = {p, q}
  Zone = {spawn, wild}
  Core = {spawn}
  Admission = {spawn}
  Coordinator = a
  Priority <- MCPriority
  Replicates = TRUE
  MaxJoins = 1
  Crashes = 1
  Moves = 1
  Leaves = 0
  Idles = 0
  Lags = 0
  Losses = 0
  Budget <- MCBudget
PROPERTY Settles
CHECK_DEADLOCK FALSE
