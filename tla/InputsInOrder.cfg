SPECIFICATION FairSpec
CONSTANTS
  a1 = a1
  a2 = a2
  a3 = a3
  Authority = {a1, a2}
  Entry = {a1}
  Lag = 2
  Timeout = 1
  MaxSeq = 3
  MaxMoves = 1
  MaxFails = 1
  MaxJoins = 1
  MaxReturns = 0
INVARIANT AcksSound
PROPERTIES InOrder LastInputActs
CHECK_DEADLOCK FALSE
