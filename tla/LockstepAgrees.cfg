SPECIFICATION HostsSpec
CONSTANTS
  Donor = {1,2}
  Tab = {11}
  Relay <- MCRelay
  InputDelay = 1
  MaxCatchup = 1
  ProofInterval = 2
  SnapshotInterval = 4
  SlashThreshold = 3
  MaxLag <- MCMaxLag
  TabLag = 1
  MinLatency <- MCMinLatency
  MaxLatency <- MCMaxLatency
  Jitter = 1
  Repeats = 0
  MaxInputs <- MCMaxInputs
  Moves = 1
  Horizon = 3
 
PROPERTY ClockNeverRewinds
CHECK_DEADLOCK FALSE
