SPECIFICATION Spec
CONSTANTS
  ann = ann
  bob = bob
  red = red
  robe = robe
  potion = potion
  staff = staff
  None = None
  Owner <- MCOwner
  Arrivals <- MCArrivals
  Team <- MCTeam
  Kit <- MCKit
  Potion = {potion}
  Op <- MCOp
  Book <- MCBook
  Secondary = "ward"
  Brew <- MCBrew
  Gear <- MCGear
  Thorny = {bob}
  MaxHealth = 2
  MobHealth = 1
  RespawnTicks = 2
  BurnTicks = 1
  Recovery = 2
  FoeTicks = 2
  Lifespan = 2
  MaxOps = 5
  MaxDepth = 4
  MaxTick = 3
  MaxActs = 2
  MaxImprints = 1
  MaxTrips = 1
  LastJoin = 0
  FirstTrip = 1
CHECK_DEADLOCK FALSE
INVARIANTS Bookkeeping  CreditEarned CastsEnd
PROPERTIES NoRevival
