CONSTANTS
  Copy = {elder, heir}
  Elder = elder
  Player = {p, q}
  School = {"fire", "shadow", "radiant"}
  Reward <- MCReward
  Dice <- MCDice
  Ages <- MCAges
  MaxPop = 20000
SPECIFICATION LivingSpec
INVARIANTS SoulsAgree 
PROPERTIES   LandRefills
CHECK_DEADLOCK FALSE
