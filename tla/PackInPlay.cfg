SPECIFICATION PlaySpec
CONSTANTS
  Edits <- MCEdits
  MaxPacks = 3
  MaxCasts = 1
  MaxFoes = 1
INVARIANTS NothingDangles CasterSpared ShippedCloses
PROPERTIES Quiesces
CHECK_DEADLOCK FALSE
