SPECIFICATION SyncSpec
CONSTANTS
  Desktops = {d1, d2}
  Contents = {x, y}
  Paths = {p}
  NoFile = none
  MaxLogical = 3
  MaxOps = 4
  Limit = 2
  MaxEdits = 3
  MaxDeaths = 0
CHECK_DEADLOCK FALSE
PROPERTIES NothingIsOverwritten
