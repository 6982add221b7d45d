SPECIFICATION MediaFairSpec
CONSTANTS
  Web = {w}
  MobileSessions = {m1}
  Sessions = {w, m1}
  Runs = {fg}
  Clients = {w, fg}
  Contents = {c}
  Handlers = {h1, h2}
  Versions = {v}
  WebFile <- MCWebFile
  Photo <- MCPhoto
  None = none
  Dead = dead
  Size = 1
  MaxAttempts = 2
  MaxStalls = 2
  MaxFaults = 1
  Assets = {a1, a2}
  Items = {i1, i2}
  Checksums = {c}
  Trashers = {t1}
  Purgers = {p1, p2}
  Null = none
  MaxFailures = 1
  MaxKills = 1
CHECK_DEADLOCK FALSE
PROPERTIES TransfersSettle TrashIsEmptied
