SPECIFICATION Spec
CONSTANTS
  Web = {w1, w2}
  MobileSessions = {m1}
  Sessions = {w1, w2, m1}
  Runs = {fg}
  Clients = {w1, w2, fg}
  Contents = {c}
  Handlers = {h1, h2}
  Versions = {}
  WebFile <- MCWebFile
  Photo <- MCPhoto
  None = none
  Dead = dead
  Size = 1
  MaxAttempts = 2
  MaxStalls = 2
  MaxFaults = 0
INVARIANTS AssetsAreReadable
