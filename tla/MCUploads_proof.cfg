SPECIFICATION Spec
CONSTANTS
  Web = {}
  MobileSessions = {m1, m2}
  Sessions = {m1, m2}
  Runs = {fg, bg}
  Clients = {fg, bg}
  Contents = {c}
  Handlers = {h1, h2}
  Versions = {v}
  WebFile <- MCWebFile
  Photo <- MCPhoto
  None = none
  Dead = dead
  Size = 1
  MaxAttempts = 2
  MaxStalls = 2
  MaxFaults = 1
INVARIANTS CompleteIsProof
