SPECIFICATION MediaSpec
CONSTANTS
  Web = {w}
  MobileSessions = {m1, m2}
  Sessions = {w, m1, m2}
  Runs = {i1, i2}
  Clients = {w, i1, i2}
  Contents = {c}
  Handlers = {p1, p2}
  Versions = {v}
  WebFile <- MCWebFile
  Photo <- MCPhoto
  None = none
  Dead = dead
  Size = 2
  MaxAttempts = 2
  MaxStalls = 2
  MaxFaults = 1
  Assets = {a1, a2, a3}
  Items = {i1, i2}
  Checksums = {c1, c2}
  Trashers = {t1}
  Purgers = {p1, p2}
  Null = none
  MaxFailures = 2
  MaxKills = 0
CHECK_DEADLOCK FALSE
SYMMETRY Symmetry
INVARIANTS
  TypeOK BytesAreKept CompleteIsStored WebIsSaved CompleteIsReceived
  LifecycleTypeOK CatalogHasBytes NothingLeaks
PROPERTIES CompleteStays LastReferenceGoes
