SPECIFICATION Spec
CONSTANTS
  Desktops = {a1, a2}
  Contents = {b1, b2}
  Paths = {"p", "q"}
  MaxLogical = 2
  MaxOps = 3
  Limit = 2
  NoFile = none
  MaxEdits = 3
  MaxDeaths = 1
  Drives = {b1, b2}
  Workers = {a1, a2}
  Desired = 2
  MaxEvents = 1
  Requests = {a1, a2}
  Sessions = {"s1", "s2"}
  Links = {"l1", "l2"}
  Passkeys = {"k1", "k2"}
  MaxPasskeys = 2
  Codes = {"c"}
  None = none
  MaxPasswords = 1
  MaxSecrets = 2
  MaxSteps = 2
  MaxAdmitted = 3
  Identities = {a1, a2}
  PairCodes = {b1, b2}
  NoConfig = none
  MaxTime = 2
  MaxCalls = 4
  MaxSecret = 2
  Owners = {a1, a2}
  Runners = {b1, b2}
  Verifications = {"v1", "v2"}
  Scheduled = scheduled
  Unset = none
  LegacyRows = {"r1", "r2", "r3"}
  Holder <- MCHolder
  Object <- MCObject
  Movers = {a1, a2}
  MaxKeys = 2
SYMMETRY Symmetry
CHECK_DEADLOCK FALSE
INVARIANTS
  ServicesTypeOK
   HistoryIsSound 
  SessionsFollowPassword SignInRemains
  NextIsNew RevokedStaysOut
  NoTwoBackups
  MediaStaysReadable CiphertextHasItsKey
PROPERTIES
   OnlyFaultsDestroy ProofsWorkOnce OnlyItsWorkerReleases
