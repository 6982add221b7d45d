SPECIFICATION LifecycleSpec
CONSTANTS
  Assets = {a1}
  Items = {i1}
  Checksums = {c1}
  Trashers = {t1}
  Purgers = {p1}
  Null = none
  MaxFailures = 0
  MaxKills = 1
CHECK_DEADLOCK FALSE
INVARIANT TombstoneIsDurable
