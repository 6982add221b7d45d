SPECIFICATION Spec
CONSTANTS
  Requests = {r1}
  Workers = {w1}
  Uploads = {}
  Assets = {l}
  Legacy = {l}
  Beat = beat
  None = none
  BatchSize = 1
  MaxFaults = 0
  MaxDumps = 0
PROPERTIES ReviewStays
