SPECIFICATION LiveSpec
CONSTANTS
  Requests = {r1}
  Workers = {w1, w2}
  Uploads = {u}
  Assets = {l}
  Legacy = {l}
  Beat = beat
  None = none
  BatchSize = 1
  MaxFaults = 2
  MaxDumps = 1
PROPERTIES PromiseIsKept OnlyStaleCopiesOverwrite
