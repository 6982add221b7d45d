SPECIFICATION Spec
CONSTANTS
  Requests = {r1, r2}
  Workers = {w1}
  Uploads = {}
  Assets = {a, l}
  Legacy = {l}
  Beat = beat
  None = none
  BatchSize = 1
  MaxFaults = 1
  MaxDumps = 1
SYMMETRY Symmetry
INVARIANTS TypeOK PromiseComesFirst CompletedIsErased ReviewKeepsEvidence
PROPERTIES NothingComesBack ContractIsKept
VIEW View
