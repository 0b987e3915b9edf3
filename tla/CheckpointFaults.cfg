SPECIFICATION FairSpec
CONSTANTS
  Addr = {1, 2}
  Sizes = {1, 2}
  Values = {v}
  Undefined = Undefined
  Stores = {"skipped", "replayed", "shared", "parallel"}
  Placement = "any"
  Faults = {"write", "crash", "open", "memory"}
  MaxRecords = 4
  MaxCheckpoints = 2
  MaxRestarts = 1
  MaxFaults = 1
INVARIANTS
  TypeOK
  FirstCheckpointCovers
PROPERTIES
  RestoreEnds
CHECK_DEADLOCK FALSE
