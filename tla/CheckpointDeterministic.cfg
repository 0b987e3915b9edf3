SPECIFICATION Spec
CONSTANTS
  Addr = {1, 2, 3}
  Sizes = {1}
  Values = {v, w}
  Undefined = Undefined
  Stores = {"skipped"}
  Placement = "lowest"
  Faults = {"crash"}
  MaxRecords = 6
  MaxCheckpoints = 2
  MaxRestarts = 2
  MaxFaults = 1
SYMMETRY ValuesAreAlike
INVARIANTS
  CheckpointCovers
  ActualAddressesPassThrough
PROPERTIES
  ImplementsClientMemory
CHECK_DEADLOCK FALSE
