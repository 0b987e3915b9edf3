SPECIFICATION Spec
CONSTANTS
  Addr = {1, 2, 3}
  Sizes = {1}
  Values = {v, w}
  Undefined = Undefined
  Stores = {"skipped", "parallel"}
  Placement = "fresh"
  Faults = {"crash"}
  MaxRecords = 5
  MaxCheckpoints = 1
  MaxRestarts = 1
  MaxFaults = 1
SYMMETRY ValuesAreAlike
INVARIANTS
  ClientSeesItsMemory
CHECK_DEADLOCK FALSE
