SPECIFICATION FairSpec
CONSTANTS
  Clients = {a, b}
  Threads = 2
  Sizes = {3}
  Capacity = 2
  Faults = {"socket", "connect", "cuda"}
  MaxEvents = 3
INVARIANTS
  TypeOK
  CopyArrives
  ThreadsHaveTheirMemory
  NothingIsLeftBehind
PROPERTIES
  CopyReturns
CHECK_DEADLOCK FALSE
