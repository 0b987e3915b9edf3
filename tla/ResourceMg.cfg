SPECIFICATION FairSpec
CONSTANTS
  Handles = {1, 2, 3, 4, 5}
  Targets = {2, 9}
  MaxEntries = 4
  MaxCreated = 1
INVARIANTS
  TypeOK
  WindowHoldsKey
PROPERTIES
  CallsReturn
  ImplementsHandleMap
