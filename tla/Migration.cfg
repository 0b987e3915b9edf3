SPECIFICATION Spec
CONSTANTS
  Clients = {a, b}
  App = a
  MaxCalls = 2
INVARIANTS
  TypeOK
  ClientFindsItsMemory
PROPERTIES
  ImplementsClientMemory
  RestoredClientIsServed
CHECK_DEADLOCK FALSE
