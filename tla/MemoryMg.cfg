SPECIFICATION Spec
CONSTANTS
  Addresses <- MCAddresses
  Blocks <- MCBlocks
  Targets <- MCTargets
  MaxEntries = 4
  MaxCreated = 1
INVARIANTS
  TypeOK
PROPERTIES
  ImplementsBlockMap
