SPECIFICATION Spec
CONSTANTS
    Clients = {c1, c2}
    Slots = 3
    MaxSegments = 4
INVARIANTS
    TypeOK
    AllocationsAreApart
    CopiesOwnMemory
