SPECIFICATION FairSpec
CONSTANTS
    Clients = {c1, c2}
    Files = {3, 4}
    MaxCalls = 3
    MaxStarts = 2
    None = None
INVARIANTS
    TypeOK
PROPERTIES
    CallsReturn
    LeftIsClosed
CHECK_DEADLOCK FALSE
