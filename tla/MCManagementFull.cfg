SPECIFICATION Spec
CONSTANTS
    Clients = {c1, c2}
    Files = {3, 4}
    MaxCalls = 2
    MaxStarts = 1
    None = None
INVARIANTS
    KeepsListening
CHECK_DEADLOCK FALSE
