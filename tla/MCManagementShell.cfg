SPECIFICATION Spec
CONSTANTS
    Clients = {c1, c2}
    Files = {3, 4, 5}
    MaxCalls = 2
    MaxStarts = 1
    None = None
PROPERTIES
    NoResponseEndsShell
CHECK_DEADLOCK FALSE
