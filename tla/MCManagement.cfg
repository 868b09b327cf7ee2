SPECIFICATION Spec
CONSTANTS
    Clients = {c1, c2}
    Files = {3, 4, 5}
    MaxCalls = 4
    MaxStarts = 2
    None = None
SYMMETRY Symmetric
INVARIANTS
    EventsAreValid
    AnswersMatch
PROPERTIES
    ImplementsCalls
CHECK_DEADLOCK FALSE
