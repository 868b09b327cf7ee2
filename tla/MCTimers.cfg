SPECIFICATION Spec
CONSTANTS
    Timers = {t1, t2, t3}
    Clients = {k}
    Instants <- MCInstants
    Delays <- MCDelays
    MaxBack = 0
    NoTimer = NoTimer
SYMMETRY Symmetric
INVARIANTS
    TypeOK
    Chronological
PROPERTIES
    NoneOverdueLeft
    ImplementsService
CHECK_DEADLOCK FALSE
