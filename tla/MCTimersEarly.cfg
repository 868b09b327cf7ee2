SPECIFICATION Spec
CONSTANTS
    Timers = {t1, t2}
    Clients = {}
    Instants <- MCInstants
    Delays <- MCDelays
    MaxBack = 0
    NoTimer = NoTimer
PROPERTIES
    NotEarly
CHECK_DEADLOCK FALSE
