SPECIFICATION FairSpec
CONSTANTS
    Timers = {t1, t2}
    Clients = {k}
    Instants <- MCInstantsFar
    Delays <- MCDelaysFar
    MaxBack = 1
    NoTimer = NoTimer
INVARIANTS
    PendingIsListed
PROPERTIES
    DueTimersFire
CHECK_DEADLOCK FALSE
