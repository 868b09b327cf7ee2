SPECIFICATION MCSpec
CONSTANTS
    Parts = {"keyrings", "others", "alarms"}
    default = default
    other = other
    Another = Another
    s1 = s1
    s2 = s2
    s3 = s3
    n1 = n1
    n2 = n2
    f1 = f1
    f2 = f2
    f3 = f3
    client1 = client1
    a1 = a1
    a2 = a2
    fd1 = fd1
    fd2 = fd2
    c1 = c1
    c2 = c2
    Paths <- MCPaths
    Default = default
    Alike <- MCAlike
    Sids <- MCSids
    Nodes <- MCNodes
    Files <- MCFiles
    Clients <- MCClients
    Shared <- MCShared
    MaxLeaked = 1
    Faults = TRUE
    Alarms <- MCAlarms
    Fds <- MCFds
    Socks <- MCSocks
    Instants <- MCInstants
    Times <- MCTimes
    MaxEvents = 2
    Never = Never
    Free = Free
    Other = Other
    NULL = NULL
SYMMETRY MCSymmetry
INVARIANTS
    PartsTypeOK
    RefsAreContexts
    GlobalIsLoaded
    ReturnedIsSaved
    WorksOnItsOwn
    TimersMatch
    ShutdownCloses
    WatchedIsPolled
PROPERTIES
    ClosesItsOwn
CHECK_DEADLOCK FALSE
