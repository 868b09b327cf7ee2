SPECIFICATION MCSpec
CONSTANTS
    Parts = {"processes", "commands", "lifecycle", "unkind", "interfaces", "impolite"}
    Procs = {p1, p2, p3}
    Pids = {n1, n2, n3, n4}
    Failed = Failed
    NoPid = NoPid
    Names <- MCCommands
    Asked <- MCAsked
    Help <- MCHelp
    Informed = TRUE
    LenMod = 65536
    NULL = NULL
    Fault = Fault
    Daemons <- MCDaemons
    Plugins <- MCPlugins
    Loadable <- MCLoadable
    Startable <- MCLoadable
    Alone = TRUE
    Kind = TRUE
    Lost = Lost
    IfNames <- MCIfNames
    Devices <- MCDevices
    Wireless <- MCWireless
    Mac <- MCMac
    Profiles <- MCProfiles
    NodeIds <- MCNodeIds
    Defaults <- MCDefaults
    Edits <- MCEdits
    Polite = TRUE
    MaxIfaces = 3
    MaxNets = 2
    Down = Down
    d1 = d1
    d2 = d2
    serval = serval
    demo = demo
    readme = readme
    wlan0 = wlan0
    eth0 = eth0
    ghost = ghost
    mesh = mesh
    static = static
INVARIANTS
    PartsTypeOK
    PidsAreOwn
    RunningIsReady
    ShutOnce
    UpIsListed
    GeneratedFits
    StatusTells
    ExecRunsNamed
    RepliesAreWhole
PROPERTIES
    ExitsAreNoticed
CHECK_DEADLOCK FALSE
