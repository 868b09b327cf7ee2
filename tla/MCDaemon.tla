------------------------------ MODULE MCDaemon ------------------------------
(***************************************************************************)
(* What the daemon does around its loop, on small instances.  Two more     *)
(* parts, "unkind" and "impolite", are about the life cycle and interfaces *)
(* with other values of their constants.                                   *)
(***************************************************************************)
EXTENDS Daemon, TLC

CONSTANTS
    Parts,                          \* the parts a run looks at
    d1, d2, serval, demo, readme,   \* daemons and files of the plugin directory
    wlan0, eth0, ghost,             \* interfaces: ghost is no device
    mesh, static                    \* names of profiles

-----------------------------------------------------------------------------
(* Commands.  Five names over three letters: two that begin alike, one     *)
(* that begins another, and names that branch low and high of the first    *)
(* one; requests also ask for parts of names, longer ones, and the empty   *)
(* one.                                                                    *)

MCHelp == <<2, 1>>
MCCommands == {MCHelp, <<2, 3>>, <<2, 3, 1>>, <<1, 2>>, <<3, 1>>}
MCAsked == MCCommands \cup {<<>>, <<2>>, <<2, 1, 1>>, <<1, 2, 3>>}

ASSUME CommandsAssumption

-----------------------------------------------------------------------------
(* Start and shutdown.  Once as meant: one copy at a time, plugins that    *)
(* all start, freed memory that has not changed yet.  Once without any of  *)
(* this.                                                                   *)

MCDaemons == {d1, d2}
MCPlugins == {serval, demo, readme}
MCLoadable == {serval, demo}

LU == INSTANCE Lifecycle WITH Startable <- {demo}, Alone <- FALSE, Kind <- FALSE

ASSUME L!LifecycleAssumption /\ LU!LifecycleAssumption

-----------------------------------------------------------------------------
(* Interfaces: a wireless device, a wired one and a name that is no        *)
(* device, with bytes at the edges of what the id arithmetic folds, and    *)
(* settings that edits lead through: of a mesh, of a gateway and with an   *)
(* address that is given.  Once with callers that bring up what is down,   *)
(* and profiles that are edited, once with any calls and two node ids.     *)

MCIfNames == {wlan0, eth0, ghost}
MCDevices == {wlan0, eth0}
MCWireless == {wlan0}
MCMac == wlan0 :> <<2, 0, 17, 0, 254, 255>> @@ eth0 :> <<2, 0, 1, 2, 3, 4>>

MCSettings(type, ipgen) ==
    [type |-> type, ipgen |-> ipgen, ip |-> <<100, 64, 0, 7>>, ipgenmask |-> <<255, 192, 0, 0>>]
MCProfiles == mesh :> MCSettings("mesh", TRUE) @@ static :> MCSettings("mesh", FALSE)
MCDefaults == [MCSettings("mesh", TRUE) EXCEPT !.ip = <<100, 64, 0, 0>>]
MCEdits == {MCSettings("plug", TRUE)}
MCNodeIds == {<<1, 254, 255, 253>>}

IU == INSTANCE Interfaces WITH
    Names <- IfNames, Edits <- {},
    NodeIds <- {<<1, 254, 255, 253>>, <<0, 0, 0, 0>>},
    Polite <- FALSE, MaxIfaces <- 2, MaxNets <- 2, reply <- answer

ASSUME I!InterfacesAssumption /\ IU!InterfacesAssumption

-----------------------------------------------------------------------------
MCInit ==
    /\ part \in Parts
    /\ Init /\ CommandsInit /\ L!Init
    /\ IF part = "impolite" THEN IU!Init ELSE I!Init

MCNext ==
    \/ DaemonNext
    \/ part = "unkind" /\ LU!Next /\ UNCHANGED <<part, vars, commandVars, interfaceVars>>
    \/ part = "impolite" /\ IU!Next /\ UNCHANGED <<part, vars, commandVars, lifecycleVars>>

\* The fairness of Processes, which is that of the loop.
RunsProcesses(A) ==
    part = "processes" /\ A /\ UNCHANGED <<part, commandVars, lifecycleVars, interfaceVars>>

MCSpec ==
    /\ MCInit /\ [][MCNext]_daemonVars
    /\ WF_daemonVars(RunsProcesses(PollClears)) /\ WF_daemonVars(RunsProcesses(PollWaits))

\* The type invariants of all parts.
PartsTypeOK ==
    /\ TypeOK /\ CommandsTypeOK /\ L!TypeOK
    /\ IF part = "impolite" THEN IU!TypeOK ELSE I!TypeOK

=============================================================================
