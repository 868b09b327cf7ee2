------------------------------- MODULE Daemon -------------------------------
(***************************************************************************)
(* What the daemon does around its loop: child processes, the table of     *)
(* commands, start and shutdown with plugins, and interfaces.  They share  *)
(* no state, so a behaviour picks one of them, `part`, and leaves the      *)
(* variables of the others as they are: the reachable states are the union *)
(* of theirs, and no interleaving is lost.                                 *)
(***************************************************************************)
EXTENDS Processes, Commands

\* The constants and variables of Lifecycle, and those of Interfaces, whose
\* Names and reply have other names here, for Commands has its own.
CONSTANTS
    Daemons, Plugins, Loadable, Startable, Alone, Kind, Lost,
    IfNames, Devices, Wireless, Mac, Profiles, Defaults, Edits, NodeIds, Polite, MaxIfaces, MaxNets, Down
VARIABLES
    stage, files, _plugins, inits, shut, next, socket, pidfile,
    ifaces, nodeid, profiles, address, applied, networks, answer

\* The part a behaviour is about.
VARIABLE part

L == INSTANCE Lifecycle
I == INSTANCE Interfaces WITH Names <- IfNames, reply <- answer

lifecycleVars == <<stage, files, _plugins, inits, shut, next, socket, pidfile>>
interfaceVars == <<ifaces, nodeid, profiles, address, applied, networks, answer>>
daemonVars == <<part, vars, commandVars, lifecycleVars, interfaceVars>>

DaemonInit ==
    /\ part \in {"processes", "commands", "lifecycle", "interfaces"}
    /\ Init /\ CommandsInit /\ L!Init /\ I!Init

DaemonNext ==
    /\ UNCHANGED part
    /\ \/ part = "processes" /\ Next /\ UNCHANGED <<commandVars, lifecycleVars, interfaceVars>>
       \/ part = "commands" /\ CommandsNext /\ UNCHANGED <<vars, lifecycleVars, interfaceVars>>
       \/ part = "lifecycle" /\ L!Next /\ UNCHANGED <<vars, commandVars, interfaceVars>>
       \/ part = "interfaces" /\ I!Next /\ UNCHANGED <<vars, commandVars, lifecycleVars>>

DaemonSpec == DaemonInit /\ [][DaemonNext]_daemonVars

-----------------------------------------------------------------------------
(* Properties of the parts, as their modules state them.                   *)

\* A daemon that serves is reachable and has started its plugins, if copies run
\* one at a time and no plugin refuses.
RunningIsReady == part = "lifecycle" => L!RunningIsReady

\* No plugin is shut down twice, and none left out if the walk over the list
\* finds what it expects.
ShutOnce == L!ShutOnce

\* A device that is up has an entry with its profile.
UpIsListed == I!UpIsListed

\* A generated address lies in its subnet and avoids the bytes above 253.
GeneratedFits == I!GeneratedFits

\* For callers that bring up what is down, a device that is up is reported under
\* the profile its address is of.
StatusTells == part = "interfaces" /\ Polite => I!StatusTells

=============================================================================
