------------------------------ MODULE MCServal ------------------------------
(***************************************************************************)
(* The Serval plugin on small instances.                                   *)
(***************************************************************************)
EXTENDS Serval, TLC

CONSTANTS
    Parts,                          \* the parts a run looks at
    default, other, Another,          \* paths of keyrings
    s1, s2, s3, n1, n2, f1, f2, f3, \* identities, keyrings and files of theirs
    client1,                        \* a serval-client
    a1, a2, fd1, fd2, c1, c2        \* alarms, descriptors and sockets

-----------------------------------------------------------------------------
(* Keyrings: the plugin's, and another one in two files whose paths only   *)
(* differ in case.                                                         *)

MCPaths == {default, other, Another}
MCAlike(p, q) == p = q \/ {p, q} = {other, Another}
MCSids == {s1, s2, s3}
MCNodes == {n1, n2}
MCFiles == {f1, f2, f3}
MCClients == {client1}
MCShared == {default}

\* Other processes use the other keyring.
O == INSTANCE Keyrings WITH Shared <- {other}

MCSymmetry == Permutations(MCSids) \cup Permutations(MCNodes) \cup Permutations(MCFiles)

-----------------------------------------------------------------------------
(* Alarms that are due, due soon or more than a day ahead.                 *)

MCAlarms == {a1, a2}
MCFds == {fd1, fd2}
MCSocks == {c1, c2}
MCInstants == {5200000, 5900500}
MCTimes == {5900, 90000000}

ASSUME A!AlarmsAssumption

-----------------------------------------------------------------------------
MCInit ==
    /\ part \in Parts
    /\ Init /\ A!Init
    /\ part # "alarms" => clock = 5200000

MCNext ==
    \/ ServalNext
    \/ part = "others" /\ O!Next /\ UNCHANGED <<part, alarmVars>>

MCSpec == MCInit /\ [][MCNext]_servalVars

=============================================================================
