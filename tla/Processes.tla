----------------------------- MODULE Processes -----------------------------
(***************************************************************************)
(* Child processes: the co_process_t objects of src/process.c, the list of *)
(* them the event loop keeps, and how the loop learns of an exit           *)
(* (SIGCHLD's handler and _co_loop_poll_processes of src/loop.c).          *)
(*                                                                         *)
(* The kernel is external: process numbers, children that run until they   *)
(* exit or are killed and stay zombies until waitpid takes them, and a     *)
(* signal that sets one flag however many children it stands for.          *)
(***************************************************************************)
EXTENDS FiniteSets

CONSTANTS
    Procs,      \* addresses of co_process_t
    Pids,       \* process numbers
    Failed,     \* -1: what fork returned when it failed
    NoPid

ASSUME ProcessesAssumption == {Failed, NoPid} \cap Pids = {} /\ Failed # NoPid

VARIABLES
    live,           \* the allocated processes
    processes,      \* the loop's list
    pid,            \* co_process_t.pid
    child,          \* kernel: "none", "running" or "zombie"
    loop_sigchld,
    phase           \* of the loop: "callbacks", between the two steps of a poll,
                    \* or "undefined": freed memory was read, and the daemon ended

vars == <<live, processes, pid, child, loop_sigchld, phase>>

TypeOK ==
    /\ live \subseteq Procs /\ processes \subseteq live
    /\ pid \in [Procs -> Pids \cup {Failed, NoPid}]
    /\ child \in [Pids -> {"none", "running", "zombie"}]
    /\ loop_sigchld \in BOOLEAN
    /\ phase \in {"callbacks", "wait", "undefined"}

Zombies == {n \in Pids : child[n] = "zombie"}

-----------------------------------------------------------------------------
(* User code: callbacks of the loop.                                       *)

\* SIGCHLD only leaves a mark.
_co_loop_handle_signals == loop_sigchld' = TRUE

co_process_create(p, n) ==
    /\ live' = live \cup {p}
    /\ pid' = [pid EXCEPT ![p] = n]

co_loop_add_process(p) == processes' = processes \cup {p}

\* What fork returns, as a number that is stored: that of a new child, or -1,
\* which nobody looks at.
Forked == {n \in Pids : child[n] = "none"} \cup {Failed}
Born(n, before) == IF n = Failed THEN before ELSE [before EXCEPT ![n] = "running"]

\* Create, start and add, in one handler.  Without descriptors for the pipes
\* there is nothing to add.
co_process_start(p, n) ==
    /\ phase = "callbacks"
    /\ p \notin live /\ n \in Forked
    /\ co_process_create(p, n)
    /\ co_loop_add_process(p)
    /\ child' = Born(n, child)
    /\ UNCHANGED <<loop_sigchld, phase>>

\* kill(pid, SIGKILL): -1 stands for every process there is but the daemon,
\* and a number that is no child's for a stranger.  The children that are hit
\* are gone at once.
Hit(p) == IF pid[p] = Failed THEN Pids ELSE {pid[p]}
Killed(p) == [n \in Pids |-> IF n \in Hit(p) /\ child[n] = "running" THEN "zombie" ELSE child[n]]

\* The parent is signalled for a child that ends.
co_process_stop(p) ==
    /\ phase = "callbacks"
    /\ p \in processes
    /\ child' = Killed(p)
    /\ IF child' = child THEN UNCHANGED loop_sigchld ELSE _co_loop_handle_signals
    /\ UNCHANGED <<live, processes, pid, phase>>

\* stop, then start, whose result is not looked at: the object forgets the old
\* child before it is reaped, or, if the pipes or fork fail, keeps its number
\* or gets -1.
co_process_restart(p, n) ==
    /\ phase = "callbacks"
    /\ p \in processes
    /\ n \in Forked \cup {pid[p]}
    /\ child' = IF n = pid[p] THEN Killed(p) ELSE Born(n, Killed(p))
    /\ pid' = [pid EXCEPT ![p] = n]
    /\ IF Killed(p) = child THEN UNCHANGED loop_sigchld ELSE _co_loop_handle_signals
    /\ UNCHANGED <<live, processes, phase>>

-----------------------------------------------------------------------------
(* The kernel and the signal handler, at any point of the loop.            *)

ChildExits(n) ==
    /\ child[n] = "running"
    /\ child' = [child EXCEPT ![n] = "zombie"]
    /\ _co_loop_handle_signals
    /\ UNCHANGED <<live, processes, pid, phase>>

-----------------------------------------------------------------------------
(* _co_loop_poll_processes.                                                *)

PollClears ==
    /\ phase = "callbacks" /\ loop_sigchld
    /\ loop_sigchld' = FALSE
    /\ phase' = "wait"
    /\ UNCHANGED <<live, processes, pid, child>>

\* Mutant: the process stays in the list.
ReapedStays(n) == UNCHANGED <<processes, live, pid>> /\ phase' = "callbacks"

co_loop_remove_process(gone) == processes' = processes \ gone

co_process_destroy(gone) ==
    /\ live' = live \ gone
    /\ pid' = [p \in Procs |-> IF p \in gone THEN NoPid ELSE pid[p]]

\* _co_loop_poll_process_i: the process with that number leaves the list and
\* is destroyed; a child the list does not know is only reaped.  The walk then
\* reads where to go on from the node that has just been freed: there, to its
\* end, or to where the daemon ends.
Reaped(n) ==
    LET gone == {p \in processes : pid[p] = n}
    IN  /\ co_loop_remove_process(gone) /\ co_process_destroy(gone)
        /\ phase' = "callbacks" \/ (gone # {} /\ phase' = "undefined")

\* Mutant: waitpid is asked for the listed processes only.
PollWaitsListed ==
    /\ phase = "wait"
    /\ LET known == Zombies \cap {pid[p] : p \in processes}
       IN  IF known = {} THEN phase' = "callbacks" /\ UNCHANGED <<live, processes, pid, child>>
           ELSE \E n \in known : child' = [child EXCEPT ![n] = "none"] /\ Reaped(n)
    /\ UNCHANGED loop_sigchld

\* One waitpid, for any child.
PollWaits ==
    /\ phase = "wait"
    /\ IF Zombies = {} THEN phase' = "callbacks" /\ UNCHANGED <<live, processes, pid, child>>
       ELSE \E n \in Zombies : child' = [child EXCEPT ![n] = "none"] /\ Reaped(n)
    /\ UNCHANGED loop_sigchld

Init ==
    /\ live = {} /\ processes = {}
    /\ pid = [p \in Procs |-> NoPid]
    /\ child = [n \in Pids |-> "none"]
    /\ loop_sigchld = FALSE
    /\ phase = "callbacks"

Next ==
    \/ \E p \in Procs, n \in Pids \cup {Failed} : co_process_start(p, n) \/ co_process_restart(p, n)
    \/ \E p \in Procs : co_process_stop(p)
    \/ \E n \in Pids : ChildExits(n)
    \/ PollClears
    \/ PollWaits

\* The loop comes back to the poll after every batch of callbacks.
Fairness == WF_vars(PollClears) /\ WF_vars(PollWaits)

Spec == Init /\ [][Next]_vars /\ Fairness

-----------------------------------------------------------------------------
(* Properties.                                                             *)

\* The number in a listed process is -1, if its fork failed, or that of a child
\* of the daemon that has not been reaped, and of no other process: stop and
\* restart can never kill a stranger that was given the number again.  (With
\* -1 they kill every process there is, the daemon's children among them.)
PidsAreOwn ==
    /\ \A p \in processes : pid[p] = Failed \/ (pid[p] # NoPid /\ child[pid[p]] # "none")
    /\ \A p, q \in processes : pid[p] = pid[q] /\ pid[p] # Failed => p = q
    /\ live = processes

\* A child that has exited is reaped even when its process was restarted and
\* knows it no longer, unless another one exits before the loop has polled, or
\* the daemon ends: that two which wait together are both reaped does not
\* hold, as one waitpid is made for both signals.
ExitsAreNoticed ==
    \A n \in Pids :
        Zombies = {n} /\ (loop_sigchld \/ phase = "wait")
            ~> Zombies # {n} \/ phase = "undefined"

=============================================================================
