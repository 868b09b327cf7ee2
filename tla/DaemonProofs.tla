---------------------------- MODULE DaemonProofs ----------------------------
(***************************************************************************)
(* Proofs about what the daemon does around its loop: child processes      *)
(* (Processes), start and shutdown with plugins (Lifecycle) and interfaces *)
(* (Interfaces), each for any value of its constants, and from them the    *)
(* properties of Daemon, which puts them together.                         *)
(***************************************************************************)
EXTENDS Daemon, ListLemmas

-----------------------------------------------------------------------------
(* Processes.                                                              *)

\* The two invariants are inductive together: the types of pid and child make
\* the number of a listed process one the kernel has a state for.
Inv == TypeOK /\ PidsAreOwn

USE ProcessesAssumption

LEMMA InitInv == Init => Inv
BY DEF Init, Inv, TypeOK, PidsAreOwn

\* Killing keeps every number a child's that was one.
LEMMA KilledKeeps ==
    ASSUME NEW p \in Procs, Inv
    PROVE  /\ Killed(p) \in [Pids -> {"none", "running", "zombie"}]
           /\ \A n \in Pids : Killed(p)[n] # "none" <=> child[n] # "none"
BY DEF Inv, TypeOK, Killed

\* A new process gets the number of no child, and so of no listed process, or
\* none at all.
LEMMA StartInv ==
    ASSUME NEW p \in Procs, NEW n \in Pids \cup {Failed}, Inv, co_process_start(p, n)
    PROVE  Inv'
<1> USE DEF Inv, co_process_start, co_process_create, co_loop_add_process, Forked, Born
<1>1. TypeOK'
  BY DEF TypeOK
<1>2. PidsAreOwn'
  BY DEF TypeOK, PidsAreOwn
<1> QED BY <1>1, <1>2

LEMMA StopInv ==
    ASSUME NEW p \in Procs, Inv, co_process_stop(p)
    PROVE  Inv'
<1> USE DEF Inv, co_process_stop, _co_loop_handle_signals
<1>1. /\ child' \in [Pids -> {"none", "running", "zombie"}]
      /\ \A n \in Pids : child'[n] # "none" <=> child[n] # "none"
  BY KilledKeeps
<1>2. TypeOK'
  BY <1>1 DEF TypeOK
<1>3. PidsAreOwn'
  BY <1>1 DEF TypeOK, PidsAreOwn
<1> QED BY <1>2, <1>3

\* The old child is forgotten unless the start fails; the new number is of no
\* listed process.
LEMMA RestartInv ==
    ASSUME NEW p \in Procs, NEW n \in Pids \cup {Failed}, Inv, co_process_restart(p, n)
    PROVE  Inv'
<1> USE DEF Inv, co_process_restart, _co_loop_handle_signals
<1>1. /\ child' \in [Pids -> {"none", "running", "zombie"}]
      /\ \A m \in Pids : child[m] # "none" => child'[m] # "none"
      /\ n \in Pids /\ n # pid[p] => child[n] = "none" /\ child'[n] = "running"
  BY KilledKeeps DEF Forked, Born, TypeOK
<1>2. p \in processes /\ processes' = processes /\ live' = live
      /\ pid' = [pid EXCEPT ![p] = n] /\ phase' = phase
  OBVIOUS
<1>3. TypeOK'
  BY <1>1, <1>2 DEF TypeOK
<1>4. \A q \in processes' : pid'[q] = Failed \/ (pid'[q] # NoPid /\ child'[pid'[q]] # "none")
  <2>1. TAKE q \in processes'
  <2>2. q \in Procs /\ q \in processes
    BY <1>2 DEF TypeOK
  <2>3. CASE q = p
    BY <1>1, <1>2, <2>2, <2>3 DEF TypeOK, PidsAreOwn
  <2>4. CASE q # p
    BY <1>1, <1>2, <2>2, <2>4 DEF TypeOK, PidsAreOwn
  <2> QED BY <2>3, <2>4
<1>5. \A q, r \in processes' : pid'[q] = pid'[r] /\ pid'[q] # Failed => q = r
  BY <1>1, <1>2 DEF TypeOK, PidsAreOwn
<1> QED BY <1>2, <1>3, <1>4, <1>5 DEF PidsAreOwn

LEMMA ExitInv ==
    ASSUME NEW n \in Pids, Inv, ChildExits(n)
    PROVE  Inv'
<1> USE DEF Inv, ChildExits, _co_loop_handle_signals
<1>1. TypeOK'
  BY DEF TypeOK
<1>2. PidsAreOwn'
  BY DEF TypeOK, PidsAreOwn
<1> QED BY <1>1, <1>2

\* The number that is free again is that of no listed process: its process
\* has left the list in the same step.
LEMMA WaitInv ==
    ASSUME Inv, PollWaits
    PROVE  Inv'
<1>1. CASE Zombies = {}
  BY <1>1 DEF Inv, PollWaits, TypeOK, PidsAreOwn
<1>2. CASE Zombies # {}
  <2>1. PICK n \in Zombies : child' = [child EXCEPT ![n] = "none"] /\ Reaped(n)
    BY <1>2 DEF PollWaits
  <2>2. n \in Pids
    BY <2>1 DEF Zombies
  <2> DEFINE gone == {p \in processes : pid[p] = n}
  <2>3. /\ processes' = processes \ gone
        /\ live' = live \ gone
        /\ pid' = [p \in Procs |-> IF p \in gone THEN NoPid ELSE pid[p]]
    BY <2>1 DEF Reaped, co_loop_remove_process, co_process_destroy
  <2>4. TypeOK'
    BY <2>1, <2>2, <2>3 DEF Inv, PollWaits, Reaped, TypeOK
  <2>5. \A q \in processes' : q \in processes /\ q \in Procs /\ pid'[q] = pid[q] /\ pid[q] # n
    BY <2>3 DEF Inv, TypeOK
  <2>6. \A q \in processes' : pid'[q] = Failed \/ (pid'[q] # NoPid /\ child'[pid'[q]] # "none")
    BY <2>1, <2>2, <2>5 DEF Inv, TypeOK, PidsAreOwn
  <2>7. \A q, r \in processes' : pid'[q] = pid'[r] /\ pid'[q] # Failed => q = r
    BY <2>5 DEF Inv, PidsAreOwn
  <2>8. live' = processes'
    BY <2>3 DEF Inv, PidsAreOwn
  <2> QED BY <2>4, <2>6, <2>7, <2>8 DEF Inv, PidsAreOwn
<1> QED BY <1>1, <1>2

LEMMA StepInv == Inv /\ [Next]_vars => Inv'
<1> SUFFICES ASSUME Inv, [Next]_vars PROVE Inv'
  OBVIOUS
<1>1. CASE \E p \in Procs, n \in Pids \cup {Failed} :
               co_process_start(p, n) \/ co_process_restart(p, n)
  BY <1>1, StartInv, RestartInv
<1>2. CASE \E p \in Procs : co_process_stop(p)
  BY <1>2, StopInv
<1>3. CASE \E n \in Pids : ChildExits(n)
  BY <1>3, ExitInv
<1>4. CASE PollClears
  BY <1>4 DEF Inv, PollClears, TypeOK, PidsAreOwn
<1>5. CASE PollWaits
  BY <1>5, WaitInv
<1>6. CASE UNCHANGED vars
  BY <1>6 DEF vars, Inv, TypeOK, PidsAreOwn
<1> QED BY <1>1, <1>2, <1>3, <1>4, <1>5, <1>6 DEF Next

\* Every state of the processes, their children and the signal flag is well
\* typed, and the loop's list holds no freed process.
THEOREM ProcessesType == Spec => []TypeOK
<1>1. Inv => TypeOK
  BY DEF Inv
<1> QED BY <1>1, InitInv, StepInv, PTL DEF Spec

\* The number of a listed process is that of an unreaped child of its own, or
\* -1 if its fork failed: co_process_stop and co_process_restart signal no
\* stranger by a number that was given away again, however many children exit,
\* are stopped and restarted between two polls and whatever forks fail.
THEOREM OwnPids == Spec => []PidsAreOwn
<1>1. Inv => PidsAreOwn
  BY DEF Inv
<1> QED BY <1>1, InitInv, StepInv, PTL DEF Spec

-----------------------------------------------------------------------------
(* The life of the daemon.  What is known of one copy depends on its own   *)
(* variables only (Proper), so that a step of one copy cannot disturb it   *)
(* for another.                                                            *)

\* The operators of the library, as Lifecycle and as the lemmas name them.
LEMMA LifeLibrary ==
    /\ \A s : L!ToSet(s) = ToSet(s) /\ L!IsInjective(s) = IsInjective(s)
    /\ \A s, e : L!RemoveFirst(s, e) = RemoveFirst(s, e)
<1>1. \A s : L!ToSet(s) = ToSet(s) /\ L!IsInjective(s) = IsInjective(s)
  BY DEF L!ToSet, ToSet, L!IsInjective, IsInjective
<1>2. \A s, e : L!RemoveFirst(s, e) = RemoveFirst(s, e)
  BY DEF L!RemoveFirst, RemoveFirst, L!SelectInSeq, SelectInSeq, L!RemoveAt, RemoveAt, L!Min, Min
<1> QED BY <1>1, <1>2

\* Of a copy that has come to the stage st, with the files fl left to load, the
\* plugins pl in its list, sh shut down, and its shutdown at nx.
Proper(st, fl, pl, sh, nx) ==
    /\ IsInjective(pl) /\ IsInjective(sh) /\ ToSet(sh) \cap ToSet(pl) = {}
    /\ st \notin {"closing", "exited", "undefined"} => sh = <<>>
    /\ st = "loading" => ToSet(pl) = Loadable \ fl
    /\ st \in {"bound", "running", "stopped"} => ToSet(pl) = Loadable
    /\ st \in {"closing", "exited"} => ToSet(pl) \cup ToSet(sh) = Loadable
    /\ st = "closing" /\ nx # Lost => nx = IF pl = <<>> THEN NULL ELSE pl[1]
    /\ st = "exited" /\ nx # Lost => pl = <<>>

ProperAt(d) == Proper(stage[d], files[d], _plugins[d], shut[d], next[d])

LifeInv == L!TypeOK /\ \A d \in Daemons : ProperAt(d)

LEMMA EmptyList == IsInjective(<<>>) /\ ToSet(<<>>) = {}
BY DEF IsInjective, ToSet

LEMMA LifeInit == L!Init => LifeInv
<1> SUFFICES ASSUME L!Init PROVE LifeInv
  OBVIOUS
<1>1. L!TypeOK
  BY DEF L!Init, L!TypeOK, L!Stages
<1>2. \A d \in Daemons : ProperAt(d)
  BY EmptyList DEF L!Init, ProperAt, Proper
<1> QED BY <1>1, <1>2 DEF LifeInv

\* A copy's variables after a step of another one.
LEMMA OthersKept ==
    ASSUME L!TypeOK, NEW d \in Daemons, L!Step(d), NEW e \in Daemons \ {d}, ProperAt(e)
    PROVE  ProperAt(e)'
<1>1. /\ stage'[e] = stage[e] /\ files'[e] = files[e] /\ _plugins'[e] = _plugins[e]
      /\ shut'[e] = shut[e] /\ next'[e] = next[e]
  BY DEF L!TypeOK, L!Step, L!To, L!daemon_start, L!co_plugins_init, L!LoadPlugin,
         L!unix_socket_bind, L!co_plugins_start, L!Terminate, L!Killed, L!co_loop_destroy,
         L!_co_plugins_shutdown_i, L!co_plugins_shutdown
<1> QED BY <1>1 DEF ProperAt

-----------------------------------------------------------------------------
(* Steps up to the loop, and the end by a kill.                            *)

LEMMA DaemonStartInv ==
    ASSUME LifeInv, NEW d \in Daemons, NEW b \in BOOLEAN, L!daemon_start(d, b)
    PROVE  L!TypeOK' /\ ProperAt(d)'
<1>1. L!TypeOK'
  BY DEF LifeInv, L!TypeOK, L!daemon_start, L!To, L!Stages
<1>2. /\ stage'[d] = "forked" /\ shut'[d] = <<>> /\ _plugins'[d] = _plugins[d]
  BY DEF LifeInv, L!TypeOK, L!daemon_start, L!To
<1>3. IsInjective(_plugins[d])
  BY DEF LifeInv, ProperAt, Proper
<1> QED BY <1>1, <1>2, <1>3, EmptyList DEF ProperAt, Proper

LEMMA PluginsInitInv ==
    ASSUME LifeInv, L!LifecycleAssumption, NEW d \in Daemons, L!co_plugins_init(d) \/ L!Killed(d)
    PROVE  L!TypeOK' /\ ProperAt(d)'
<1>1. L!TypeOK'
  <2>1. L!TypeOK /\ <<>> \in Seq(Loadable)
    BY DEF LifeInv
  <2>2. CASE L!co_plugins_init(d)
    BY <2>1, <2>2 DEF L!TypeOK, L!co_plugins_init, L!To, L!Stages
  <2>3. CASE L!Killed(d)
    BY <2>1, <2>3 DEF L!TypeOK, L!Killed, L!To, L!Stages
  <2> QED BY <2>2, <2>3
<1>2. /\ _plugins'[d] = <<>> /\ shut'[d] = <<>>
      /\ stage'[d] = "off" \/ (stage'[d] = "loading" /\ files'[d] = Plugins)
  <2>1. stage[d] = "forked" => shut[d] = <<>>
    BY DEF LifeInv, ProperAt, Proper
  <2> QED BY <2>1 DEF LifeInv, L!TypeOK, L!co_plugins_init, L!Killed, L!To
<1> QED BY <1>1, <1>2, EmptyList DEF ProperAt, Proper, L!LifecycleAssumption

LEMMA LoadInv ==
    ASSUME LifeInv, NEW d \in Daemons, NEW p \in Plugins, L!LoadPlugin(d, p)
    PROVE  L!TypeOK' /\ ProperAt(d)'
<1>1. /\ L!TypeOK /\ stage[d] = "loading" /\ p \in files[d]
      /\ _plugins[d] \in Seq(Loadable) /\ IsInjective(_plugins[d])
      /\ ToSet(_plugins[d]) = Loadable \ files[d] /\ shut[d] = <<>>
  BY DEF LifeInv, L!TypeOK, ProperAt, Proper, L!LoadPlugin
<1>2. /\ files'[d] = files[d] \ {p} /\ shut'[d] = <<>>
      /\ stage'[d] \in {"loading", "undefined"}
      /\ stage' \in [Daemons -> L!Stages] /\ files' \in [Daemons -> SUBSET Plugins]
      /\ UNCHANGED <<inits, shut, next, socket, pidfile>>
  BY <1>1 DEF L!TypeOK, L!LoadPlugin, L!To, L!Stages
<1>3. CASE p \in Loadable
  <2>1. /\ Append(_plugins[d], p) \in Seq(Loadable) /\ IsInjective(Append(_plugins[d], p))
        /\ ToSet(Append(_plugins[d], p)) = ToSet(_plugins[d]) \cup {p}
    BY <1>1, <1>3, AppendFacts
  <2>2. _plugins'[d] = Append(_plugins[d], p) /\ _plugins' \in [Daemons -> Seq(Loadable)]
    BY <1>1, <1>3, <2>1 DEF L!TypeOK, L!LoadPlugin
  <2>3. ToSet(_plugins'[d]) = Loadable \ files'[d]
    BY <1>1, <1>2, <1>3, <2>1, <2>2
  <2> QED BY <1>1, <1>2, <2>1, <2>2, <2>3, EmptyList DEF L!TypeOK, ProperAt, Proper
<1>4. CASE p \notin Loadable
  <2>1. UNCHANGED _plugins /\ ToSet(_plugins[d]) = Loadable \ files'[d]
    BY <1>1, <1>2, <1>4 DEF L!LoadPlugin
  <2> QED BY <1>1, <1>2, <2>1, EmptyList DEF L!TypeOK, ProperAt, Proper
<1> QED BY <1>3, <1>4

LEMMA RunInv ==
    ASSUME LifeInv, NEW d \in Daemons,
           L!unix_socket_bind(d) \/ L!co_plugins_start(d) \/ L!Terminate(d)
    PROVE  L!TypeOK' /\ ProperAt(d)'
<1>1. /\ stage' \in [Daemons -> L!Stages] /\ stage'[d] \in {"bound", "running", "stopped"}
      /\ UNCHANGED <<files, _plugins, shut, next, pidfile>> /\ socket' \in Daemons \cup {NULL}
  BY DEF LifeInv, L!TypeOK, L!unix_socket_bind, L!co_plugins_start, L!Terminate, L!To, L!Stages
<1>2. inits' \in [Daemons -> SUBSET Loadable]
  <2>1. _plugins[d] \in Seq(Loadable)
    BY DEF LifeInv, L!TypeOK
  <2>2. L!StartsOf(_plugins[d]) \subseteq Loadable
    BY <2>1 DEF L!StartsOf
  <2> QED BY <2>2 DEF LifeInv, L!TypeOK, L!unix_socket_bind, L!co_plugins_start, L!Terminate
<1>3. IsInjective(_plugins[d]) /\ shut[d] = <<>> /\ ToSet(_plugins[d]) = Loadable
  <2>1. \/ stage[d] = "loading" /\ files[d] = {}
        \/ stage[d] \in {"bound", "running"}
    BY DEF L!unix_socket_bind, L!co_plugins_start, L!Terminate
  <2>2. Loadable \ {} = Loadable
    OBVIOUS
  <2>3. ProperAt(d)
    BY DEF LifeInv
  <2> QED BY <2>1, <2>2, <2>3 DEF ProperAt, Proper
<1>4. L!TypeOK'
  BY <1>1, <1>2 DEF LifeInv, L!TypeOK
<1> QED BY <1>1, <1>3, <1>4, EmptyList DEF ProperAt, Proper

-----------------------------------------------------------------------------
(* Shutdown.                                                               *)

LEMMA DestroyInv ==
    ASSUME LifeInv, NEW d \in Daemons, L!co_loop_destroy(d)
    PROVE  L!TypeOK' /\ ProperAt(d)'
<1>1. _plugins[d] \in Seq(Loadable) /\ ToSet(_plugins[d]) = Loadable /\ shut[d] = <<>>
  <2>1. stage[d] = "stopped" /\ _plugins[d] \in Seq(Loadable)
    BY DEF LifeInv, L!TypeOK, L!co_loop_destroy
  <2>2. ProperAt(d)
    BY DEF LifeInv
  <2> QED BY <2>1, <2>2 DEF ProperAt, Proper
<1>2. /\ stage' \in [Daemons -> L!Stages] /\ stage'[d] = "closing"
      /\ UNCHANGED <<files, _plugins, inits, shut, socket, pidfile>>
  BY DEF LifeInv, L!TypeOK, L!co_loop_destroy, L!To, L!Stages
<1>3. next'[d] = IF _plugins[d] = <<>> THEN NULL ELSE _plugins[d][1]
  BY <1>1 DEF LifeInv, L!TypeOK, L!co_loop_destroy
<1>4. _plugins[d] # <<>> => _plugins[d][1] \in ToSet(_plugins[d])
  BY <1>1, ToSetMeans
<1>5. L!TypeOK'
  <2>1. next' \in [Daemons -> Loadable \cup {NULL, Lost}]
    BY <1>1, <1>3, <1>4 DEF LifeInv, L!TypeOK, L!co_loop_destroy
  <2> QED BY <1>2, <2>1 DEF LifeInv, L!TypeOK
<1>6. IsInjective(_plugins[d])
  BY DEF LifeInv, ProperAt, Proper
<1> QED BY <1>1, <1>2, <1>3, <1>4, <1>5, <1>6, EmptyList DEF ProperAt, Proper

\* Where the walk goes after the plugin at position k.
LEMMA AfterFacts ==
    ASSUME NEW d \in Daemons, _plugins[d] \in Seq(Loadable), IsInjective(_plugins[d]),
           NEW k \in 1..Len(_plugins[d])
    PROVE  L!After(d, _plugins[d][k]) = IF k < Len(_plugins[d]) THEN _plugins[d][k + 1] ELSE NULL
<1>1. {i \in 1..Len(_plugins[d]) : _plugins[d][i] = _plugins[d][k]} = {k}
  BY DEF IsInjective
<1>2. L!SelectInSeq(_plugins[d], LAMBDA q : q = _plugins[d][k]) = k
  BY <1>1 DEF L!SelectInSeq, L!Min
<1> QED BY <1>2 DEF L!After

\* The plugin moves from the list to those that are shut down.  The walk goes
\* on at a plugin that is still in the list, the new first one if the memory
\* has not changed, or it ends.
LEMMA ShutdownInv ==
    ASSUME L!LifecycleAssumption, LifeInv, NEW d \in Daemons, L!_co_plugins_shutdown_i(d)
    PROVE  L!TypeOK' /\ ProperAt(d)'
<1> DEFINE pl == _plugins[d]
           p == next[d]
           rest == RemoveFirst(pl, p)
<1>1. /\ L!TypeOK /\ stage[d] = "closing" /\ p # NULL
      /\ pl \in Seq(Loadable) /\ IsInjective(pl) /\ p \in ToSet(pl)
      /\ shut[d] \in Seq(Loadable) /\ IsInjective(shut[d]) /\ ToSet(shut[d]) \cap ToSet(pl) = {}
      /\ ToSet(pl) \cup ToSet(shut[d]) = Loadable
      /\ p = pl[1]
  <2>1. /\ L!TypeOK /\ stage[d] = "closing" /\ p \notin {NULL, Lost} /\ pl \in Seq(Loadable)
        /\ shut[d] \in Seq(Loadable) /\ ProperAt(d)
    BY DEF LifeInv, L!TypeOK, L!_co_plugins_shutdown_i
  <2>2. p = pl[1] /\ pl # <<>>
    BY <2>1 DEF ProperAt, Proper
  <2>3. p \in ToSet(pl)
    BY <2>1, <2>2, ToSetMeans
  <2> QED BY <2>1, <2>2, <2>3 DEF ProperAt, Proper
<1>2. PICK k \in 1..Len(pl) : pl[k] = p
  BY <1>1, ToSetMeans
<1>3. rest \in Seq(Loadable) /\ IsInjective(rest) /\ ToSet(rest) = ToSet(pl) \ {p}
  BY <1>1, RemoveFirstFacts
<1>4. /\ Append(shut[d], p) \in Seq(Loadable) /\ IsInjective(Append(shut[d], p))
      /\ ToSet(Append(shut[d], p)) = ToSet(shut[d]) \cup {p}
  BY <1>1, AppendFacts
<1>5. L!After(d, p) = IF k < Len(pl) THEN pl[k + 1] ELSE NULL
  BY <1>1, <1>2, AfterFacts
<1>6. L!After(d, p) = NULL \/ L!After(d, p) \in ToSet(rest)
  BY <1>1, <1>2, <1>3, <1>5, ToSetMeans DEF IsInjective
<1>7. L!After(d, p) = IF rest = <<>> THEN NULL ELSE rest[1]
  <2>1. k = 1
    BY <1>1, <1>2 DEF IsInjective
  <2>2. rest = RemoveAt(pl, 1)
    <3>1. {i \in 1..Len(pl) : pl[i] = p} = {1}
      BY <1>1, <1>2, <2>1 DEF IsInjective
    <3>2. SelectInSeq(pl, LAMBDA v : v = p) = 1
      BY <3>1 DEF SelectInSeq, Min
    <3> QED BY <1>2, <3>2 DEF RemoveFirst
  <2>3. /\ Len(rest) = Len(pl) - 1
        /\ \A j \in 1..Len(pl) - 1 : rest[j] = IF j < 1 THEN pl[j] ELSE pl[j + 1]
    <3>1. 1 \in 1..Len(pl)
      BY <1>2, <2>1
    <3>2. /\ Len(RemoveAt(pl, 1)) = Len(pl) - 1
          /\ \A j \in 1..Len(pl) - 1 : RemoveAt(pl, 1)[j] = IF j < 1 THEN pl[j] ELSE pl[j + 1]
      BY <1>1, <3>1, RemoveAtFacts
    <3> QED BY <2>2, <3>2
  <2> HIDE DEF rest, pl
  <2>4. Len(pl) = 1 \/ Len(pl) > 1
    <3>1. pl \in Seq(Loadable)
      BY <1>1
    <3>2. Len(pl) \in Nat
      BY <3>1
    <3>3. \A l \in Nat : 1 \in 1..l => l = 1 \/ l > 1
      OBVIOUS
    <3> QED BY <2>1, <3>2, <3>3, Zenon
  <2>5. CASE Len(pl) = 1
    BY <1>3, <1>5, <2>1, <2>3, <2>5
  <2>6. CASE Len(pl) > 1
    BY <1>1, <1>3, <1>5, <2>1, <2>3, <2>6
  <2> QED BY <2>4, <2>5, <2>6
<1>8. /\ _plugins' = [_plugins EXCEPT ![d] = rest] /\ shut' = [shut EXCEPT ![d] = Append(@, p)]
      /\ UNCHANGED <<files, inits, socket, pidfile>>
      /\ stage'[d] \in {"closing", "undefined"} /\ stage' \in [Daemons -> L!Stages]
  BY <1>1, LifeLibrary DEF L!_co_plugins_shutdown_i, L!TypeOK, L!To, L!Stages
<1>9. next' \in {[next EXCEPT ![d] = L!After(d, p)], [next EXCEPT ![d] = Lost]}
  BY DEF L!_co_plugins_shutdown_i
<1> HIDE DEF pl, p, rest
<1>10. _plugins'[d] = rest /\ shut'[d] = Append(shut[d], p)
  BY <1>1, <1>8 DEF L!TypeOK, p
<1>11. next'[d] \in {L!After(d, p), Lost}
  BY <1>1, <1>9 DEF L!TypeOK
<1>12. L!TypeOK'
  <2>1. /\ _plugins' \in [Daemons -> Seq(Loadable)] /\ shut' \in [Daemons -> Seq(Loadable)]
    BY <1>1, <1>3, <1>4, <1>6, <1>8 DEF L!TypeOK
  <2>2. next' \in [Daemons -> Loadable \cup {NULL, Lost}]
    BY <1>1, <1>3, <1>4, <1>6, <1>9 DEF L!TypeOK
  <2> QED BY <1>1, <1>8, <2>1, <2>2 DEF L!TypeOK
<1>13. ToSet(shut'[d]) \cap ToSet(rest) = {} /\ ToSet(rest) \cup ToSet(shut'[d]) = Loadable
  BY <1>1, <1>3, <1>4, <1>10
<1> QED BY <1>3, <1>4, <1>6, <1>7, <1>8, <1>10, <1>11, <1>12, <1>13 DEF ProperAt, Proper

LEMMA DaemonExitInv ==
    ASSUME L!LifecycleAssumption, LifeInv, NEW d \in Daemons, L!co_plugins_shutdown(d)
    PROVE  L!TypeOK' /\ ProperAt(d)'
<1>1. L!TypeOK'
  BY DEF LifeInv, L!TypeOK, L!co_plugins_shutdown, L!To, L!Stages
<1>2. stage'[d] = "exited" /\ UNCHANGED <<files, _plugins, shut, next>>
  BY DEF LifeInv, L!TypeOK, L!co_plugins_shutdown, L!To
<1>3. /\ ProperAt(d) /\ stage[d] = "closing" /\ next[d] \in {NULL, Lost}
      /\ _plugins[d] \in Seq(Loadable)
  BY DEF LifeInv, L!TypeOK, L!co_plugins_shutdown
<1>4. next[d] # Lost => _plugins[d] = <<>>
  BY <1>3, ToSetMeans DEF ProperAt, Proper, L!LifecycleAssumption
<1> QED BY <1>1, <1>2, <1>3, <1>4 DEF ProperAt, Proper

LEMMA LifeStep ==
    ASSUME L!LifecycleAssumption, LifeInv, [L!Next]_(L!vars)
    PROVE  LifeInv'
<1>1. CASE L!Next
  <2>1. PICK d \in Daemons : L!Step(d)
    BY <1>1 DEF L!Next
  <2>2. L!TypeOK' /\ ProperAt(d)'
    BY <2>1, DaemonStartInv, PluginsInitInv, LoadInv, RunInv, DestroyInv, ShutdownInv,
       DaemonExitInv DEF L!Step
  <2>3. \A e \in Daemons \ {d} : ProperAt(e)'
    BY <2>1, OthersKept DEF LifeInv
  <2> QED BY <2>2, <2>3 DEF LifeInv
<1>2. CASE UNCHANGED L!vars
  BY <1>2 DEF L!vars, L!own, LifeInv, L!TypeOK, ProperAt
<1> QED BY <1>1, <1>2

\* Every state of the copies, their plugins and the files they share is well
\* typed.
THEOREM LifecycleType == ASSUME L!LifecycleAssumption PROVE L!Spec => []L!TypeOK
<1>1. L!Init => LifeInv
  BY LifeInit
<1>2. LifeInv /\ [L!Next]_(L!vars) => LifeInv'
  BY LifeStep
<1>3. LifeInv => L!TypeOK
  BY DEF LifeInv
<1> QED BY <1>1, <1>2, <1>3, PTL DEF L!Spec

\* No plugin is shut down twice, whatever the walk over the list finds in
\* freed memory; if it finds what was there, an exit has shut down all of them.
THEOREM ShutsOnce == ASSUME L!LifecycleAssumption PROVE L!Spec => []L!ShutOnce
<1>1. L!Init => LifeInv
  BY LifeInit
<1>2. LifeInv /\ [L!Next]_(L!vars) => LifeInv'
  BY LifeStep
<1>3. LifeInv => L!ShutOnce
  <2> SUFFICES ASSUME LifeInv, NEW d \in Daemons
               PROVE  /\ IsInjective(shut[d]) /\ ToSet(shut[d]) \cap ToSet(_plugins[d]) = {}
                      /\ stage[d] = "exited" /\ next[d] # Lost =>
                             _plugins[d] = <<>> /\ ToSet(shut[d]) = Loadable
    BY LifeLibrary DEF L!ShutOnce
  <2>1. ProperAt(d)
    BY DEF LifeInv
  <2>2. stage[d] = "exited" /\ next[d] # Lost =>
            _plugins[d] = <<>> /\ ToSet(<<>>) \cup ToSet(shut[d]) = Loadable
    BY <2>1 DEF ProperAt, Proper
  <2> QED BY <2>1, <2>2, EmptyList DEF ProperAt, Proper
<1> QED BY <1>1, <1>2, <1>3, PTL DEF L!Spec

-----------------------------------------------------------------------------
(* One copy at a time, plugins that all start.                             *)

Single ==
    /\ \A d, e \in Daemons : L!Alive(d) /\ L!Alive(e) => d = e
    /\ L!RunningIsReady

LEMMA InitSingle == L!Init => Single
BY DEF L!Init, Single, L!Alive, L!RunningIsReady

\* co_plugins_start starts every plugin of the list if none fails.
LEMMA AllStart ==
    ASSUME NEW list \in Seq(Loadable), Startable = Loadable
    PROVE  L!StartsOf(list) = ToSet(list)
<1>1. \A j \in 1..Len(list) : list[j] \in Startable
  OBVIOUS
<1>2. {k \in DOMAIN list : \A j \in 1..k : list[j] \in Startable} = DOMAIN list
  <2>1. ASSUME NEW k \in DOMAIN list, NEW j \in 1..k PROVE j \in 1..Len(list)
    OBVIOUS
  <2> QED BY <1>1, <2>1
<1> QED BY <1>2 DEF L!StartsOf, ToSet

\* The copy that binds is the only one alive, so that it takes the path from
\* none that serves.
LEMMA StepSingle ==
    ASSUME Alone, Startable = Loadable, LifeInv, Single, NEW d \in Daemons, L!Step(d)
    PROVE  Single'
<1>1. L!TypeOK
  BY DEF LifeInv
<1>2. \A e \in Daemons \ {d} : /\ stage'[e] = stage[e] /\ inits'[e] = inits[e]
                               /\ _plugins'[e] = _plugins[e]
  BY <1>1 DEF L!TypeOK, L!Step, L!To, L!daemon_start, L!co_plugins_init, L!LoadPlugin,
         L!unix_socket_bind, L!co_plugins_start, L!Terminate, L!Killed, L!co_loop_destroy,
         L!_co_plugins_shutdown_i, L!co_plugins_shutdown
<1>3. \A e \in Daemons \ {d} : ~L!Alive(e)
  BY DEF Single, L!Alive, L!Step, L!daemon_start, L!co_plugins_init, L!LoadPlugin,
         L!unix_socket_bind, L!co_plugins_start, L!Terminate, L!Killed, L!co_loop_destroy,
         L!_co_plugins_shutdown_i, L!co_plugins_shutdown
<1>4. \A e \in Daemons \ {d} : ~L!Alive(e)' /\ stage'[e] \notin {"bound", "running"}
  BY <1>2, <1>3 DEF L!Alive
<1>5. \A a, b \in Daemons : (L!Alive(a) /\ L!Alive(b))' => a = b
  BY <1>4
<1>6. stage'[d] \in {"bound", "running"} => socket' = d
  BY <1>1 DEF L!TypeOK, Single, L!RunningIsReady, L!Step, L!To, L!daemon_start, L!co_plugins_init,
         L!LoadPlugin, L!unix_socket_bind, L!co_plugins_start, L!Terminate, L!Killed,
         L!co_loop_destroy, L!_co_plugins_shutdown_i, L!co_plugins_shutdown
<1>7. stage'[d] = "running" => inits'[d] = ToSet(_plugins'[d])
  <2>1. SUFFICES ASSUME stage'[d] = "running" PROVE inits'[d] = ToSet(_plugins'[d])
    OBVIOUS
  <2>2. L!co_plugins_start(d)
    BY <1>1, <2>1 DEF L!TypeOK, L!Step, L!To, L!daemon_start, L!co_plugins_init, L!LoadPlugin,
         L!unix_socket_bind, L!Terminate, L!Killed, L!co_loop_destroy,
         L!_co_plugins_shutdown_i, L!co_plugins_shutdown
  <2>3. _plugins'[d] = _plugins[d] /\ inits'[d] = L!StartsOf(_plugins[d])
    BY <1>1, <2>2 DEF L!TypeOK, L!co_plugins_start
  <2>4. _plugins[d] \in Seq(Loadable)
    BY <1>1 DEF L!TypeOK
  <2> QED BY <2>3, <2>4, AllStart
<1> QED BY <1>4, <1>5, <1>6, <1>7, LifeLibrary DEF Single, L!RunningIsReady

\* A daemon that serves is reachable, after any kills and restarts, and has
\* started its plugins, if copies run one at a time and no plugin refuses.
THEOREM AlwaysReady ==
    ASSUME L!LifecycleAssumption, Alone, Startable = Loadable
    PROVE  L!Spec => []L!RunningIsReady
<1>1. L!Init => LifeInv /\ Single
  BY LifeInit, InitSingle
<1>2. LifeInv /\ Single /\ [L!Next]_(L!vars) => (LifeInv /\ Single)'
  <2> SUFFICES ASSUME LifeInv, Single, [L!Next]_(L!vars) PROVE LifeInv' /\ Single'
    OBVIOUS
  <2>1. CASE L!Next
    BY <2>1, LifeStep, StepSingle DEF L!Next
  <2>2. CASE UNCHANGED L!vars
    BY <2>2, LifeStep DEF L!vars, L!own, Single, L!Alive, L!RunningIsReady
  <2> QED BY <2>1, <2>2
<1>3. Single => L!RunningIsReady
  BY DEF Single
<1> QED BY <1>1, <1>2, <1>3, PTL DEF L!Spec

-----------------------------------------------------------------------------
(* Addresses: what C's operations make of the bits of a byte.              *)

Places == {1, 2, 4, 8, 16, 32, 64, 128}

\* The number with these bits, the lowest one first.
Binary(b1, b2, b4, b8, b16, b32, b64, b128) ==
    b1 + 2 * b2 + 4 * b4 + 8 * b8 + 16 * b16 + 32 * b32 + 64 * b64 + 128 * b128

LEMMA BitType ==
    ASSUME NEW a \in I!Byte
    PROVE  /\ \A w \in Places : I!Bit(a, w) \in {0, 1}
           /\ a = Binary(I!Bit(a, 1), I!Bit(a, 2), I!Bit(a, 4), I!Bit(a, 8),
                         I!Bit(a, 16), I!Bit(a, 32), I!Bit(a, 64), I!Bit(a, 128))
<1>1. \A w \in Places : I!Bit(a, w) \in {0, 1}
  BY DEF I!Byte, I!Bit, Places
<1>2. a = Binary(I!Bit(a, 1), I!Bit(a, 2), I!Bit(a, 4), I!Bit(a, 8),
                 I!Bit(a, 16), I!Bit(a, 32), I!Bit(a, 64), I!Bit(a, 128))
  BY DEF I!Byte, I!Bit, Binary
<1> QED BY <1>1, <1>2

LEMMA BinaryBits ==
    ASSUME NEW b1 \in {0, 1}, NEW b2 \in {0, 1}, NEW b4 \in {0, 1}, NEW b8 \in {0, 1},
           NEW b16 \in {0, 1}, NEW b32 \in {0, 1}, NEW b64 \in {0, 1}, NEW b128 \in {0, 1}
    PROVE  LET a == Binary(b1, b2, b4, b8, b16, b32, b64, b128)
           IN  /\ a \in I!Byte
               /\ I!Bit(a, 1) = b1 /\ I!Bit(a, 2) = b2 /\ I!Bit(a, 4) = b4 /\ I!Bit(a, 8) = b8
               /\ I!Bit(a, 16) = b16 /\ I!Bit(a, 32) = b32
               /\ I!Bit(a, 64) = b64 /\ I!Bit(a, 128) = b128
BY DEF I!Byte, I!Bit, Binary

\* Two bytes with the same bits are the same.
LEMMA SameBits ==
    ASSUME NEW a \in I!Byte, NEW b \in I!Byte, \A w \in Places : I!Bit(a, w) = I!Bit(b, w)
    PROVE  a = b
<1>1. /\ I!Bit(a, 1) = I!Bit(b, 1) /\ I!Bit(a, 2) = I!Bit(b, 2) /\ I!Bit(a, 4) = I!Bit(b, 4)
      /\ I!Bit(a, 8) = I!Bit(b, 8) /\ I!Bit(a, 16) = I!Bit(b, 16) /\ I!Bit(a, 32) = I!Bit(b, 32)
      /\ I!Bit(a, 64) = I!Bit(b, 64) /\ I!Bit(a, 128) = I!Bit(b, 128)
  BY DEF Places
<1> QED BY <1>1, BitType

LEMMA AndBits ==
    ASSUME NEW a \in I!Byte, NEW b \in I!Byte
    PROVE  /\ I!ByteAnd(a, b) \in I!Byte
           /\ \A w \in Places :
                 I!Bit(I!ByteAnd(a, b), w) = IF I!Bit(a, w) = 1 /\ I!Bit(b, w) = 1 THEN 1 ELSE 0
<1> DEFINE B(w) == IF I!Bit(a, w) = 1 /\ I!Bit(b, w) = 1 THEN 1 ELSE 0
           c == Binary(B(1), B(2), B(4), B(8), B(16), B(32), B(64), B(128))
<1>1. I!ByteAnd(a, b) = c
  <2>1. \A w \in Places : I!BitAnd(a, b, w) = w * B(w)
    BY DEF I!BitAnd, Places
  <2> HIDE DEF B
  <2>2. /\ I!BitAnd(a, b, 1) = B(1) /\ I!BitAnd(a, b, 2) = 2 * B(2)
        /\ I!BitAnd(a, b, 4) = 4 * B(4) /\ I!BitAnd(a, b, 8) = 8 * B(8)
        /\ I!BitAnd(a, b, 16) = 16 * B(16) /\ I!BitAnd(a, b, 32) = 32 * B(32)
        /\ I!BitAnd(a, b, 64) = 64 * B(64) /\ I!BitAnd(a, b, 128) = 128 * B(128)
    <3>1. B(1) \in Int
      BY DEF B
    <3> QED BY <2>1, <3>1 DEF Places
  <2> QED BY <2>2 DEF I!ByteAnd, Binary
<1>2. \A w \in Places : B(w) \in {0, 1}
  OBVIOUS
<1> HIDE DEF B
<1>3. /\ c \in I!Byte
      /\ I!Bit(c, 1) = B(1) /\ I!Bit(c, 2) = B(2) /\ I!Bit(c, 4) = B(4) /\ I!Bit(c, 8) = B(8)
      /\ I!Bit(c, 16) = B(16) /\ I!Bit(c, 32) = B(32)
      /\ I!Bit(c, 64) = B(64) /\ I!Bit(c, 128) = B(128)
  BY <1>2, BinaryBits DEF Places
<1> HIDE DEF c
<1>4. \A w \in Places : I!Bit(c, w) = B(w)
  BY <1>3 DEF Places
<1> QED BY <1>1, <1>3, <1>4 DEF B

LEMMA NotBits ==
    ASSUME NEW a \in I!Byte
    PROVE  /\ I!ByteNot(a) \in I!Byte
           /\ \A w \in Places : I!Bit(I!ByteNot(a), w) = 1 - I!Bit(a, w)
<1>1. I!ByteNot(a) \in I!Byte
  BY DEF I!ByteNot, I!Byte
<1>2. \A w \in Places : I!Bit(I!ByteNot(a), w) = 1 - I!Bit(a, w)
  BY DEF I!ByteNot, I!Byte, I!Bit, Places
<1> QED BY <1>1, <1>2

\* Without a common bit, or is the sum.
LEMMA OrBits ==
    ASSUME NEW a \in I!Byte, NEW b \in I!Byte,
           \A w \in Places : I!Bit(a, w) = 0 \/ I!Bit(b, w) = 0
    PROVE  /\ I!ByteOr(a, b) \in I!Byte
           /\ \A w \in Places : I!Bit(I!ByteOr(a, b), w) = I!Bit(a, w) + I!Bit(b, w)
<1>1. I!ByteAnd(a, b) = 0
  <2>1. I!ByteAnd(a, b) \in I!Byte /\ \A w \in Places : I!Bit(I!ByteAnd(a, b), w) = 0
    BY AndBits
  <2>2. 0 \in I!Byte /\ \A w \in Places : I!Bit(0, w) = 0
    BY DEF I!Byte, I!Bit, Places
  <2> QED BY <2>1, <2>2, SameBits
<1>2. I!ByteOr(a, b) = a + b
  BY <1>1 DEF I!ByteOr, I!Byte
<1> DEFINE B(w) == I!Bit(a, w) + I!Bit(b, w)
           c == Binary(B(1), B(2), B(4), B(8), B(16), B(32), B(64), B(128))
<1>3. \A w \in Places : I!Bit(a, w) \in {0, 1} /\ I!Bit(b, w) \in {0, 1} /\ B(w) \in {0, 1}
  BY BitType
<1>4. a + b = c
  <2>1. /\ a = Binary(I!Bit(a, 1), I!Bit(a, 2), I!Bit(a, 4), I!Bit(a, 8),
                      I!Bit(a, 16), I!Bit(a, 32), I!Bit(a, 64), I!Bit(a, 128))
        /\ b = Binary(I!Bit(b, 1), I!Bit(b, 2), I!Bit(b, 4), I!Bit(b, 8),
                      I!Bit(b, 16), I!Bit(b, 32), I!Bit(b, 64), I!Bit(b, 128))
    BY BitType
  <2> QED BY <1>3, <2>1 DEF Binary, Places
<1> HIDE DEF B
<1>5. /\ c \in I!Byte
      /\ I!Bit(c, 1) = B(1) /\ I!Bit(c, 2) = B(2) /\ I!Bit(c, 4) = B(4) /\ I!Bit(c, 8) = B(8)
      /\ I!Bit(c, 16) = B(16) /\ I!Bit(c, 32) = B(32)
      /\ I!Bit(c, 64) = B(64) /\ I!Bit(c, 128) = B(128)
  BY <1>3, BinaryBits DEF Places
<1> HIDE DEF c
<1>6. \A w \in Places : I!Bit(c, w) = B(w)
  BY <1>5 DEF Places
<1> QED BY <1>2, <1>4, <1>5, <1>6 DEF B

\* One byte of a generated address.
LEMMA GeneratedByte ==
    ASSUME NEW a \in I!Byte, NEW m \in I!Byte, NEW h \in I!Byte
    PROVE  LET g == I!ByteOr(I!ByteAnd(a, m), I!ByteAnd(h, I!ByteNot(m)))
           IN  g \in I!Byte /\ I!ByteAnd(g, m) = I!ByteAnd(a, m) /\ (m = 0 => g = h)
<1> DEFINE x == I!ByteAnd(a, m)
           y == I!ByteAnd(h, I!ByteNot(m))
           g == I!ByteOr(x, y)
<1>1. \A w \in Places : I!Bit(a, w) \in {0, 1} /\ I!Bit(m, w) \in {0, 1} /\ I!Bit(h, w) \in {0, 1}
  BY BitType
<1>2. I!ByteNot(m) \in I!Byte /\ \A w \in Places : I!Bit(I!ByteNot(m), w) = 1 - I!Bit(m, w)
  BY NotBits
<1>3. /\ x \in I!Byte
      /\ \A w \in Places : I!Bit(x, w) = IF I!Bit(a, w) = 1 /\ I!Bit(m, w) = 1 THEN 1 ELSE 0
  BY AndBits
<1>4. /\ y \in I!Byte
      /\ \A w \in Places : I!Bit(y, w) = IF I!Bit(h, w) = 1 /\ I!Bit(m, w) = 0 THEN 1 ELSE 0
  <2>1. /\ y \in I!Byte
        /\ \A w \in Places :
              I!Bit(y, w) = IF I!Bit(h, w) = 1 /\ I!Bit(I!ByteNot(m), w) = 1 THEN 1 ELSE 0
    BY <1>2, AndBits
  <2>2. \A w \in Places : I!Bit(I!ByteNot(m), w) = 1 <=> I!Bit(m, w) = 0
    BY <1>1, <1>2
  <2> QED BY <2>1, <2>2
<1> HIDE DEF x, y
<1>5. g \in I!Byte /\ \A w \in Places : I!Bit(g, w) = I!Bit(x, w) + I!Bit(y, w)
  <2>1. \A w \in Places : I!Bit(x, w) = 0 \/ I!Bit(y, w) = 0
    BY <1>3, <1>4
  <2> QED BY <1>3, <1>4, <2>1, OrBits
<1> HIDE DEF g
<1>6. I!ByteAnd(g, m) = x
  <2>1. /\ I!ByteAnd(g, m) \in I!Byte
        /\ \A w \in Places :
              I!Bit(I!ByteAnd(g, m), w) = IF I!Bit(g, w) = 1 /\ I!Bit(m, w) = 1 THEN 1 ELSE 0
    BY <1>5, AndBits
  <2>2. \A w \in Places : I!Bit(I!ByteAnd(g, m), w) = I!Bit(x, w)
    BY <1>1, <1>3, <1>4, <1>5, <2>1
  <2> QED BY <1>3, <2>1, <2>2, SameBits
<1>7. ASSUME m = 0 PROVE g = h
  <2>1. \A w \in Places : I!Bit(m, w) = 0
    BY <1>7 DEF I!Bit, Places
  <2>2. \A w \in Places : I!Bit(g, w) = I!Bit(h, w)
    BY <1>1, <1>3, <1>4, <1>5, <2>1
  <2> QED BY <1>5, <2>2, SameBits
<1> QED BY <1>5, <1>6, <1>7 DEF x, y, g

\* co_generate_ip for any profile and node id: the address lies in the subnet
\* of the profile, and its free bytes are below 254.
LEMMA GenerateFacts ==
    ASSUME NEW base \in I!Quad, NEW mask \in I!Quad, NEW id \in I!Quad, NEW gw \in BOOLEAN
    PROVE  LET ip == I!co_generate_ip(base, mask, id, gw)
           IN  /\ ip \in I!Quad
               /\ I!And(ip, mask) = I!And(base, mask)
               /\ \A i \in 1..4 : mask[i] = 0 => ip[i] < 254
<1> DEFINE ip == I!co_generate_ip(base, mask, id, gw)
           h == I!HostBytes(id, gw)
<1>1. h \in I!Quad /\ \A i \in 1..4 : h[i] < 254
  <2>1. \A i \in 1..4 : id[i] % 254 \in I!Byte /\ id[i] % 254 < 254
    BY DEF I!Quad, I!Byte
  <2>2. 1 \in I!Byte
    BY DEF I!Byte
  <2>3. CASE gw
    BY <2>1, <2>2, <2>3 DEF I!HostBytes, I!Quad
  <2>4. CASE ~gw
    BY <2>1, <2>4 DEF I!HostBytes, I!Quad
  <2> QED BY <2>3, <2>4
<1> HIDE DEF h
<1>2. ip = [i \in 1..4 |-> I!ByteOr(I!ByteAnd(base[i], mask[i]),
                                 I!ByteAnd(h[i], I!ByteNot(mask[i])))]
  BY DEF I!co_generate_ip, I!Or, I!And, I!Not, h
<1>3. \A i \in 1..4 : base[i] \in I!Byte /\ mask[i] \in I!Byte /\ h[i] \in I!Byte
  BY <1>1 DEF I!Quad
<1> HIDE DEF ip
<1>4. \A i \in 1..4 : /\ ip[i] \in I!Byte
                      /\ I!ByteAnd(ip[i], mask[i]) = I!ByteAnd(base[i], mask[i])
                      /\ mask[i] = 0 => ip[i] = h[i]
  <2> SUFFICES ASSUME NEW i \in 1..4
               PROVE  /\ ip[i] \in I!Byte
                      /\ I!ByteAnd(ip[i], mask[i]) = I!ByteAnd(base[i], mask[i])
                      /\ mask[i] = 0 => ip[i] = h[i]
    OBVIOUS
  <2>1. ip[i] = I!ByteOr(I!ByteAnd(base[i], mask[i]), I!ByteAnd(h[i], I!ByteNot(mask[i])))
    BY <1>2
  <2>2. base[i] \in I!Byte /\ mask[i] \in I!Byte /\ h[i] \in I!Byte
    BY <1>3
  <2> QED BY <2>1, <2>2, GeneratedByte
<1>5. ip \in I!Quad
  BY <1>2, <1>4 DEF I!Quad
<1>6. I!And(ip, mask) = I!And(base, mask)
  BY <1>4 DEF I!And
<1> QED BY <1>1, <1>4, <1>5, <1>6 DEF ip


-----------------------------------------------------------------------------
(* The list of interfaces.                                                 *)

\* The operators of the library, as Interfaces and as the lemmas name them.
LEMMA IfaceLibrary ==
    /\ \A s, i : I!RemoveAt(s, i) = RemoveAt(s, i)
    /\ \A S : I!Min(S) = Min(S)
BY DEF I!RemoveAt, RemoveAt, I!Min, Min

\* _co_iface_match_i stops at the first entry of the name.
LEMMA PositionFacts ==
    ASSUME NEW S, NEW list \in Seq(S), NEW name
    PROVE  LET i == I!Position(list, name)
           IN  /\ i \in 0..Len(list)
               /\ i = 0 => \A j \in 1..Len(list) : list[j].name # name
               /\ i # 0 => list[i].name = name /\ \A j \in 1..i - 1 : list[j].name # name
<1> DEFINE hits == {i \in 1..Len(list) : list[i].name = name}
<1>1. I!Position(list, name) = IF hits # {} THEN Min(hits) ELSE 0
  BY IfaceLibrary DEF I!Position, I!SelectInSeq
<1>2. CASE hits = {}
  BY <1>1, <1>2
<1>3. CASE hits # {}
  <2>0. hits \subseteq Nat
    OBVIOUS
  <2>1. Min(hits) \in hits /\ \A j \in hits : Min(hits) <= j
    <3> HIDE DEF hits
    <3> QED BY <1>3, <2>0, MinFacts
  <2>2. \A j \in 1..Min(hits) - 1 : j \in 1..Len(list) /\ ~(Min(hits) <= j)
    BY <2>1
  <2> QED BY <1>1, <1>3, <2>1, <2>2
<1> QED BY <1>2, <1>3

\* What leaves the list with a name: the first entry of it, and no other.
LEMMA RemoveFromFacts ==
    ASSUME NEW S, NEW list \in Seq(S), NEW name
    PROVE  LET r == I!RemoveFrom(list, name)
               i == I!Position(list, name)
           IN  /\ r \in Seq(S)
               /\ i = 0 => r = list
               /\ i # 0 => /\ Len(r) = Len(list) - 1
                           /\ \A j \in 1..Len(r) : r[j] = IF j < i THEN list[j] ELSE list[j + 1]
<1>1. CASE I!Position(list, name) = 0
  BY <1>1 DEF I!RemoveFrom
<1>2. CASE I!Position(list, name) # 0
  <2>1. I!Position(list, name) \in 1..Len(list)
    BY <1>2, PositionFacts
  <2>2. I!RemoveFrom(list, name) = RemoveAt(list, I!Position(list, name))
    BY <1>2, IfaceLibrary DEF I!RemoveFrom
  <2> QED BY <1>2, <2>1, <2>2, RemoveAtFacts
<1> QED BY <1>1, <1>2

\* The entries of other names stay, and none is added.
LEMMA OthersStay ==
    ASSUME NEW S, NEW list \in Seq(S), NEW name
    PROVE  LET r == I!RemoveFrom(list, name)
           IN  /\ r \in Seq(S) /\ Len(r) <= Len(list)
               /\ \A j \in 1..Len(list) : list[j].name # name => \E k \in 1..Len(r) : r[k] = list[j]
<1> DEFINE r == I!RemoveFrom(list, name)
           i == I!Position(list, name)
<1>1. /\ i \in 0..Len(list) /\ r \in Seq(S)
      /\ i = 0 => r = list
      /\ i # 0 => /\ Len(r) = Len(list) - 1
                  /\ \A j \in 1..Len(r) : r[j] = IF j < i THEN list[j] ELSE list[j + 1]
                  /\ list[i].name = name
  BY PositionFacts, RemoveFromFacts
<1> HIDE DEF r, i
<1>2. ASSUME NEW j \in 1..Len(list), list[j].name # name
      PROVE  \E k \in 1..Len(r) : r[k] = list[j]
  <2>1. CASE i = 0
    BY <1>1, <2>1
  <2>2. CASE i # 0 /\ j < i
    BY <1>1, <2>2
  <2>3. CASE i # 0 /\ j > i
    <3>1. j - 1 \in 1..Len(r) /\ ~(j - 1 < i) /\ (j - 1) + 1 = j
      BY <1>1, <2>3
    <3> QED BY <1>1, <2>3, <3>1
  <2>4. j # i \/ i = 0
    BY <1>1, <1>2
  <2> QED BY <1>1, <2>1, <2>2, <2>3, <2>4
<1>3. Len(r) <= Len(list)
  BY <1>1
<1> QED BY <1>1, <1>2, <1>3 DEF r

\* An entry that is added goes to the end.
LEMMA EntryAdded ==
    ASSUME NEW S, NEW list \in Seq(S), NEW e \in S
    PROVE  LET r == Append(list, e)
           IN  /\ r \in Seq(S) /\ Len(r) = Len(list) + 1 /\ r[Len(r)] = e
               /\ \A j \in 1..Len(list) : r[j] = list[j]
OBVIOUS

IfaceInv == I!TypeOK /\ I!UpIsListed

LEMMA IfaceInit == ASSUME I!InterfacesAssumption, I!Init PROVE IfaceInv
<1>1. I!TypeOK
  <2>1. nodeid \in I!Quad
    BY DEF I!Init, I!Zero, I!Quad, I!Byte
  <2>2. ifaces \in Seq(I!Entry) /\ Len(ifaces) = 0 /\ MaxIfaces \in Nat /\ MaxNets \in Nat
    BY DEF I!Init, I!InterfacesAssumption
  <2>3. /\ profiles \in [DOMAIN Profiles -> I!Settings \cup {NULL}]
        /\ address \in [Devices -> I!Quad \cup {Down}]
        /\ applied \in [Devices -> DOMAIN Profiles \cup {NULL}]
    BY DEF I!Init, I!InterfacesAssumption
  <2>4. networks \in [Wireless -> 0..MaxNets]
    BY <2>2 DEF I!Init
  <2> QED BY <2>1, <2>2, <2>3, <2>4 DEF I!TypeOK
<1>2. I!UpIsListed
  BY DEF I!Init, I!UpIsListed
<1> QED BY <1>1, <1>2 DEF IfaceInv

LEMMA IdType ==
    ASSUME I!InterfacesAssumption, I!TypeOK, NEW name \in IfNames
    PROVE  I!IdAfterUp(name) \in I!Quad
<1>1. CASE name \in Devices
  <2>1. \A i \in 1..4 : Mac[name][i + 2] \in I!Byte
    BY <1>1 DEF I!InterfacesAssumption
  <2>2. I!co_id_set_from_mac(Mac[name]) \in I!Quad
    BY <2>1 DEF I!co_id_set_from_mac, I!Quad
  <2> QED BY <2>2 DEF I!IdAfterUp, I!TypeOK
<1>2. CASE name \notin Devices
  BY <1>2 DEF I!IdAfterUp, I!TypeOK
<1> QED BY <1>1, <1>2

LEMMA AddressType ==
    ASSUME I!TypeOK, NEW p \in DOMAIN Profiles, profiles[p] # NULL, NEW id \in I!Quad
    PROVE  I!AddressFor(p, id) \in I!Quad
<1>1. profiles[p].ip \in I!Quad /\ profiles[p].ipgenmask \in I!Quad
  BY DEF I!TypeOK, I!Settings
<1>2. I!co_generate_ip(profiles[p].ip, profiles[p].ipgenmask, id, FALSE) \in I!Quad
  BY <1>1, GenerateFacts
<1>3. I!Zero \in I!Quad
  BY DEF I!Zero, I!Quad, I!Byte
<1> QED BY <1>2, <1>3 DEF I!AddressFor

\* What co_iface_set_ip leaves: the device with the address, or as it was.
LEMMA SetIpFacts ==
    ASSUME I!TypeOK, NEW name, NEW p, I!SetIp(name, p) \/ I!SetIpFails
    PROVE  /\ \A n \in Devices : n # name => address'[n] = address[n] /\ applied'[n] = applied[n]
           /\ name \in Devices =>
                \/ address'[name] = I!AddressFor(p, nodeid') /\ applied'[name] = p
                \/ address'[name] = address[name] /\ applied'[name] = applied[name]
BY DEF I!TypeOK, I!SetIp, I!SetIpFails

LEMMA UpSucceedsInv ==
    ASSUME I!InterfacesAssumption, IfaceInv, NEW name \in IfNames, NEW p \in DOMAIN Profiles,
           Len(ifaces) < MaxIfaces, I!UpSucceeds(name, p)
    PROVE  IfaceInv'
<1> DEFINE e == [name |-> name, profile |-> p, ctrl |-> name \in Wireless]
<1>1. /\ I!TypeOK /\ ifaces \in Seq(I!Entry) /\ e \in I!Entry /\ Wireless \subseteq Devices
      /\ MaxIfaces \in Nat
  BY DEF IfaceInv, I!TypeOK, I!Entry, I!InterfacesAssumption
<1>2. /\ ifaces' = Append(ifaces, e)
      /\ nodeid' = I!IdAfterUp(name)
      /\ profiles[p] # NULL /\ (I!SetIp(name, p) \/ I!SetIpFails)
      /\ networks' = IF name \in Wireless THEN [networks EXCEPT ![name] = @ + 1] ELSE networks
      /\ name \in Wireless => networks[name] < MaxNets
      /\ profiles' = profiles
  BY DEF I!UpSucceeds
<1> HIDE DEF e
<1>3. /\ ifaces' \in Seq(I!Entry) /\ Len(ifaces') = Len(ifaces) + 1 /\ ifaces'[Len(ifaces')] = e
      /\ \A j \in 1..Len(ifaces) : ifaces'[j] = ifaces[j]
  BY <1>1, <1>2, EntryAdded
<1>4. nodeid' \in I!Quad
  BY <1>1, <1>2, IdType
<1>5. I!AddressFor(p, nodeid') \in I!Quad
  BY <1>1, <1>2, <1>4, AddressType
<1>6. I!TypeOK'
  <2>1. networks' \in [Wireless -> 0..MaxNets]
    BY <1>1, <1>2 DEF I!TypeOK, I!InterfacesAssumption
  <2>2. /\ address' \in [Devices -> I!Quad \cup {Down}]
        /\ applied' \in [Devices -> DOMAIN Profiles \cup {NULL}]
    BY <1>1, <1>2, <1>5 DEF I!TypeOK, I!SetIp, I!SetIpFails
  <2>3. Len(ifaces') <= MaxIfaces
    BY <1>1, <1>3
  <2> QED BY <1>1, <1>2, <1>3, <1>4, <2>1, <2>2, <2>3 DEF I!TypeOK
<1>7. I!UpIsListed'
  <2> SUFFICES ASSUME NEW n \in Devices, address'[n] # Down
               PROVE  \E i \in 1..Len(ifaces') :
                         ifaces'[i].name = n /\ ifaces'[i].profile = applied'[n]
    BY <1>3 DEF I!UpIsListed
  <2>1. CASE n = name /\ applied'[n] = p
    <3>1. Len(ifaces') \in 1..Len(ifaces') /\ e.name = n /\ e.profile = p
      BY <1>1, <1>3, <2>1 DEF e
    <3> QED BY <1>3, <2>1, <3>1
  <2>2. CASE address'[n] = address[n] /\ applied'[n] = applied[n]
    <3>1. PICK i \in 1..Len(ifaces) : ifaces[i].name = n /\ ifaces[i].profile = applied[n]
      BY <1>1, <2>2 DEF IfaceInv, I!UpIsListed
    <3> QED BY <1>1, <1>3, <2>2, <3>1
  <2>3. \/ n = name /\ applied'[n] = p
        \/ address'[n] = address[n] /\ applied'[n] = applied[n]
    BY <1>1, <1>2, SetIpFacts
  <2> QED BY <2>1, <2>2, <2>3
<1> QED BY <1>6, <1>7 DEF IfaceInv

\* A list that has the entries of the other names, and the device taken down.
LEMMA TakeDownInv ==
    ASSUME I!InterfacesAssumption, IfaceInv, NEW name \in IfNames, I!TakeDown(name),
           ifaces' \in Seq(I!Entry), Len(ifaces') <= MaxIfaces,
           \A j \in 1..Len(ifaces) :
              ifaces[j].name # name => \E k \in 1..Len(ifaces') : ifaces'[k] = ifaces[j],
           nodeid' \in I!Quad, profiles' = profiles
    PROVE  IfaceInv'
<1>1. I!TypeOK
  BY DEF IfaceInv
<1>2. I!TypeOK'
  BY <1>1 DEF I!TypeOK, I!TakeDown
<1>3. I!UpIsListed'
  <2> SUFFICES ASSUME NEW n \in Devices, address'[n] # Down
               PROVE  \E i \in 1..Len(ifaces') :
                         ifaces'[i].name = n /\ ifaces'[i].profile = applied'[n]
    BY DEF I!UpIsListed
  <2>1. n # name /\ address[n] # Down /\ applied'[n] = applied[n]
    BY <1>1 DEF I!TakeDown, I!TypeOK
  <2>2. PICK i \in 1..Len(ifaces) : ifaces[i].name = n /\ ifaces[i].profile = applied[n]
    BY <1>1, <2>1 DEF IfaceInv, I!UpIsListed, I!TypeOK
  <2> QED BY <2>1, <2>2
<1> QED BY <1>2, <1>3 DEF IfaceInv

LEMMA UpFailsInv ==
    ASSUME I!InterfacesAssumption, IfaceInv, NEW name \in IfNames, NEW p \in DOMAIN Profiles,
           Len(ifaces) < MaxIfaces, I!UpFails(name, p)
    PROVE  IfaceInv'
<1> DEFINE e == [name |-> name, profile |-> NULL, ctrl |-> FALSE]
           list == Append(ifaces, e)
<1>1. ifaces \in Seq(I!Entry) /\ e \in I!Entry /\ I!TypeOK /\ MaxIfaces \in Nat
  BY DEF IfaceInv, I!TypeOK, I!Entry, I!InterfacesAssumption
<1>2. /\ ifaces' = I!RemoveFrom(list, name) /\ I!TakeDown(name)
      /\ nodeid' = I!IdAfterUp(name) /\ profiles' = profiles
  BY DEF I!UpFails
<1>3. e.name = name
  OBVIOUS
<1> HIDE DEF e
<1>4. /\ list \in Seq(I!Entry) /\ Len(list) = Len(ifaces) + 1
      /\ \A j \in 1..Len(ifaces) : list[j] = ifaces[j]
  BY <1>1, EntryAdded
<1> HIDE DEF list
<1>5. /\ ifaces' \in Seq(I!Entry) /\ Len(ifaces') <= Len(list)
      /\ \A j \in 1..Len(list) :
            list[j].name # name => \E k \in 1..Len(ifaces') : ifaces'[k] = list[j]
  BY <1>2, <1>4, OthersStay
<1>6. \A j \in 1..Len(ifaces) :
         ifaces[j].name # name => \E k \in 1..Len(ifaces') : ifaces'[k] = ifaces[j]
  <2>1. \A j \in 1..Len(ifaces) : j \in 1..Len(list)
    BY <1>1, <1>4
  <2> QED BY <1>4, <1>5, <2>1
<1>7. nodeid' \in I!Quad /\ Len(ifaces') <= MaxIfaces
  BY <1>1, <1>2, <1>4, <1>5, IdType
<1> QED BY <1>2, <1>5, <1>6, <1>7, TakeDownInv

LEMMA DownInv ==
    ASSUME I!InterfacesAssumption, IfaceInv, NEW name \in IfNames, I!CMD_down(name)
    PROVE  IfaceInv'
<1>1. ifaces \in Seq(I!Entry) /\ I!TypeOK /\ MaxIfaces \in Nat
  BY DEF IfaceInv, I!TypeOK, I!InterfacesAssumption
<1>2. CASE I!Position(ifaces, name) = 0
  BY <1>2 DEF I!CMD_down, IfaceInv, I!TypeOK, I!UpIsListed
<1>3. CASE I!Position(ifaces, name) # 0
  <2>1. /\ ifaces' = I!RemoveFrom(ifaces, name) /\ I!TakeDown(name)
        /\ UNCHANGED <<nodeid, profiles>>
    BY <1>3 DEF I!CMD_down
  <2>2. /\ ifaces' \in Seq(I!Entry) /\ Len(ifaces') <= Len(ifaces)
        /\ \A j \in 1..Len(ifaces) :
              ifaces[j].name # name => \E k \in 1..Len(ifaces') : ifaces'[k] = ifaces[j]
    BY <1>1, <2>1, OthersStay
  <2>3. nodeid' \in I!Quad /\ Len(ifaces') <= MaxIfaces
    BY <1>1, <2>1, <2>2 DEF I!TypeOK
  <2> QED BY <2>1, <2>2, <2>3, TakeDownInv
<1> QED BY <1>2, <1>3

\* The other commands leave the list and the devices alone.
LEMMA OtherCommands ==
    ASSUME I!InterfacesAssumption, IfaceInv, UNCHANGED <<ifaces, address, applied, networks>>,
           nodeid' \in I!Quad, profiles' \in [DOMAIN Profiles -> I!Settings \cup {NULL}]
    PROVE  IfaceInv'
BY DEF IfaceInv, I!TypeOK, I!UpIsListed

\* The command genip, asked for the subnet and the mask of a profile.
Genip(p, gw) == I!CMD_genip(Profiles[p].ip, Profiles[p].ipgenmask, gw)

\* The commands that change a profile.
ProfileEdited(p) ==
    \/ I!ProfileCreated(p) \/ I!ProfileDeleted(p)
    \/ \E settings \in Edits : I!CMD_set(p, settings)

LEMMA IfaceStep ==
    ASSUME I!InterfacesAssumption, IfaceInv, [I!Next]_(I!vars)
    PROVE  IfaceInv'
<1>1. /\ nodeid \in I!Quad /\ NodeIds \subseteq I!Quad
      /\ profiles \in [DOMAIN Profiles -> I!Settings \cup {NULL}]
      /\ Defaults \in I!Settings /\ Edits \subseteq I!Settings
  BY DEF IfaceInv, I!TypeOK, I!InterfacesAssumption
<1>2. ASSUME NEW name \in IfNames, NEW p \in DOMAIN Profiles, I!CMD_up(name, p) PROVE IfaceInv'
  BY <1>2, UpSucceedsInv, UpFailsInv DEF I!CMD_up
<1>3. ASSUME NEW name \in IfNames, I!CMD_status(name) \/ I!CMD_state(name) PROVE IfaceInv'
  BY <1>1, <1>3, OtherCommands DEF I!CMD_status, I!CMD_state
<1>4. ASSUME NEW id \in NodeIds, I!CMD_nodeid(id) PROVE IfaceInv'
  BY <1>1, <1>4, OtherCommands DEF I!CMD_nodeid
<1>5. ASSUME NEW p \in DOMAIN Profiles, NEW gw \in BOOLEAN, Genip(p, gw) PROVE IfaceInv'
  BY <1>1, <1>5, OtherCommands DEF Genip, I!CMD_genip
<1>6. ASSUME NEW p \in DOMAIN Profiles, ProfileEdited(p) PROVE IfaceInv'
  <2>1. /\ profiles' \in [DOMAIN Profiles -> I!Settings \cup {NULL}]
        /\ UNCHANGED <<ifaces, nodeid, address, applied, networks>>
    BY <1>1, <1>6 DEF ProfileEdited, I!ProfileCreated, I!ProfileDeleted, I!CMD_set
  <2> QED BY <1>1, <2>1, OtherCommands
<1>7. CASE UNCHANGED I!vars
  BY <1>1, <1>7, OtherCommands DEF I!vars
<1> QED BY <1>2, <1>3, <1>4, <1>5, <1>6, <1>7, DownInv DEF I!Next, Genip, ProfileEdited

\* Every state of the interfaces is well typed, node ids and addresses included.
THEOREM InterfacesType == ASSUME I!InterfacesAssumption PROVE I!Spec => []I!TypeOK
<1>1. I!Init => IfaceInv
  BY IfaceInit
<1>2. IfaceInv /\ [I!Next]_(I!vars) => IfaceInv'
  BY IfaceStep
<1>3. IfaceInv => I!TypeOK
  BY DEF IfaceInv
<1> QED BY <1>1, <1>2, <1>3, PTL DEF I!Spec

\* A device that is up has an entry with the profile it was set up with, after
\* any sequence of ups, failing ups and downs, of any number of interfaces.
THEOREM UpAlwaysListed == ASSUME I!InterfacesAssumption PROVE I!Spec => []I!UpIsListed
<1>1. I!Init => IfaceInv
  BY IfaceInit
<1>2. IfaceInv /\ [I!Next]_(I!vars) => IfaceInv'
  BY IfaceStep
<1>3. IfaceInv => I!UpIsListed
  BY DEF IfaceInv
<1> QED BY <1>1, <1>2, <1>3, PTL DEF I!Spec

\* What genip answers with: an address made for a profile from some node id.
GenipReply ==
    answer[1] = "genip" =>
        \E p \in DOMAIN Profiles, id \in I!Quad, gw \in BOOLEAN :
            LET subnet == Profiles[p].ip
                netmask == Profiles[p].ipgenmask
            IN  answer = <<"genip", <<subnet, netmask>>, I!co_generate_ip(subnet, netmask, id, gw)>>

LEMMA GenipFits == ASSUME I!InterfacesAssumption, GenipReply PROVE I!GeneratedFits
<1> SUFFICES ASSUME answer[1] = "genip"
             PROVE  LET subnet == answer[2][1]
                        netmask == answer[2][2]
                    IN  /\ I!And(answer[3], netmask) = I!And(subnet, netmask)
                        /\ \A i \in 1..4 : netmask[i] = 0 => answer[3][i] < 254
  BY DEF I!GeneratedFits
<1>1. PICK p \in DOMAIN Profiles, id \in I!Quad, gw \in BOOLEAN :
         answer = <<"genip", <<Profiles[p].ip, Profiles[p].ipgenmask>>,
                    I!co_generate_ip(Profiles[p].ip, Profiles[p].ipgenmask, id, gw)>>
  BY DEF GenipReply
<1>2. Profiles[p].ip \in I!Quad /\ Profiles[p].ipgenmask \in I!Quad
  BY DEF I!InterfacesAssumption, I!Settings
<1> DEFINE subnet == Profiles[p].ip
           netmask == Profiles[p].ipgenmask
           ip == I!co_generate_ip(subnet, netmask, id, gw)
<1>3. answer[2][1] = subnet /\ answer[2][2] = netmask /\ answer[3] = ip
  BY <1>1
<1> HIDE DEF subnet, netmask
<1>4. /\ I!And(ip, netmask) = I!And(subnet, netmask)
      /\ \A i \in 1..4 : netmask[i] = 0 => ip[i] < 254
  <2>1. \A b, m \in I!Quad :
           /\ I!And(I!co_generate_ip(b, m, id, gw), m) = I!And(b, m)
           /\ \A i \in 1..4 : m[i] = 0 => I!co_generate_ip(b, m, id, gw)[i] < 254
    BY GenerateFacts
  <2> QED BY <1>2, <2>1 DEF subnet, netmask
<1> HIDE DEF ip
<1> QED BY <1>3, <1>4

LEMMA GenipStep ==
    ASSUME I!InterfacesAssumption, IfaceInv, GenipReply, [I!Next]_(I!vars)
    PROVE  GenipReply'
<1>1. ASSUME NEW p \in DOMAIN Profiles, NEW gw \in BOOLEAN, Genip(p, gw)
      PROVE  GenipReply'
  <2>1. answer' = <<"genip", <<Profiles[p].ip, Profiles[p].ipgenmask>>,
                    I!co_generate_ip(Profiles[p].ip, Profiles[p].ipgenmask, nodeid, gw)>>
    BY <1>1 DEF Genip, I!CMD_genip
  <2>2. nodeid \in I!Quad
    BY DEF IfaceInv, I!TypeOK
  <2> QED BY <2>1, <2>2 DEF GenipReply
<1>2. CASE answer'[1] # "genip"
  BY <1>2 DEF GenipReply
<1>3. CASE UNCHANGED answer
  BY <1>3 DEF GenipReply
<1>4. ASSUME NEW name \in IfNames, NEW p \in DOMAIN Profiles, I!CMD_up(name, p)
      PROVE  answer'[1] # "genip"
  <2>1. answer'[1] = "up"
    BY <1>4 DEF I!CMD_up, I!UpSucceeds, I!UpFails
  <2> QED BY <2>1
<1>5. ASSUME NEW name \in IfNames, I!CMD_down(name) \/ I!CMD_status(name) \/ I!CMD_state(name)
      PROVE  answer'[1] # "genip"
  <2>1. answer'[1] \in {"down", "status", "state"}
    BY <1>5 DEF I!CMD_down, I!CMD_status, I!CMD_state
  <2> QED BY <2>1
<1>6. ASSUME NEW id \in NodeIds, I!CMD_nodeid(id) PROVE answer'[1] # "genip"
  BY <1>6 DEF I!CMD_nodeid
<1>7. ASSUME NEW p \in DOMAIN Profiles, ProfileEdited(p) PROVE answer'[1] # "genip"
  <2>1. answer'[1] \in {"new", "delete", "set"}
    BY <1>7 DEF ProfileEdited, I!ProfileCreated, I!ProfileDeleted, I!CMD_set
  <2> QED BY <2>1
<1>8. CASE UNCHANGED I!vars
  BY <1>3, <1>8 DEF I!vars
<1> QED BY <1>1, <1>2, <1>4, <1>5, <1>6, <1>7, <1>8 DEF I!Next, Genip, ProfileEdited

\* An address genip generates is in the subnet of its profile, and no byte its
\* mask leaves free is above 253, for any node id, base and mask.
THEOREM GeneratedAlwaysFits == ASSUME I!InterfacesAssumption PROVE I!Spec => []I!GeneratedFits
<1>1. I!Init => IfaceInv /\ GenipReply
  BY IfaceInit DEF I!Init, GenipReply
<1>2. IfaceInv /\ GenipReply /\ [I!Next]_(I!vars) => (IfaceInv /\ GenipReply)'
  BY IfaceStep, GenipStep
<1>3. GenipReply => I!GeneratedFits
  BY GenipFits
<1> QED BY <1>1, <1>2, <1>3, PTL DEF I!Spec


(***************************************************************************)
(* What status reports when callers bring up only what it reports as down: *)
(* then a name has one entry, a device that is up has the address of its   *)
(* profile, and an up that fails leaves the list as it was.                *)
(***************************************************************************)

OneEntryEach ==
    \A i, j \in 1..Len(ifaces) : ifaces[i].name = ifaces[j].name => i = j

EntriesHold ==
    \A i \in 1..Len(ifaces) :
        /\ ifaces[i].profile # NULL
        /\ ifaces[i].name \in Devices => applied[ifaces[i].name] \in {NULL, ifaces[i].profile}

AppliedIsListed ==
    \A n \in Devices : applied[n] # NULL => \E i \in 1..Len(ifaces) : ifaces[i].name = n

UpIsApplied == \A n \in Devices : address[n] # Down => applied[n] # NULL

Configured == I!TypeOK /\ OneEntryEach /\ EntriesHold /\ AppliedIsListed /\ UpIsApplied

\* The list then answers with the profile of a device that has one.
LEMMA ListAnswers ==
    ASSUME I!InterfacesAssumption, Configured, NEW name \in Devices
    PROVE  applied[name] = NULL \/ applied[name] = I!co_iface_profile(name)
<1>1. ifaces \in Seq(I!Entry)
  BY DEF Configured, I!TypeOK
<1> DEFINE i == I!Position(ifaces, name)
<1>2. /\ i \in 0..Len(ifaces)
      /\ i = 0 => \A j \in 1..Len(ifaces) : ifaces[j].name # name
      /\ i # 0 => ifaces[i].name = name
  BY <1>1, PositionFacts
<1>3. I!co_iface_profile(name) = IF i = 0 THEN NULL ELSE ifaces[i].profile
  BY DEF I!co_iface_profile
<1> HIDE DEF i
<1>4. CASE i = 0
  BY <1>2, <1>3, <1>4 DEF Configured, AppliedIsListed
<1>5. CASE i # 0
  <2>1. i \in 1..Len(ifaces)
    BY <1>1, <1>2, <1>5
  <2> QED BY <1>2, <1>3, <1>5, <2>1 DEF Configured, EntriesHold
<1> QED BY <1>4, <1>5

\* A name status reports as down has no entry.
LEMMA DownIsUnlisted ==
    ASSUME Configured, NEW name, I!co_iface_profile(name) = NULL
    PROVE  /\ \A j \in 1..Len(ifaces) : ifaces[j].name # name
           /\ name \in Devices => applied[name] = NULL
<1>1. ifaces \in Seq(I!Entry)
  BY DEF Configured, I!TypeOK
<1> DEFINE i == I!Position(ifaces, name)
<1>2. /\ i \in 0..Len(ifaces)
      /\ i = 0 => \A j \in 1..Len(ifaces) : ifaces[j].name # name
  BY <1>1, PositionFacts
<1>3. i # 0 => ifaces[i].profile = NULL
  BY DEF I!co_iface_profile
<1> HIDE DEF i
<1>4. i = 0
  <2>1. CASE i # 0
    <3>1. i \in 1..Len(ifaces)
      BY <1>1, <1>2, <2>1
    <3> QED BY <1>3, <2>1, <3>1 DEF Configured, EntriesHold
  <2> QED BY <2>1
<1>5. \A j \in 1..Len(ifaces) : ifaces[j].name # name
  BY <1>2, <1>4
<1> QED BY <1>5 DEF Configured, AppliedIsListed

\* A name that has no entry and is added and removed leaves the list as it was.
LEMMA AddedAndRemoved ==
    ASSUME NEW S, NEW list \in Seq(S), NEW e \in S, NEW name, e.name = name,
           \A j \in 1..Len(list) : list[j].name # name
    PROVE  I!RemoveFrom(Append(list, e), name) = list
<1> DEFINE longer == Append(list, e)
           i == I!Position(longer, name)
           r == I!RemoveFrom(longer, name)
<1>1. /\ longer \in Seq(S) /\ Len(longer) = Len(list) + 1 /\ longer[Len(longer)] = e
      /\ \A j \in 1..Len(list) : longer[j] = list[j]
  BY EntryAdded
<1> HIDE DEF longer
<1>2. /\ i \in 0..Len(longer)
      /\ i = 0 => \A j \in 1..Len(longer) : longer[j].name # name
      /\ i # 0 => longer[i].name = name
  BY <1>1, PositionFacts
<1>3. /\ r \in Seq(S)
      /\ i # 0 => /\ Len(r) = Len(longer) - 1
                  /\ \A j \in 1..Len(r) : r[j] = IF j < i THEN longer[j] ELSE longer[j + 1]
  BY <1>1, RemoveFromFacts
<1> HIDE DEF i, r
<1>4. i = Len(longer)
  <2>1. i # 0
    <3>1. Len(longer) \in 1..Len(longer)
      BY <1>1
    <3> QED BY <1>1, <1>2, <3>1
  <2>2. ~(i \in 1..Len(list))
    BY <1>1, <1>2, <2>1
  <2> QED BY <1>1, <1>2, <2>1, <2>2
<1>5. Len(r) = Len(list) /\ \A j \in 1..Len(list) : r[j] = list[j]
  BY <1>1, <1>3, <1>4
<1>6. r = list
  BY <1>3, <1>5
<1> QED BY <1>6 DEF r, longer

LEMMA UpSucceedsConfigured ==
    ASSUME I!InterfacesAssumption, IfaceInv, IfaceInv', Configured,
           NEW name \in IfNames, NEW p \in DOMAIN Profiles, I!UpSucceeds(name, p),
           \A j \in 1..Len(ifaces) : ifaces[j].name # name,
           name \in Devices => applied[name] = NULL
    PROVE  Configured'
<1> DEFINE e == [name |-> name, profile |-> p, ctrl |-> name \in Wireless]
<1>1. /\ I!TypeOK /\ I!TypeOK' /\ ifaces \in Seq(I!Entry) /\ e \in I!Entry
      /\ NULL \notin DOMAIN Profiles /\ Wireless \subseteq Devices
  BY DEF IfaceInv, I!TypeOK, I!Entry, I!InterfacesAssumption
<1>2. /\ ifaces' = Append(ifaces, e)
      /\ \A n \in Devices : n # name => address'[n] = address[n] /\ applied'[n] = applied[n]
      /\ name \in Devices => \/ applied'[name] = p
                             \/ address'[name] = address[name] /\ applied'[name] = NULL
  BY <1>1, SetIpFacts DEF I!UpSucceeds
<1>3. e.name = name /\ e.profile = p
  OBVIOUS
<1> HIDE DEF e
<1>4. /\ ifaces' \in Seq(I!Entry) /\ Len(ifaces') = Len(ifaces) + 1 /\ ifaces'[Len(ifaces')] = e
      /\ \A j \in 1..Len(ifaces) : ifaces'[j] = ifaces[j]
  BY <1>1, <1>2, EntryAdded
<1>5. \A j \in 1..Len(ifaces') : j \in 1..Len(ifaces) \/ j = Len(ifaces')
  BY <1>1, <1>4
<1>6. OneEntryEach'
  BY <1>3, <1>4, <1>5 DEF Configured, OneEntryEach
<1>7. EntriesHold'
  <2> SUFFICES ASSUME NEW j \in 1..Len(ifaces')
               PROVE  /\ ifaces'[j].profile # NULL
                      /\ ifaces'[j].name \in Devices =>
                            applied'[ifaces'[j].name] \in {NULL, ifaces'[j].profile}
    BY DEF EntriesHold
  <2>1. CASE j \in 1..Len(ifaces)
    BY <1>1, <1>2, <1>4, <2>1 DEF Configured, EntriesHold
  <2>2. CASE j = Len(ifaces')
    BY <1>1, <1>2, <1>3, <1>4, <2>2
  <2> QED BY <1>5, <2>1, <2>2
<1>8. AppliedIsListed'
  <2> SUFFICES ASSUME NEW n \in Devices, applied'[n] # NULL
               PROVE  \E i \in 1..Len(ifaces') : ifaces'[i].name = n
    BY DEF AppliedIsListed
  <2>1. CASE n = name
    <3>1. Len(ifaces') \in 1..Len(ifaces')
      BY <1>1, <1>4
    <3> QED BY <1>3, <1>4, <2>1, <3>1
  <2>2. CASE n # name
    <3>1. applied[n] # NULL
      BY <1>1, <1>2, <2>2 DEF I!TypeOK
    <3>2. PICK i \in 1..Len(ifaces) : ifaces[i].name = n
      BY <3>1 DEF Configured, AppliedIsListed
    <3>3. i \in 1..Len(ifaces')
      BY <1>1, <1>4
    <3> QED BY <1>4, <3>2, <3>3
  <2> QED BY <2>1, <2>2
<1>9. UpIsApplied'
  BY <1>1, <1>2 DEF Configured, UpIsApplied
<1> QED BY <1>1, <1>6, <1>7, <1>8, <1>9 DEF Configured

LEMMA UpFailsConfigured ==
    ASSUME I!InterfacesAssumption, IfaceInv', Configured,
           NEW name \in IfNames, NEW p \in DOMAIN Profiles, I!UpFails(name, p),
           \A j \in 1..Len(ifaces) : ifaces[j].name # name
    PROVE  Configured' /\ ifaces' = ifaces
<1> DEFINE e == [name |-> name, profile |-> NULL, ctrl |-> FALSE]
<1>1. ifaces \in Seq(I!Entry) /\ e \in I!Entry /\ e.name = name /\ I!TypeOK /\ I!TypeOK'
  BY DEF Configured, IfaceInv, I!TypeOK, I!Entry
<1>2. ifaces' = I!RemoveFrom(Append(ifaces, e), name) /\ I!TakeDown(name)
  BY DEF I!UpFails
<1> HIDE DEF e
<1>3. ifaces' = ifaces
  BY <1>1, <1>2, AddedAndRemoved
<1>4. \A n \in Devices : /\ applied'[n] = IF n = name THEN NULL ELSE applied[n]
                         /\ address'[n] = IF n = name THEN Down ELSE address[n]
  BY <1>1, <1>2 DEF I!TakeDown, I!TypeOK
<1> QED BY <1>1, <1>3, <1>4
  DEF Configured, OneEntryEach, EntriesHold, AppliedIsListed, UpIsApplied

LEMMA DownConfigured ==
    ASSUME I!InterfacesAssumption, IfaceInv', Configured, NEW name \in IfNames,
           I!CMD_down(name), I!Position(ifaces, name) # 0
    PROVE  Configured'
<1> DEFINE i == I!Position(ifaces, name)
<1>1. ifaces \in Seq(I!Entry) /\ I!TypeOK /\ I!TypeOK'
  BY DEF Configured, IfaceInv, I!TypeOK
<1>2. ifaces' = I!RemoveFrom(ifaces, name) /\ I!TakeDown(name)
  BY DEF I!CMD_down
<1>3. /\ i \in 1..Len(ifaces) /\ ifaces[i].name = name
      /\ ifaces' \in Seq(I!Entry) /\ Len(ifaces') = Len(ifaces) - 1
      /\ \A j \in 1..Len(ifaces') : ifaces'[j] = IF j < i THEN ifaces[j] ELSE ifaces[j + 1]
  BY <1>1, <1>2, PositionFacts, RemoveFromFacts
<1>4. \A j \in 1..Len(ifaces) :
         ifaces[j].name # name => \E k \in 1..Len(ifaces') : ifaces'[k] = ifaces[j]
  BY <1>1, <1>2, OthersStay
<1> HIDE DEF i
<1>5. \A n \in Devices : /\ applied'[n] = IF n = name THEN NULL ELSE applied[n]
                         /\ address'[n] = IF n = name THEN Down ELSE address[n]
  BY <1>1, <1>2 DEF I!TakeDown, I!TypeOK
\* The place in the old list of an entry of the new one.
<1> DEFINE Was(j) == IF j < i THEN j ELSE j + 1
<1>6. \A j \in 1..Len(ifaces') :
         Was(j) \in 1..Len(ifaces) /\ Was(j) # i /\ ifaces'[j] = ifaces[Was(j)]
  BY <1>1, <1>3
<1>7. \A j, k \in 1..Len(ifaces') : Was(j) = Was(k) => j = k
  BY <1>1, <1>3
<1> HIDE DEF Was
<1>8. OneEntryEach'
  BY <1>6, <1>7 DEF Configured, OneEntryEach
<1>9. EntriesHold'
  <2> SUFFICES ASSUME NEW j \in 1..Len(ifaces')
               PROVE  /\ ifaces'[j].profile # NULL
                      /\ ifaces'[j].name \in Devices =>
                            applied'[ifaces'[j].name] \in {NULL, ifaces'[j].profile}
    BY DEF EntriesHold
  <2>1. ifaces'[j].name # name
    BY <1>3, <1>6 DEF Configured, OneEntryEach
  <2> QED BY <1>5, <1>6, <2>1 DEF Configured, EntriesHold
<1>10. AppliedIsListed'
  <2> SUFFICES ASSUME NEW n \in Devices, applied'[n] # NULL
               PROVE  \E j \in 1..Len(ifaces') : ifaces'[j].name = n
    BY DEF AppliedIsListed
  <2>1. n # name /\ applied[n] # NULL
    BY <1>5
  <2> QED BY <1>4, <2>1 DEF Configured, AppliedIsListed
<1>11. UpIsApplied'
  BY <1>5 DEF Configured, UpIsApplied
<1> QED BY <1>1, <1>8, <1>9, <1>10, <1>11 DEF Configured

LEMMA OthersConfigured ==
    ASSUME IfaceInv', Configured, UNCHANGED <<ifaces, address, applied>>
    PROVE  Configured'
BY DEF IfaceInv, Configured, OneEntryEach, EntriesHold, AppliedIsListed, UpIsApplied

LEMMA ConfiguredStep ==
    ASSUME I!InterfacesAssumption, Polite, IfaceInv, Configured, [I!Next]_(I!vars)
    PROVE  Configured'
<1>1. IfaceInv'
  BY IfaceStep
<1>2. ASSUME NEW name \in IfNames, NEW p \in DOMAIN Profiles, I!CMD_up(name, p) PROVE Configured'
  <2>1. /\ \A j \in 1..Len(ifaces) : ifaces[j].name # name
        /\ name \in Devices => applied[name] = NULL
    BY <1>2, DownIsUnlisted DEF I!CMD_up
  <2>2. I!UpSucceeds(name, p) \/ I!UpFails(name, p)
    BY <1>2 DEF I!CMD_up
  <2> QED BY <1>1, <2>1, <2>2, UpSucceedsConfigured, UpFailsConfigured
<1>3. ASSUME NEW name \in IfNames, I!CMD_down(name) PROVE Configured'
  <2>1. CASE I!Position(ifaces, name) = 0
    BY <1>1, <1>3, <2>1, OthersConfigured DEF I!CMD_down
  <2>2. CASE I!Position(ifaces, name) # 0
    BY <1>1, <1>3, <2>2, DownConfigured
  <2> QED BY <2>1, <2>2
<1>4. ASSUME NEW name \in IfNames, I!CMD_status(name) \/ I!CMD_state(name) PROVE Configured'
  BY <1>1, <1>4, OthersConfigured DEF I!CMD_status, I!CMD_state
<1>5. ASSUME NEW id \in NodeIds, I!CMD_nodeid(id) PROVE Configured'
  BY <1>1, <1>5, OthersConfigured DEF I!CMD_nodeid
<1>6. ASSUME NEW p \in DOMAIN Profiles, NEW gw \in BOOLEAN, Genip(p, gw) PROVE Configured'
  BY <1>1, <1>6, OthersConfigured DEF Genip, I!CMD_genip
<1>7. ASSUME NEW p \in DOMAIN Profiles, ProfileEdited(p) PROVE Configured'
  <2>1. UNCHANGED <<ifaces, address, applied>>
    BY <1>7 DEF ProfileEdited, I!ProfileCreated, I!ProfileDeleted, I!CMD_set
  <2> QED BY <1>1, <2>1, OthersConfigured
<1>8. CASE UNCHANGED I!vars
  BY <1>1, <1>8, OthersConfigured DEF I!vars
<1> QED BY <1>2, <1>3, <1>4, <1>5, <1>6, <1>7, <1>8 DEF I!Next, Genip, ProfileEdited

LEMMA StatusStep ==
    ASSUME I!InterfacesAssumption, IfaceInv, IfaceInv', Configured, I!StatusTells,
           [I!Next]_(I!vars)
    PROVE  I!StatusTells'
<1>1. ASSUME NEW name \in IfNames, I!CMD_status(name) PROVE I!StatusTells'
  <2>1. answer' = <<"status", name, I!co_iface_profile(name)>> /\ UNCHANGED <<address, applied>>
    BY <1>1 DEF I!CMD_status
  <2>2. name \in Devices /\ address[name] # Down =>
           applied[name] # NULL /\ applied[name] = I!co_iface_profile(name)
    BY ListAnswers DEF Configured, UpIsApplied
  <2>3. answer'[2] = name /\ answer'[3] = I!co_iface_profile(name)
    BY <2>1
  <2> QED BY <2>1, <2>2, <2>3 DEF I!StatusTells
<1>2. CASE answer'[1] # "status"
  BY <1>2 DEF I!StatusTells
<1>3. ASSUME NEW name \in IfNames, NEW p \in DOMAIN Profiles, I!CMD_up(name, p)
      PROVE  answer'[1] # "status"
  <2>1. answer'[1] = "up"
    BY <1>3 DEF I!CMD_up, I!UpSucceeds, I!UpFails
  <2> QED BY <2>1
<1>4. ASSUME NEW name \in IfNames, I!CMD_down(name) \/ I!CMD_state(name)
      PROVE  answer'[1] # "status"
  <2>1. answer'[1] \in {"down", "state"}
    BY <1>4 DEF I!CMD_down, I!CMD_state
  <2> QED BY <2>1
<1>5. ASSUME NEW id \in NodeIds, I!CMD_nodeid(id) PROVE answer'[1] # "status"
  BY <1>5 DEF I!CMD_nodeid
<1>6. ASSUME NEW p \in DOMAIN Profiles, NEW gw \in BOOLEAN, Genip(p, gw)
      PROVE  answer'[1] # "status"
  BY <1>6 DEF Genip, I!CMD_genip
<1>7. ASSUME NEW p \in DOMAIN Profiles, ProfileEdited(p) PROVE answer'[1] # "status"
  <2>1. answer'[1] \in {"new", "delete", "set"}
    BY <1>7 DEF ProfileEdited, I!ProfileCreated, I!ProfileDeleted, I!CMD_set
  <2> QED BY <2>1
<1>8. CASE UNCHANGED I!vars
  BY <1>8 DEF I!vars, I!StatusTells
<1> QED BY <1>1, <1>2, <1>3, <1>4, <1>5, <1>6, <1>7, <1>8 DEF I!Next, Genip, ProfileEdited

LEMMA ConfiguredInit ==
    ASSUME I!InterfacesAssumption, I!Init PROVE Configured /\ I!StatusTells
<1>1. I!TypeOK
  BY IfaceInit DEF IfaceInv
<1>2. OneEntryEach /\ EntriesHold /\ AppliedIsListed /\ UpIsApplied
  BY DEF I!Init, OneEntryEach, EntriesHold, AppliedIsListed, UpIsApplied
<1>3. I!StatusTells
  BY DEF I!Init, I!StatusTells
<1> QED BY <1>1, <1>2, <1>3 DEF Configured

\* A device that is up is never reported as down, nor under another profile than
\* the one its address is of, as long as callers bring up only what status
\* reports as down: for any interfaces, profiles and node ids, whatever fails,
\* is undone, edited or deleted in between.
THEOREM StatusAlwaysTells ==
    ASSUME I!InterfacesAssumption, Polite
    PROVE  I!Spec => []I!StatusTells
<1>1. I!Init => IfaceInv /\ Configured /\ I!StatusTells
  BY IfaceInit, ConfiguredInit
<1>2. IfaceInv /\ Configured /\ I!StatusTells /\ [I!Next]_(I!vars)
         => (IfaceInv /\ Configured /\ I!StatusTells)'
  BY IfaceStep, ConfiguredStep, StatusStep
<1> QED BY <1>1, <1>2, PTL DEF I!Spec

-----------------------------------------------------------------------------
(* The daemon as a whole: its behaviours are those of its parts.           *)

LEMMA PartsRun == DaemonSpec => CommandsSpec /\ L!Spec /\ I!Spec
<1>1. DaemonInit => CommandsInit /\ L!Init /\ I!Init
  BY DEF DaemonInit
<1>2. [DaemonNext]_daemonVars =>
          [CommandsNext]_commandVars /\ [L!Next]_(L!vars) /\ [I!Next]_(I!vars)
  BY DEF DaemonNext, daemonVars, lifecycleVars, interfaceVars, L!vars, L!own, I!vars
<1> QED BY <1>1, <1>2, PTL DEF DaemonSpec, CommandsSpec, L!Spec, I!Spec

\* A daemon that serves is reachable, after any kills and restarts, and has
\* started its plugins, if copies run one at a time and no plugin refuses.
THEOREM DaemonIsReady ==
    ASSUME L!LifecycleAssumption, Alone, Startable = Loadable
    PROVE  DaemonSpec => []RunningIsReady
<1>1. L!RunningIsReady => RunningIsReady
  BY DEF RunningIsReady
<1> QED BY <1>1, PartsRun, AlwaysReady, PTL

\* No plugin is shut down twice, whatever the walk over the list finds in
\* freed memory; if it finds what was there, an exit has shut down all of them.
THEOREM DaemonShutsOnce == ASSUME L!LifecycleAssumption PROVE DaemonSpec => []ShutOnce
BY PartsRun, ShutsOnce, PTL DEF ShutOnce

\* A device that is up has an entry with the profile it was set up with, after
\* any sequence of ups, failing ups and downs, of any number of interfaces.
THEOREM DaemonListsUps == ASSUME I!InterfacesAssumption PROVE DaemonSpec => []UpIsListed
BY PartsRun, UpAlwaysListed, PTL DEF UpIsListed

\* An address genip generates is in the subnet it was asked for, and no byte the
\* mask leaves free is above 253, for any node id, subnet and mask.
THEOREM DaemonGeneratesFits == ASSUME I!InterfacesAssumption PROVE DaemonSpec => []GeneratedFits
BY PartsRun, GeneratedAlwaysFits, PTL DEF GeneratedFits

\* A device that is up is never reported as down, nor under another profile than
\* the one its address is of, as long as callers bring up only what status
\* reports as down: for any interfaces, profiles and node ids, whatever fails,
\* is undone, edited or deleted in between.
THEOREM DaemonStatusTells ==
    ASSUME I!InterfacesAssumption, Polite
    PROVE  DaemonSpec => []StatusTells
<1>1. I!StatusTells => StatusTells
  BY DEF StatusTells
<1> QED BY <1>1, PartsRun, StatusAlwaysTells, PTL

=============================================================================
