----------------------------- MODULE Lifecycle -----------------------------
(***************************************************************************)
(* The life of commotiond: main and daemon_start of src/daemon.c, the      *)
(* plugins of src/plugin.c and the management socket's path                *)
(* (unix_socket_bind of src/socket.c), for several copies of the daemon on *)
(* one host, each of which may be killed at any point and started again.   *)
(*                                                                         *)
(* The file system is external: the pid file and the path of the socket    *)
(* outlive the daemon that made them.  A step of one copy is atomic only   *)
(* as far as the others and a kill cannot see into it.                     *)
(***************************************************************************)
EXTENDS Sequences, SequencesExt, FiniteSets

CONSTANTS
    Daemons,    \* the copies that may be started
    Plugins,    \* the files of the plugin directory
    Loadable,   \* those dlopen, dlsym and co_plugin_name succeed on
    Startable,  \* those whose co_plugin_init succeeds
    Alone,      \* a copy is started only when no other is alive
    Kind,       \* reads of freed or uninitialised memory find what is expected
    Lost,       \* where a walk is that has not found it
    NULL

\* What is assumed of the constants.
LifecycleAssumption ==
    /\ Startable \subseteq Loadable /\ Loadable \subseteq Plugins
    /\ Alone \in BOOLEAN /\ Kind \in BOOLEAN
    /\ {NULL, Lost} \cap (Daemons \cup Plugins) = {} /\ NULL # Lost

VARIABLES
    stage,      \* how far each copy has come
    files,      \* the plugin files it has still to load
    _plugins,   \* the list of its plugins
    inits,      \* the plugins whose init was called with success
    shut,       \* the plugins whose shutdown was called, in order
    next,       \* the plugin its shutdown has come to, NULL past the end, or Lost
    socket,     \* the path of the socket: who bound it, NULL if there is none
    pidfile     \* the copy the pid file names

own == <<stage, files, _plugins, inits, shut, next>>
vars == <<own, socket, pidfile>>

Stages == {"off", "forked", "loading", "bound", "running", "stopped", "closing", "exited", "undefined"}

TypeOK ==
    /\ stage \in [Daemons -> Stages]
    /\ files \in [Daemons -> SUBSET Plugins]
    /\ _plugins \in [Daemons -> Seq(Loadable)]
    /\ inits \in [Daemons -> SUBSET Loadable]
    /\ shut \in [Daemons -> Seq(Loadable)]
    /\ next \in [Daemons -> Loadable \cup {NULL, Lost}]
    /\ socket \in Daemons \cup {NULL} /\ pidfile \in Daemons \cup {NULL}

Alive(d) == stage[d] \notin {"off", "exited", "undefined"}
To(d, s) == stage' = [stage EXCEPT ![d] = s]

-----------------------------------------------------------------------------
(* Start.                                                                  *)

\* main up to the daemon: with -n, or as a child of init, there is no pid
\* file.  Otherwise it is opened without a lock, and without looking into it,
\* and overwritten.
daemon_start(d, daemonize) ==
    /\ stage[d] \in {"off", "exited"}
    /\ Alone => \A e \in Daemons : ~Alive(e)
    /\ To(d, "forked")
    /\ pidfile' = IF daemonize THEN d ELSE pidfile
    /\ shut' = [shut EXCEPT ![d] = <<>>]
    /\ UNCHANGED <<files, _plugins, inits, next, socket>>

\* co_plugins_init, co_cmds_init, co_loop_create and co_ifaces_create.
co_plugins_init(d) ==
    /\ stage[d] = "forked"
    /\ To(d, "loading")
    /\ files' = [files EXCEPT ![d] = Plugins]
    /\ _plugins' = [_plugins EXCEPT ![d] = <<>>]
    /\ inits' = [inits EXCEPT ![d] = {}]
    /\ UNCHANGED <<shut, next, socket, pidfile>>

\* _co_plugins_load_i, in the order of the directory: the plugin registers its
\* schemas and joins the list.  The error path reads the variable `plugin`,
\* which is not initialised yet when the file cannot be opened, and goes on to
\* the next file unless that kills the daemon.
LoadPlugin(d, p) ==
    /\ stage[d] = "loading" /\ p \in files[d]
    /\ files' = [files EXCEPT ![d] = @ \ {p}]
    /\ _plugins' = IF p \in Loadable THEN [_plugins EXCEPT ![d] = Append(@, p)] ELSE _plugins
    /\ UNCHANGED stage \/ (p \notin Loadable /\ ~Kind /\ To(d, "undefined"))
    /\ UNCHANGED <<inits, shut, next, socket, pidfile>>

\* Mutant: an existing path is left alone; bind fails, and nobody looks.
BindKeepsPath(d) ==
    /\ stage[d] = "loading" /\ files[d] = {}
    /\ To(d, "bound")
    /\ socket' = IF socket = NULL THEN d ELSE socket
    /\ UNCHANGED <<files, _plugins, inits, shut, next, pidfile>>

\* The rest of the start: profiles, commands, then unlink, bind and listen.
unix_socket_bind(d) ==
    /\ stage[d] = "loading" /\ files[d] = {}
    /\ To(d, "bound")
    /\ socket' = d
    /\ UNCHANGED <<files, _plugins, inits, shut, next, pidfile>>

\* co_list_parse stops at the first init that fails.
StartsOf(list) ==
    {list[i] : i \in {k \in DOMAIN list : \A j \in 1..k : list[j] \in Startable}}

\* The loop starts whatever co_plugins_start returns.
co_plugins_start(d) ==
    /\ stage[d] = "bound"
    /\ To(d, "running")
    /\ inits' = [inits EXCEPT ![d] = StartsOf(_plugins[d])]
    /\ UNCHANGED <<files, _plugins, shut, next, socket, pidfile>>

-----------------------------------------------------------------------------
(* End.                                                                    *)

\* SIGINT and SIGTERM are handled once the loop runs; before that, and
\* SIGKILL always, they end the daemon where it is.
Terminate(d) ==
    /\ stage[d] = "running"
    /\ To(d, "stopped")
    /\ UNCHANGED <<files, _plugins, inits, shut, next, socket, pidfile>>

Killed(d) ==
    /\ Alive(d)
    /\ To(d, "off")
    /\ files' = [files EXCEPT ![d] = {}]
    /\ _plugins' = [_plugins EXCEPT ![d] = <<>>]
    /\ inits' = [inits EXCEPT ![d] = {}]
    /\ next' = [next EXCEPT ![d] = NULL]
    /\ shut' = [shut EXCEPT ![d] = <<>>]
    /\ UNCHANGED <<socket, pidfile>>

\* co_loop_destroy, co_cmds_shutdown and co_profiles_shutdown; then the walk
\* over the plugins begins.  The path of the socket stays.
co_loop_destroy(d) ==
    /\ stage[d] = "stopped"
    /\ To(d, "closing")
    /\ next' = [next EXCEPT ![d] = IF _plugins[d] = <<>> THEN NULL ELSE Head(_plugins[d])]
    /\ UNCHANGED <<files, _plugins, inits, shut, socket, pidfile>>

\* Where the walk goes on: after the node of p, which has been freed.
After(d, p) ==
    LET i == SelectInSeq(_plugins[d], LAMBDA q : q = p)
    IN  IF i < Len(_plugins[d]) THEN _plugins[d][i + 1] ELSE NULL

\* Mutant: the walk goes on from the new head of the list, but one too far.
ShutdownSkips(d) ==
    /\ stage[d] = "closing" /\ next[d] \notin {NULL, Lost}
    /\ shut' = [shut EXCEPT ![d] = Append(@, next[d])]
    /\ _plugins' = [_plugins EXCEPT ![d] = RemoveFirst(@, next[d])]
    /\ next' = [next EXCEPT ![d] =
           IF Len(_plugins'[d]) > 1 THEN _plugins'[d][2] ELSE NULL]
    /\ UNCHANGED <<stage, files, inits, socket, pidfile>>

\* _co_plugins_shutdown_i: the plugin is shut down, closed, taken out of the
\* list that is being walked and freed.  The walk then reads the next pointer
\* of the freed node: what it held, nothing, or something that kills.
_co_plugins_shutdown_i(d) ==
    /\ stage[d] = "closing" /\ next[d] \notin {NULL, Lost}
    /\ shut' = [shut EXCEPT ![d] = Append(@, next[d])]
    /\ _plugins' = [_plugins EXCEPT ![d] = RemoveFirst(@, next[d])]
    /\ \/ next' = [next EXCEPT ![d] = After(d, next[d])] /\ UNCHANGED stage
       \/ ~Kind /\ next' = [next EXCEPT ![d] = Lost] /\ (UNCHANGED stage \/ To(d, "undefined"))
    /\ UNCHANGED <<files, inits, socket, pidfile>>

\* The list is freed, full or empty, then the interfaces; main returns.
co_plugins_shutdown(d) ==
    /\ stage[d] = "closing" /\ next[d] \in {NULL, Lost}
    /\ To(d, "exited")
    /\ UNCHANGED <<files, _plugins, inits, shut, next, socket, pidfile>>

Init ==
    /\ stage = [d \in Daemons |-> "off"]
    /\ files = [d \in Daemons |-> {}]
    /\ _plugins = [d \in Daemons |-> <<>>]
    /\ inits = [d \in Daemons |-> {}]
    /\ shut = [d \in Daemons |-> <<>>]
    /\ next = [d \in Daemons |-> NULL]
    /\ socket = NULL
    /\ pidfile = NULL

Step(d) ==
    \/ \E b \in BOOLEAN : daemon_start(d, b)
    \/ co_plugins_init(d)
    \/ \E p \in Plugins : LoadPlugin(d, p)
    \/ unix_socket_bind(d)
    \/ co_plugins_start(d)
    \/ Terminate(d)
    \/ Killed(d)
    \/ co_loop_destroy(d)
    \/ _co_plugins_shutdown_i(d)
    \/ co_plugins_shutdown(d)

Next == \E d \in Daemons : Step(d)

Spec == Init /\ [][Next]_vars

-----------------------------------------------------------------------------
(* Properties.                                                             *)

\* A daemon that serves is the one clients reach, whatever daemons were killed
\* before it and left their path behind, and has started the plugins it loaded
\* (plugin.h: co_plugins_start "starts all loaded plugins").
RunningIsReady ==
    \A d \in Daemons :
        /\ stage[d] \in {"bound", "running"} => socket = d
        /\ stage[d] = "running" => inits[d] = ToSet(_plugins[d])

\* However the walk over the list that shrinks under it goes on, no plugin is
\* shut down twice, and none that is still in the list has been.  If the walk
\* found what was there, an exit in order has shut down all plugins
\* (plugin.h: co_plugins_shutdown "shuts down and closes all plugins").
ShutOnce ==
    \A d \in Daemons :
        /\ IsInjective(shut[d]) /\ ToSet(shut[d]) \cap ToSet(_plugins[d]) = {}
        /\ stage[d] = "exited" /\ next[d] # Lost => _plugins[d] = <<>> /\ ToSet(shut[d]) = Loadable

=============================================================================
