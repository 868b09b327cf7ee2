------------------------------- MODULE Alarms -------------------------------
(***************************************************************************)
(* How the Serval plugin runs on the event loop: its overrides of Serval's *)
(* schedule, unschedule, watch and unwatch (plugins/serval-dna/            *)
(* serval-dna.c), the sockets of the loop (co_loop_add_socket,             *)
(* co_loop_remove_socket and _co_loop_poll_sockets of src/loop.c) and      *)
(* their descriptors (src/socket.c).                                       *)
(*                                                                         *)
(* An alarm (struct sched_ent) is known twice for its time, to the plugin  *)
(* (timer_alarms) and to the loop (timers, by its address), and three      *)
(* times for its descriptor: sock_alarms, the loop's sockets, the kernel's *)
(* epoll set.  Serval's own code is external: it opens descriptors and     *)
(* calls the four functions from the plugin's start and from callbacks.    *)
(* The kernel reuses the numbers of closed descriptors.                    *)
(***************************************************************************)
EXTENDS Integers, Sequences, SequencesExt

CONSTANTS
    Alarms,     \* the sched_ents
    Fds,        \* descriptor numbers
    Socks,      \* addresses of co_socket_t
    Instants,   \* CLOCK_REALTIME, in microseconds
    Times,      \* what alarm->alarm is set to, in milliseconds
    Never,      \* TIME_NEVER_WILL
    MaxEvents,  \* bound on the events of one epoll_wait
    Free, Other, NULL

\* What is assumed of the constants.
AlarmsAssumption ==
    /\ Instants \subseteq Nat /\ Times \subseteq Nat /\ Never \notin Times
    /\ MaxEvents \in Nat
    /\ {Free, Other} \cap Alarms = {} /\ NULL \notin Alarms \cup Fds \cup Socks

VARIABLES
    timer_alarms, sock_alarms,  \* the plugin's lists
    _poll_index,                \* of each alarm: 0, 1 or -1
    fd,                         \* alarm->poll.fd
    timers,                     \* the loop's timers: address and time
    sockets,                    \* the loop's sockets
    live, sockfd,               \* the allocated sockets and their descriptors
    owner,                      \* kernel: who opened each descriptor
    epoll,                      \* kernel: the sockets it polls
    events,                     \* what epoll_wait returned and is not handled yet
    phase, ret, clock

timeVars == <<timer_alarms, timers, clock>>
sockVars == <<sock_alarms, _poll_index, fd, sockets, live, sockfd, owner, epoll>>
vars == <<timeVars, sockVars, events, phase, ret>>

Timer == [alarm : Alarms, time : Times]
Kinds == {"in", "hup", "err"}
Event == [sock : Socks, kind : Kinds]

TypeOK ==
    /\ timer_alarms \in Seq(Alarms) /\ sock_alarms \in Seq(Alarms)
    /\ _poll_index \in [Alarms -> {-1, 0, 1}]
    /\ fd \in [Alarms -> Fds \cup {NULL}]
    /\ timers \subseteq Timer
    /\ sockets \subseteq Socks /\ live \subseteq Socks /\ epoll \subseteq Socks
    /\ sockfd \in [Socks -> Fds \cup {NULL}]
    /\ owner \in [Fds -> Alarms \cup {Free, Other}]
    /\ events \in Seq(Event) /\ Len(events) <= MaxEvents
    /\ phase \in {"setup", "loop", "dispatch", "socket_cb", "timer_cb", "down", "undefined"}
    /\ clock \in Instants

UserCode == phase \in {"setup", "socket_cb", "timer_cb"}

-----------------------------------------------------------------------------
(* Timed alarms.                                                           *)

\* gettime_ms.
Msec(t) == t \div 1000

\* _co_loop_tv_diff of a time in milliseconds and the clock: seconds and
\* microseconds apart, the latter rounded toward zero.
TvDiff(time, t) ==
    LET usec == (time % 1000) * 1000 - (t % 1000000)
    IN  (time \div 1000 - t \div 1000000) * 1000
        + IF usec >= 0 THEN usec \div 1000 ELSE -((-usec) \div 1000)

\* co_loop_add_timer, for the timer of an alarm.
co_loop_add_timer(a, time, t) ==
    /\ TvDiff(time, t) > -1000
    /\ \A timer \in timers : timer.alarm # a

\* The checks of _schedule before it creates a timer.
ScheduleCheck(a, time) ==
    IF Contains(timer_alarms, a) THEN "duplicate"
    ELSE IF time = Never THEN "never"
    ELSE IF Msec(clock) - time > 1000 THEN "late"
    ELSE IF time - Msec(clock) >= 86400000 THEN "far"
    ELSE "ok"

\* The clock is read a second time by co_loop_add_timer.
_schedule(a, time, later) ==
    LET check == ScheduleCheck(a, time)
        added == check = "ok" /\ co_loop_add_timer(a, time, later)
    IN  /\ UserCode
        /\ later >= clock
        /\ clock' = later
        /\ timers' = IF added THEN timers \cup {[alarm |-> a, time |-> time]} ELSE timers
        /\ timer_alarms' = IF added THEN Append(timer_alarms, a) ELSE timer_alarms
        /\ ret' = <<"schedule", IF check = "ok" /\ ~added THEN "refused" ELSE check>>
        /\ UNCHANGED <<sockVars, events, phase>>

_unschedule(a) ==
    /\ UserCode
    /\ timer_alarms' = RemoveFirst(timer_alarms, a)
    /\ timers' = IF Contains(timer_alarms, a) THEN {t \in timers : t.alarm # a} ELSE timers
    /\ ret' = <<"unschedule", IF Contains(timer_alarms, a) THEN "ok" ELSE "failed">>
    /\ UNCHANGED <<clock, sockVars, events, phase>>

\* Mutant: the alarm stays listed while its function runs.
TimerCbKeepsAlarm(timer) ==
    /\ timers' = timers \ {timer}
    /\ phase' = "timer_cb"
    /\ UNCHANGED timer_alarms

\* The loop takes a due timer out of its list and calls serval_timer_cb, which
\* forgets the alarm and then runs its function: it may be scheduled again.
serval_timer_cb(timer) ==
    /\ timers' = timers \ {timer}
    /\ IF Contains(timer_alarms, timer.alarm)
       THEN /\ timer_alarms' = RemoveFirst(timer_alarms, timer.alarm)
            /\ phase' = "timer_cb"
       ELSE UNCHANGED <<timer_alarms, phase>>

\* In any order: that of the list is the subject of module Timers.
FireTimer ==
    /\ phase = "loop"
    /\ \E timer \in timers : TvDiff(timer.time, clock) <= 0 /\ serval_timer_cb(timer)
    /\ UNCHANGED <<clock, sockVars, events, ret>>

-----------------------------------------------------------------------------
(* Sockets.                                                                *)

\* close(): the number is free again and the kernel polls it no longer.
close(f) ==
    /\ owner' = [owner EXCEPT ![f] = Free]
    /\ epoll' = {s \in epoll : sockfd[s] # f}

\* co_loop_get_socket and the test of co_loop_add_socket: the URI of a socket
\* of Serval is the number of its descriptor.
Registered(f) == {s \in sockets : sockfd[s] = f}

\* A new socket for a descriptor, and its registration: the loop's list and
\* the kernel's set.
co_socket_create(s, f) ==
    /\ sockfd' = [sockfd EXCEPT ![s] = f]
    /\ live' = live \cup {s}

co_loop_add_socket(s) ==
    /\ sockets' = sockets \cup {s}
    /\ epoll' = epoll \cup {s}

\* The sockets with a descriptor's number leave the loop, and are closed and
\* freed.
co_loop_remove_socket(f) == sockets' = sockets \ Registered(f)

co_socket_destroy(f) ==
    /\ live' = live \ Registered(f)
    /\ close(f)

\* When the loop refuses the new socket, it is destroyed, and the alarm's
\* descriptor closed.
WatchNew(a, s) ==
    IF Registered(fd[a]) = {}
    THEN /\ co_socket_create(s, fd[a])
         /\ co_loop_add_socket(s)
         /\ _poll_index' = [_poll_index EXCEPT ![a] = 1]
         /\ sock_alarms' = Append(sock_alarms, a)
         /\ ret' = <<"watch", "ok">>
         /\ UNCHANGED <<fd, owner>>
    ELSE /\ close(fd[a])
         /\ ret' = <<"watch", "failed">>
         /\ UNCHANGED <<sock_alarms, _poll_index, fd, sockets, live, sockfd>>

_watch(a) ==
    /\ UserCode
    /\ fd[a] # NULL /\ owner[fd[a]] = a
    /\ IF _poll_index[a] = 1 \/ Contains(sock_alarms, a)
       THEN ret' = <<"watch", "already">> /\ UNCHANGED sockVars
       ELSE \E s \in Socks \ live : WatchNew(a, s)
    /\ UNCHANGED <<timeVars, events, phase>>

\* Mutant: the socket is destroyed and stays with the loop.
UnwatchKeepsSocket(a) ==
    /\ sock_alarms' = RemoveFirst(sock_alarms, a)
    /\ close(fd[a])
    /\ live' = live \ Registered(fd[a])
    /\ _poll_index' = [_poll_index EXCEPT ![a] = -1]
    /\ ret' = <<"unwatch", "ok">>
    /\ UNCHANGED <<fd, sockets, sockfd>>

\* Mutant: the first socket that does not match is taken.
UnwatchFirst(a) ==
    \E s \in sockets :
        /\ sock_alarms' = RemoveFirst(sock_alarms, a)
        /\ sockets' = sockets \ {s}
        /\ live' = live \ {s}
        /\ close(sockfd[s])
        /\ _poll_index' = [_poll_index EXCEPT ![a] = -1]
        /\ ret' = <<"unwatch", "ok">>
        /\ UNCHANGED <<fd, sockfd>>

\* The alarm leaves the plugin's list first; the socket is found by the
\* number of the descriptor, removed from the loop and destroyed, which
\* closes whatever has that number now.
Unwatch(a) ==
    /\ sock_alarms' = RemoveFirst(sock_alarms, a)
    /\ IF Registered(fd[a]) = {}
       THEN /\ ret' = <<"unwatch", "failed">>
            /\ UNCHANGED <<_poll_index, sockets, live, owner, epoll>>
       ELSE /\ co_loop_remove_socket(fd[a])
            /\ co_socket_destroy(fd[a])
            /\ _poll_index' = [_poll_index EXCEPT ![a] = -1]
            /\ ret' = <<"unwatch", "ok">>
    /\ UNCHANGED <<fd, sockfd>>

_unwatch(a) ==
    /\ UserCode
    /\ IF _poll_index[a] = 1 /\ Contains(sock_alarms, a)
       THEN Unwatch(a)
       ELSE ret' = <<"unwatch", "failed">> /\ UNCHANGED sockVars
    /\ UNCHANGED <<timeVars, events, phase>>

\* Serval opens a descriptor for an alarm that has none, and another part of
\* the daemon opens and closes one for itself.
ServalOpens(a, f) ==
    /\ UserCode
    /\ owner[f] = Free
    /\ _poll_index[a] # 1 /\ \A g \in Fds : owner[g] # a
    /\ owner' = [owner EXCEPT ![f] = a]
    /\ fd' = [fd EXCEPT ![a] = f]
    /\ UNCHANGED <<timeVars, sock_alarms, _poll_index, sockets, live, sockfd, epoll, events, phase, ret>>

OtherOpens(f) ==
    /\ phase \in {"loop", "dispatch"}
    /\ owner[f] = Free
    /\ owner' = [owner EXCEPT ![f] = Other]
    /\ UNCHANGED <<timeVars, sock_alarms, _poll_index, fd, sockets, live, sockfd, epoll, events, phase, ret>>

OtherCloses(f) ==
    /\ phase \in {"loop", "dispatch"}
    /\ owner[f] = Other
    /\ owner' = [owner EXCEPT ![f] = Free]
    /\ UNCHANGED <<timeVars, sock_alarms, _poll_index, fd, sockets, live, sockfd, epoll, events, phase, ret>>

-----------------------------------------------------------------------------
(* _co_loop_poll_sockets.                                                  *)

\* epoll_wait: some of the polled sockets, in any order.
EpollWait ==
    /\ phase = "loop"
    /\ \E n \in 1..MaxEvents : \E batch \in [1..n -> [sock : epoll, kind : Kinds]] :
           /\ \A i, j \in 1..n : i # j => batch[i].sock # batch[j].sock
           /\ events' = batch
    /\ phase' = "dispatch"
    /\ UNCHANGED <<timeVars, sockVars, ret>>

\* The alarm serval_socket_cb finds for a socket, by the descriptor.
serval_socket_cb(s) == SelectInSeq(sock_alarms, LAMBDA a : fd[a] = sockfd[s])

\* One event.  The socket is written to before anything else; a socket that
\* has been freed makes the rest undefined.
Dispatch ==
    LET e == Head(events)
    IN  /\ phase = "dispatch" /\ events # <<>>
        /\ \/ /\ e.sock \notin live
              /\ phase' = "undefined"
              /\ UNCHANGED <<sockVars, events>>
           \/ /\ e.sock \in live /\ e.kind = "in"
              /\ IF serval_socket_cb(e.sock) # 0
                 THEN phase' = "socket_cb" /\ UNCHANGED events
                 ELSE events' = Tail(events) /\ UNCHANGED phase
              /\ UNCHANGED sockVars
           \/ /\ e.sock \in live /\ e.kind # "in"
              /\ close(sockfd[e.sock])
              /\ events' = Tail(events)
              /\ UNCHANGED <<sock_alarms, _poll_index, fd, sockets, live, sockfd, phase>>
        /\ UNCHANGED <<timeVars, ret>>

DispatchEnds ==
    /\ phase = "dispatch" /\ events = <<>>
    /\ phase' = "loop"
    /\ UNCHANGED <<timeVars, sockVars, events, ret>>

\* sock->events = 0, after the callback: the socket may be gone.
SocketCbReturns ==
    /\ phase = "socket_cb"
    /\ IF Head(events).sock \in live
       THEN phase' = "dispatch" /\ events' = Tail(events)
       ELSE phase' = "undefined" /\ UNCHANGED events
    /\ UNCHANGED <<timeVars, sockVars, ret>>

CallbackReturns ==
    /\ phase \in {"setup", "timer_cb"}
    /\ phase' = "loop"
    /\ UNCHANGED <<timeVars, sockVars, events, ret>>

\* Mutant: the sockets are freed and not closed.
DestroyLeavesOpen ==
    /\ phase = "loop"
    /\ phase' = "down"
    /\ sockets' = {} /\ live' = live \ sockets /\ epoll' = {} /\ timers' = {}
    /\ timer_alarms' = <<>> /\ sock_alarms' = <<>>
    /\ UNCHANGED <<clock, _poll_index, fd, sockfd, owner, events, ret>>

\* The loop ends: co_loop_destroy closes and frees the sockets that are still
\* registered and frees the lists, then co_plugin_shutdown frees its own.
co_loop_destroy ==
    /\ phase = "loop"
    /\ phase' = "down"
    /\ owner' = [f \in Fds |-> IF Registered(f) # {} THEN Free ELSE owner[f]]
    /\ sockets' = {} /\ live' = live \ sockets /\ epoll' = {} /\ timers' = {}
    /\ timer_alarms' = <<>> /\ sock_alarms' = <<>>
    /\ UNCHANGED <<clock, _poll_index, fd, sockfd, events, ret>>

Tick(t) ==
    /\ phase = "loop"
    /\ t > clock
    /\ clock' = t
    /\ UNCHANGED <<timer_alarms, timers, sockVars, events, phase, ret>>

Init ==
    /\ timer_alarms = <<>> /\ sock_alarms = <<>>
    /\ _poll_index = [a \in Alarms |-> 0]
    /\ fd = [a \in Alarms |-> NULL]
    /\ timers = {} /\ sockets = {} /\ live = {} /\ epoll = {}
    /\ sockfd = [s \in Socks |-> NULL]
    /\ owner = [f \in Fds |-> Free]
    /\ events = <<>>
    /\ phase = "setup"
    /\ ret = <<"init", "ok">>
    /\ clock \in Instants

Calls(a) ==
    \/ \E time \in Times \cup {Never}, later \in Instants : _schedule(a, time, later)
    \/ _unschedule(a)
    \/ _watch(a)
    \/ _unwatch(a)
    \/ \E f \in Fds : ServalOpens(a, f)

Next ==
    \/ \E a \in Alarms : Calls(a)
    \/ \E f \in Fds : OtherOpens(f) \/ OtherCloses(f)
    \/ EpollWait \/ Dispatch \/ DispatchEnds
    \/ SocketCbReturns \/ CallbackReturns
    \/ FireTimer
    \/ \E t \in Instants : Tick(t)
    \/ co_loop_destroy

Spec == Init /\ [][Next]_vars

-----------------------------------------------------------------------------
(* Properties.                                                             *)

\* The plugin and the loop know the same alarms, each once: whatever order
\* callbacks schedule, unschedule and fire in, no timer outlives its alarm
\* and no alarm waits for a timer that is gone.
TimersMatch ==
    /\ \A t1, t2 \in timers : t1.alarm = t2.alarm => t1 = t2
    /\ {t.alarm : t \in timers} = ToSet(timer_alarms)
    /\ IsInjective(timer_alarms)

\* What Serval believes watched is known to the plugin and has exactly one
\* socket of the loop with its descriptor, whatever callbacks unwatch and the
\* kernel reports.  The kernel polls that socket as long as the descriptor is
\* the alarm's: a hangup ends both at once and tells Serval nothing, and a
\* number that is opened again is never polled for the alarm that had it.
WatchedIsPolled ==
    phase # "down" =>
        /\ \A a \in Alarms : _poll_index[a] = 1 <=> Contains(sock_alarms, a)
        /\ \A a \in ToSet(sock_alarms) :
               \E s \in sockets : /\ Registered(fd[a]) = {s}
                                 /\ s \in epoll <=> owner[fd[a]] = a
        /\ epoll \subseteq sockets /\ live = sockets

\* socket.h: co_socket_destroy "closes a socket": an alarm that leaves the
\* plugin's list while the loop runs takes no other number with it than its own;
\* and the descriptor is still its own, unless a hangup has closed it before:
\* only then may the number be somebody else's by now.
ClosesItsOwnStep ==
    phase' # "down" =>
        \A a \in ToSet(sock_alarms) \ ToSet(sock_alarms') :
            \A f \in Fds : owner'[f] # owner[f] =>
                f = fd[a] /\ (owner[f] = a \/ Registered(f) \cap epoll = {})

ClosesItsOwn == [][ClosesItsOwnStep]_vars

\* serval-dna.c: "commotiond will take care of closing sockets": after the
\* shutdown no alarm that was being watched has an open descriptor.
ShutdownCloses ==
    phase = "down" => \A a \in Alarms : _poll_index[a] = 1 => owner[fd[a]] # a

=============================================================================
