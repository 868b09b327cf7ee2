------------------------------- MODULE Serval -------------------------------
(***************************************************************************)
(* The Serval plugin (plugins/serval-dna): its keyrings, and its alarms    *)
(* with the part of the event loop they use.  They share no state, so a    *)
(* behaviour picks one of them, `part`, and leaves the variables of the    *)
(* other as they are: the reachable states are the union of theirs, and no *)
(* interleaving is lost.                                                   *)
(***************************************************************************)
EXTENDS Keyrings

\* The constants and variables of Alarms.  Its live and ret have other names
\* here, for Keyrings has its own.
CONSTANTS Alarms, Fds, Socks, Instants, Times, Never, MaxEvents, Free, Other
VARIABLES timer_alarms, sock_alarms, _poll_index, fd, timers, sockets, allocated, sockfd, owner,
          epoll, events, phase, called, clock

\* The part a behaviour is about.
VARIABLE part

A == INSTANCE Alarms WITH live <- allocated, ret <- called

alarmVars ==
    <<timer_alarms, sock_alarms, _poll_index, fd, timers, sockets, allocated, sockfd, owner,
      epoll, events, phase, called, clock>>
servalVars == <<part, vars, alarmVars>>

ServalInit == part \in {"keyrings", "alarms"} /\ Init /\ A!Init

ServalNext ==
    /\ UNCHANGED part
    /\ \/ part = "keyrings" /\ Next /\ UNCHANGED alarmVars
       \/ part = "alarms" /\ A!Next /\ UNCHANGED vars

ServalSpec == ServalInit /\ [][ServalNext]_servalVars

-----------------------------------------------------------------------------
(* Properties, as the parts' modules state them.                           *)

\* The type invariants of keyrings and alarms.
PartsTypeOK == TypeOK /\ A!TypeOK

\* The plugin and the loop know the same timers of alarms, each once.
TimersMatch == A!TimersMatch

\* After the shutdown no alarm that was being watched has an open descriptor.
ShutdownCloses == A!ShutdownCloses

\* Unwatching closes the alarm's own descriptor, or the number of one that a
\* hangup has closed before.
ClosesItsOwn == [][A!ClosesItsOwnStep]_alarmVars

\* What Serval believes watched has one socket of the loop, and is polled as long
\* as no hangup has closed its descriptor.
WatchedIsPolled == A!WatchedIsPolled

=============================================================================
