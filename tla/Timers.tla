------------------------------- MODULE Timers -------------------------------
(***************************************************************************)
(* The timer list of commotiond's event loop (src/loop.c): timers are      *)
(* created by the code that uses the loop, kept in the list `timers` in    *)
(* order of deadline, and fired from the head by the main loop, whose      *)
(* callbacks may in turn add, set, remove or free any timer.               *)
(*                                                                         *)
(* The loop is single threaded.  "User code" (the daemon before the loop   *)
(* starts, a timer callback, a socket callback) runs in the phases of      *)
(* UserCode; the environment contributes the real-time clock, which an     *)
(* administrator or NTP may step back, and the signal that ends the loop.  *)
(* Times are the code's own: seconds and microseconds, compared by a       *)
(* difference that is truncated to milliseconds.                           *)
(***************************************************************************)
EXTENDS Integers, Sequences, SequencesExt

CONSTANTS
    Timers,     \* the co_timer_t objects (addresses)
    Clients,    \* other addresses used as a timer's ptr, e.g. serval alarms
    Instants,   \* the values CLOCK_REALTIME may take
    Delays,     \* the arguments msecs of co_loop_set_timer
    MaxBack,    \* how often the clock may be stepped back
    NoTimer     \* the NULL pointer

\* A struct timeval.  The clock's microseconds stay below 1000000, a deadline's
\* may be 1000000: co_loop_set_timer does not carry it.
Timeval == [sec : Nat, usec : {u \in Nat : u <= 1000000}]

ASSUME ClockAssumption ==
    Instants \subseteq [sec : Nat, usec : {u \in Nat : u < 1000000}]

ASSUME TimersAssumption ==
    /\ Delays \subseteq Nat
    /\ MaxBack \in Nat
    /\ NoTimer \notin Timers

VARIABLES
    timers,     \* the list of pending timers, head first
    live,       \* the timers that are allocated
    pending,    \* co_timer_t.pending
    deadline,   \* co_timer_t.deadline
    ptr,        \* co_timer_t.ptr: what remove and get match a timer by
    timer_cb,   \* the timers that have a callback
    phase,      \* where the (single) thread of control is
    firing,     \* the timer whose callback runs
    now,        \* the time _co_loop_process_timers was called with, while it runs
    timeout,    \* the timeout epoll_wait was called with, in the poll phase
    loop_exit,
    clock,      \* CLOCK_REALTIME
    back        \* how often the clock has been stepped back

timerVars == <<timers, live, pending, deadline, ptr, timer_cb>>
loopVars == <<phase, firing, now, timeout>>
envVars == <<clock, back>>
vars == <<timerVars, loopVars, loop_exit, envVars>>

Phases == {"down", "setup", "top", "timers", "callback", "poll", "stopped"}
Epoch == [sec |-> 0, usec |-> 0]

LOOP_TIMEOUT == 5

TypeOK ==
    /\ timers \in Seq(Timers)
    /\ live \subseteq Timers
    /\ pending \in [Timers -> BOOLEAN]
    /\ deadline \in [Timers -> Timeval]
    /\ ptr \in [Timers -> Timers \cup Clients]
    /\ timer_cb \subseteq Timers
    /\ phase \in Phases
    /\ firing \in Timers \cup {NoTimer}
    /\ now \in Instants \cup {Epoch}
    /\ timeout \in Int
    /\ loop_exit \in BOOLEAN
    /\ clock \in Instants
    /\ back \in 0..MaxBack

-----------------------------------------------------------------------------
(* Time arithmetic.                                                        *)

\* C's division by 1000, which rounds toward zero.
DivMsec(usec) == IF usec >= 0 THEN usec \div 1000 ELSE -((-usec) \div 1000)

\* The difference in milliseconds.
_co_loop_tv_diff(t1, t2) ==
    (t1.sec - t2.sec) * 1000 + DivMsec(t1.usec - t2.usec)

\* What every comparison of the code asks: t1 is after t2, in milliseconds.
Later(t1, t2) == _co_loop_tv_diff(t1, t2) > 0

\* A faulty After that never carries.
AfterNoCarry(t, msecs) ==
    [sec |-> t.sec + msecs \div 1000, usec |-> t.usec + (msecs % 1000) * 1000]

\* The deadline msecs after t; exactly 1000000 microseconds are not carried.
After(t, msecs) ==
    LET s == t.sec + msecs \div 1000
        u == t.usec + (msecs % 1000) * 1000
    IN  IF u > 1000000 THEN [sec |-> s + 1, usec |-> u % 1000000]
                       ELSE [sec |-> s, usec |-> u]

\* The true order of two times, in microseconds.
Before(t1, t2) == t1.sec * 1000000 + t1.usec < t2.sec * 1000000 + t2.usec

-----------------------------------------------------------------------------
(* The list.                                                               *)

\* The list without the first timer that matches address p.
Unlink(list, p) ==
    LET matches == {i \in 1..Len(list) : ptr[list[i]] = p}
    IN  IF matches = {} THEN list ELSE RemoveAt(list, Min(matches))

\* Some timer in the list matches address p.
Scheduled(list, p) == \E i \in 1..Len(list) : ptr[list[i]] = p

\* A faulty InsertPos that appends.
InsertLast(list, d, i) == i = Len(list) + 1

\* i is the position for deadline d: before the first timer that is later.
InsertPos(list, d, i) ==
    /\ i \in 1..Len(list) + 1
    /\ \A j \in 1..i - 1 : ~Later(deadline[list[j]], d)
    /\ i <= Len(list) => Later(deadline[list[i]], d)

\* The checks of co_loop_add_timer at the time t, for deadline d.
Addable(t, list, d, time) ==
    /\ t \in timer_cb
    /\ _co_loop_tv_diff(d, time) > -1000
    /\ ~Scheduled(list, ptr[t])

-----------------------------------------------------------------------------
(* Operations called by user code.                                         *)

UserCode == phase \in {"setup", "callback", "poll", "stopped"}

co_timer_create(t, d, cb, p) ==
    /\ UserCode
    /\ t \notin live
    /\ live' = live \cup {t}
    /\ pending' = [pending EXCEPT ![t] = FALSE]
    /\ deadline' = [deadline EXCEPT ![t] = d]
    /\ ptr' = [ptr EXCEPT ![t] = p]
    /\ timer_cb' = IF cb THEN timer_cb \cup {t} ELSE timer_cb \ {t}
    /\ UNCHANGED <<timers, loopVars, loop_exit, envVars>>

\* co_obj_free of a timer that its owner has removed, or that has fired.  What
\* it held is forgotten.
co_obj_free(t) ==
    /\ UserCode
    /\ t \in live /\ ~pending[t]
    /\ live' = live \ {t}
    /\ deadline' = [deadline EXCEPT ![t] = Epoch]
    /\ ptr' = [ptr EXCEPT ![t] = t]
    /\ timer_cb' = timer_cb \ {t}
    /\ UNCHANGED <<timers, pending, loopVars, loop_exit, envVars>>

\* A call that fails a check changes nothing and returns 0: a stuttering step.
co_loop_add_timer(t) ==
    /\ UserCode
    /\ t \in live /\ ~pending[t]
    /\ Addable(t, timers, deadline[t], clock)
    /\ \E i \in 1..Len(timers) + 1 :
          /\ InsertPos(timers, deadline[t], i)
          /\ timers' = InsertAt(timers, i, t)
    /\ pending' = [pending EXCEPT ![t] = TRUE]
    /\ UNCHANGED <<live, deadline, ptr, timer_cb, loopVars, loop_exit, envVars>>

\* A faulty co_loop_remove_timer that leaves the flag.
RemoveKeepsPending(t) ==
    /\ UserCode
    /\ t \in live /\ pending[t]
    /\ Scheduled(timers, ptr[t])
    /\ timers' = Unlink(timers, ptr[t])
    /\ UNCHANGED <<live, pending, deadline, ptr, timer_cb, loopVars, loop_exit, envVars>>

co_loop_remove_timer(t) ==
    /\ UserCode
    /\ t \in live /\ pending[t]
    /\ Scheduled(timers, ptr[t])
    /\ timers' = Unlink(timers, ptr[t])
    /\ pending' = [pending EXCEPT ![t] = FALSE]
    /\ UNCHANGED <<live, deadline, ptr, timer_cb, loopVars, loop_exit, envVars>>

\* The clock is read twice, for the deadline and for the check of the deadline:
\* `later` is the second reading.  When the second half fails the timer has
\* already left the list.
co_loop_set_timer(t, msecs, later) ==
    LET rest == IF pending[t] THEN Unlink(timers, ptr[t]) ELSE timers
        kept == pending[t] /\ ~Scheduled(timers, ptr[t])
        d == After(clock, msecs)
    IN  /\ UserCode
        /\ t \in live
        /\ ~Before(later, clock)
        /\ deadline' = [deadline EXCEPT ![t] = d]
        /\ \/ /\ ~kept /\ Addable(t, rest, d, later)
              /\ \E i \in 1..Len(rest) + 1 :
                    /\ InsertPos(rest, d, i)
                    /\ timers' = InsertAt(rest, i, t)
              /\ pending' = [pending EXCEPT ![t] = TRUE]
           \/ /\ kept \/ ~Addable(t, rest, d, later)
              /\ timers' = rest
              /\ pending' = [pending EXCEPT ![t] = kept]
        /\ clock' = later
        /\ UNCHANGED <<live, ptr, timer_cb, loopVars, loop_exit, back>>

\* co_loop_stop, or SIGINT or SIGTERM at any point of the loop.
co_loop_stop ==
    /\ phase # "down"
    /\ ~loop_exit
    /\ loop_exit' = TRUE
    /\ UNCHANGED <<timerVars, loopVars, envVars>>

-----------------------------------------------------------------------------
(* The loop.                                                               *)

co_loop_create ==
    /\ phase = "down"
    /\ phase' = "setup"
    /\ timers' = <<>>
    /\ loop_exit' = FALSE
    /\ UNCHANGED <<live, pending, deadline, ptr, timer_cb, firing, now, timeout, envVars>>

\* The list owns its timers: those still pending are freed with it.
co_loop_destroy ==
    /\ phase \in {"setup", "stopped"}
    /\ phase' = "down"
    /\ timers' = <<>>
    /\ live' = live \ ToSet(timers)
    /\ timer_cb' = timer_cb \ ToSet(timers)
    /\ pending' = [t \in Timers |-> pending[t] /\ t \notin ToSet(timers)]
    /\ deadline' = [t \in Timers |-> IF t \in ToSet(timers) THEN Epoch ELSE deadline[t]]
    /\ ptr' = [t \in Timers |-> IF t \in ToSet(timers) THEN t ELSE ptr[t]]
    /\ UNCHANGED <<firing, now, timeout, loop_exit, envVars>>

co_loop_start ==
    /\ phase \in {"setup", "stopped"}
    /\ phase' = "top"
    /\ UNCHANGED <<timerVars, firing, now, timeout, loop_exit, envVars>>

\* while(!loop_exit) { gettime(&now); process_timers(&now) ...
LoopTop ==
    /\ phase = "top"
    /\ phase' = IF loop_exit THEN "stopped" ELSE "timers"
    /\ now' = IF loop_exit THEN now ELSE clock
    /\ UNCHANGED <<timerVars, firing, timeout, loop_exit, envVars>>

\* A faulty HeadIsDue, off by a millisecond.
HeadIsAlmostDue ==
    timers # <<>> /\ _co_loop_tv_diff(deadline[Head(timers)], now) <= 1

HeadIsDue == timers # <<>> /\ ~Later(deadline[Head(timers)], now)

\* One iteration of _co_loop_process_timers up to the call of the callback.
\* The removal goes by ptr; if it failed the callback would run all the same.
ProcessTimer ==
    /\ phase = "timers"
    /\ HeadIsDue
    /\ timers' = IF pending[Head(timers)] THEN Unlink(timers, ptr[Head(timers)])
                                          ELSE timers
    /\ pending' = [pending EXCEPT ![Head(timers)] = FALSE]
    /\ firing' = Head(timers)
    /\ phase' = "callback"
    /\ UNCHANGED <<live, deadline, ptr, timer_cb, now, timeout, loop_exit, envVars>>

CallbackReturns ==
    /\ phase = "callback"
    /\ phase' = "timers"
    /\ firing' = NoTimer
    /\ UNCHANGED <<timerVars, now, timeout, loop_exit, envVars>>

_co_loop_get_next_deadline(time) ==
    IF timers = <<>> THEN 0 ELSE _co_loop_tv_diff(deadline[Head(timers)], time)

\* A faulty PollTimeout that passes negative values on.
PollTimeoutSigned(next) == IF next < LOOP_TIMEOUT THEN next ELSE LOOP_TIMEOUT

PollTimeout(next) == IF next > 0 /\ next < LOOP_TIMEOUT THEN next ELSE LOOP_TIMEOUT

\* The head is not due, or there is none: read the clock again and poll.  (The
\* second reading has no use past the timeout; now is dead until LoopTop.)
TimersDone ==
    /\ phase = "timers"
    /\ ~HeadIsDue
    /\ now' = Epoch
    /\ timeout' = PollTimeout(_co_loop_get_next_deadline(clock))
    /\ phase' = "poll"
    /\ UNCHANGED <<timerVars, firing, loop_exit, envVars>>

EndPoll ==
    /\ phase = "poll"
    /\ phase' = IF loop_exit THEN "stopped" ELSE "top"
    /\ timeout' = 0
    /\ UNCHANGED <<timerVars, firing, now, loop_exit, envVars>>

\* epoll_wait returns for lack of events: a negative timeout never expires.
PollExpires == timeout >= 0 /\ EndPoll

-----------------------------------------------------------------------------
(* The environment.                                                        *)

Tick ==
    /\ \E c \in Instants : Before(clock, c) /\ clock' = c
    /\ UNCHANGED <<timerVars, loopVars, loop_exit, back>>

StepBack ==
    /\ back < MaxBack
    /\ \E c \in Instants : Before(c, clock) /\ clock' = c
    /\ back' = back + 1
    /\ UNCHANGED <<timerVars, loopVars, loop_exit>>

-----------------------------------------------------------------------------

Init ==
    /\ timers = <<>>
    /\ live = {}
    /\ pending = [t \in Timers |-> FALSE]
    /\ deadline = [t \in Timers |-> Epoch]
    /\ ptr = [t \in Timers |-> t]
    /\ timer_cb = {}
    /\ phase = "down"
    /\ firing = NoTimer
    /\ now = Epoch
    /\ timeout = 0
    /\ loop_exit = FALSE
    /\ clock \in Instants
    /\ back = 0

\* Deadlines given at creation are absolute times, or zero.
Call(t) ==
    \/ \E d \in Instants \cup {Epoch}, cb \in BOOLEAN, p \in Clients \cup {t} :
          co_timer_create(t, d, cb, p)
    \/ co_obj_free(t)
    \/ co_loop_add_timer(t)
    \/ co_loop_remove_timer(t)
    \/ \E msecs \in Delays, later \in Instants : co_loop_set_timer(t, msecs, later)

LoopStep ==
    \/ LoopTop \/ ProcessTimer \/ CallbackReturns \/ TimersDone \/ EndPoll

Next ==
    \/ \E t \in Timers : Call(t)
    \/ co_loop_stop \/ co_loop_create \/ co_loop_destroy \/ co_loop_start
    \/ LoopStep
    \/ Tick \/ StepBack

Spec == Init /\ [][Next]_vars

\* The thread that runs the loop is scheduled, callbacks return, epoll_wait with
\* a timeout ends, and time passes.  User code, signals and steps of the clock
\* owe nothing.
FairSpec ==
    /\ Spec
    /\ WF_vars(LoopTop) /\ WF_vars(ProcessTimer) /\ WF_vars(CallbackReturns)
    /\ WF_vars(TimersDone) /\ WF_vars(PollExpires)
    /\ WF_vars(Tick)

-----------------------------------------------------------------------------
(* Properties.                                                             *)

\* pending is exact: add, set, remove and process_timers (which match list
\* entries by ptr and write the flag of the timer they were given) keep the flag
\* TRUE for exactly the timers in the list, and the list holds no freed timer.
PendingIsListed ==
    /\ \A t \in Timers : pending[t] <=> t \in ToSet(timers)
    /\ ToSet(timers) \subseteq live \cap timer_cb

\* No two list entries share a ptr, so that the search by ptr in
\* co_loop_remove_timer and co_loop_get_timer finds the timer that was meant.
UniquePtrs ==
    \A i, j \in 1..Len(timers) : i # j => ptr[timers[i]] # ptr[timers[j]]

\* co_loop_add_timer keeps the list in chronological order as far as its
\* comparison sees: no entry is later than one behind it, although "later by a
\* millisecond" is not a total order and insertion stops at the first later one.
Chronological ==
    \A i, j \in 1..Len(timers) :
        i < j => ~Later(deadline[timers[i]], deadline[timers[j]])

\* When _co_loop_process_timers stops at a head that is not due, no timer behind
\* it is overdue: looking at the head alone misses nothing.
NoneOverdueLeft ==
    [][phase = "timers" /\ phase' = "poll" =>
          \A t \in ToSet(timers) : ~Later(now, deadline[t])]_vars

\* What the inductive argument needs besides: no list outside the loop's life,
\* and a timer is firing exactly while a callback runs.
ControlOK ==
    /\ phase = "down" => timers = <<>>
    /\ firing # NoTimer <=> phase = "callback"

IInv == TypeOK /\ PendingIsListed /\ UniquePtrs /\ Chronological /\ ControlOK

\* loop.h: co_loop_set_timer "sets timer to expire in msecs from now".  A timer
\* is not fired before its deadline.
NotEarly ==
    [][firing' # firing /\ firing' # NoTimer =>
          ~Before(now, deadline[firing'])]_vars

\* Some call moves the pending timer t to another deadline.
Postpone(t) ==
    pending[t] /\ \E msecs \in Delays, later \in Instants : co_loop_set_timer(t, msecs, later)

\* The loop runs, and t waits for a time that the clock gets to.
Waiting(t) ==
    /\ phase \in {"top", "timers", "callback", "poll"}
    /\ pending[t]
    /\ \E c \in Instants : ~Before(c, deadline[t])

\* A timer does not wait forever for a time that passes: unless it is postponed
\* again and again, it leaves the list or the loop is told to stop.  Callbacks
\* that keep arming other timers (or themselves) for now do not starve it, nor
\* does a poll that does not return.
DueTimersFire ==
    (<>[][\A t \in Timers : ~Postpone(t)]_vars) =>
        \A t \in Timers : Waiting(t) ~> (~Waiting(t) \/ loop_exit)

\* The list implements the service: firing the head is firing a timer that is
\* not later than any other, and a sweep that ends leaves none overdue.
Service == INSTANCE TimerService WITH
    Times <- Timeval,
    due <- [t \in ToSet(timers) |-> deadline[t]],
    sweep <- IF phase \in {"timers", "callback"} THEN <<now>> ELSE <<>>,
    running <- firing

ImplementsService == Service!Spec

=============================================================================
