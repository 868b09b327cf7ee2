---------------------------- MODULE TimerService ----------------------------
(***************************************************************************)
(* What the event loop promises to the owners of timers, without a list:   *)
(* a set of armed timers with their deadlines, swept at certain times.  A  *)
(* sweep at time n fires armed timers one by one; the one it fires is not  *)
(* later than any other armed timer nor than n, and the sweep ends only    *)
(* when no armed timer is overdue.  "Later" is taken to the millisecond,   *)
(* the resolution the loop works at.                                       *)
(***************************************************************************)
EXTENDS Integers

CONSTANTS Timers, NoTimer, Times, Later(_, _)

VARIABLES
    due,        \* the deadline of every armed timer
    sweep,      \* the time of the sweep in progress, or <<>>
    running     \* the timer whose callback runs, or NoTimer

vars == <<due, sweep, running>>

Armed == DOMAIN due

Init ==
    /\ due = [t \in {} |-> 0]
    /\ sweep = <<>>
    /\ running = NoTimer

\* Owners arm and disarm timers outside sweeps and from callbacks.
OwnersTurn == sweep = <<>> \/ running # NoTimer

Arm(t) ==
    /\ OwnersTurn
    /\ t \in Armed' /\ due'[t] \in Times
    /\ due' = [u \in Armed \cup {t} |-> IF u = t THEN due'[t] ELSE due[u]]
    /\ UNCHANGED <<sweep, running>>

Disarm(t) ==
    /\ OwnersTurn
    /\ due' = [u \in Armed \ {t} |-> due[u]]
    /\ UNCHANGED <<sweep, running>>

BeginSweep ==
    /\ sweep = <<>> /\ running = NoTimer
    /\ sweep' # <<>> /\ sweep'[1] \in Times /\ sweep' = <<sweep'[1]>>
    /\ UNCHANGED <<due, running>>

Fire(t) ==
    /\ sweep # <<>> /\ running = NoTimer
    /\ t \in Armed
    /\ ~Later(due[t], sweep[1])
    /\ \A u \in Armed : ~Later(due[t], due[u])
    /\ due' = [u \in Armed \ {t} |-> due[u]]
    /\ running' = t
    /\ UNCHANGED sweep

Return ==
    /\ running # NoTimer
    /\ running' = NoTimer
    /\ UNCHANGED <<due, sweep>>

EndSweep ==
    /\ sweep # <<>> /\ running = NoTimer
    /\ \A u \in Armed : ~Later(sweep[1], due[u])
    /\ sweep' = <<>>
    /\ UNCHANGED <<due, running>>

\* The service is shut down: all timers are disarmed.
Clear ==
    /\ sweep = <<>>
    /\ due' = [t \in {} |-> 0]
    /\ UNCHANGED <<sweep, running>>

Next ==
    \/ \E t \in Timers : Arm(t) \/ Disarm(t) \/ Fire(t)
    \/ BeginSweep \/ Return \/ EndSweep \/ Clear

Spec == Init /\ [][Next]_vars

=============================================================================
