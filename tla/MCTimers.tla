------------------------------ MODULE MCTimers ------------------------------
(* Small instances of Timers for TLC.                                      *)
EXTENDS Timers, TLC

\* Instants within and across a millisecond and a second: 500 microseconds
\* apart in the same second, and the last millisecond before a second's end.
MCInstants ==
    {[sec |-> 9, usec |-> 998700], [sec |-> 9, usec |-> 999500],
     [sec |-> 10, usec |-> 0]}

\* One instant more than a second later, so that a deadline can be refused.
MCInstantsFar ==
    {[sec |-> 9, usec |-> 999000], [sec |-> 9, usec |-> 999600],
     [sec |-> 11, usec |-> 0]}

MCDelays == {0, 1}
MCDelaysFar == {0, 1, 1001}

\* Timers are interchangeable: their identity is only compared.
Symmetric == Permutations(Timers)

=============================================================================
