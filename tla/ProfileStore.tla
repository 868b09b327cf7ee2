---------------------------- MODULE ProfileStore ----------------------------
(***************************************************************************)
(* What the users of profiles rely on: at most one profile of a name, in   *)
(* memory while the daemon runs, and at most one file of a name on disk.   *)
(* A change stays in memory until it is saved; what is saved, and nothing  *)
(* else, is there after a restart; what is deleted stays away.  A file     *)
(* that is damaged excuses the restart from loading files, but not from    *)
(* loading them wrongly.                                                   *)
(***************************************************************************)
CONSTANTS
    Names, Keys, Values, Default,
    Unwritable,     \* the values a file cannot hold
    Damaged

VARIABLES
    on,         \* the daemon runs
    mem,        \* the profile of each name that is in memory
    disk,       \* the profile of each name that is saved
    settings,   \* the global profile
    saved       \* the global profile as it is saved

vars == <<on, mem, disk, settings, saved>>

Data == [Keys -> Values]
Nothing == [n \in {} |-> Default]

Put(f, n, d) == [m \in DOMAIN f \cup {n} |-> IF m = n THEN d ELSE f[m]]
Drop(f, n) == [m \in DOMAIN f \ {n} |-> f[m]]

Writable(d) == \A k \in Keys : d[k] \notin Unwritable

Init ==
    /\ on = FALSE
    /\ mem = Nothing /\ disk = Nothing
    /\ settings = Default /\ saved = Default

Create(n) ==
    /\ on /\ n \notin DOMAIN mem
    /\ mem' = Put(mem, n, Default)
    /\ UNCHANGED <<on, disk, settings, saved>>

Change(n, k, v) ==
    /\ on /\ n \in DOMAIN mem
    /\ mem' = Put(mem, n, [mem[n] EXCEPT ![k] = v])
    /\ UNCHANGED <<on, disk, settings, saved>>

Delete(n) ==
    /\ on /\ n \in DOMAIN mem
    /\ mem' = Drop(mem, n)
    /\ disk' = Drop(disk, n)
    /\ UNCHANGED <<on, settings, saved>>

\* Profile n is saved under the name m.
Save(n, m) ==
    /\ on /\ n \in DOMAIN mem
    /\ Writable(mem[n])
    /\ disk' = Put(disk, m, mem[n])
    /\ UNCHANGED <<on, mem, settings, saved>>

ChangeSettings(k, v) ==
    /\ on
    /\ settings' = [settings EXCEPT ![k] = v]
    /\ UNCHANGED <<on, mem, disk, saved>>

SaveSettings ==
    /\ on
    /\ Writable(settings)
    /\ saved' = settings
    /\ UNCHANGED <<on, mem, disk, settings>>

\* A save goes wrong, and the daemon perhaps with it.
Damage ==
    /\ on
    /\ \/ \E m \in Names : disk' = Put(disk, m, Damaged) /\ UNCHANGED saved
       \/ saved' = Damaged /\ UNCHANGED disk
    /\ \/ UNCHANGED <<on, mem, settings>>
       \/ on' = FALSE /\ mem' = Nothing /\ settings' = Default

Stop ==
    /\ on
    /\ on' = FALSE /\ mem' = Nothing /\ settings' = Default
    /\ UNCHANGED <<disk, saved>>

Start ==
    /\ ~on /\ on'
    /\ DOMAIN mem' \subseteq DOMAIN disk
    /\ \A n \in DOMAIN mem' : disk[n] # Damaged => mem'[n] = disk[n]
    /\ (\A n \in DOMAIN disk : disk[n] # Damaged) => mem' = disk
    /\ saved # Damaged => settings' = saved
    /\ UNCHANGED <<disk, saved>>

\* The administrator writes or removes files.
Install ==
    /\ \/ \E n \in Names : /\ \/ \E d \in Data : disk' = Put(disk, n, d)
                              \/ disk' = Drop(disk, n)
                           /\ UNCHANGED saved
       \/ saved' \in Data /\ UNCHANGED disk
    /\ UNCHANGED <<on, mem, settings>>

Next ==
    \/ \E n \in Names : Create(n) \/ Delete(n) \/ \E m \in Names : Save(n, m)
    \/ \E n \in Names, k \in Keys, v \in Values : Change(n, k, v)
    \/ \E k \in Keys, v \in Values : ChangeSettings(k, v)
    \/ SaveSettings \/ Damage \/ Stop \/ Start \/ Install

Spec == Init /\ [][Next]_vars

=============================================================================
