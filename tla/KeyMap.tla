------------------------------- MODULE KeyMap -------------------------------
(***************************************************************************)
(* What a tree of commotiond promises its users: a map from keys to        *)
(* values.  `ret` is the last call and what it returned.                   *)
(***************************************************************************)
EXTENDS Functions

CONSTANTS Keys, Values, NULL, Fault

VARIABLES
    map,        \* the keys that have a value, with it
    retired,    \* the keys that had a value and were deleted
    ret

Put(call, k, v) ==
    /\ map' = [x \in DOMAIN map \cup {k} |-> IF x = k THEN v ELSE map[x]]
    /\ retired' = retired \ {k}
    /\ ret' = <<call, k, 1>>

\* A key that is there is refused; one that was deleted may be.
Insert(k, v) ==
    \/ k \notin DOMAIN map /\ Put("insert", k, v)
    \/ /\ k \in DOMAIN map \cup retired
       /\ ret' = <<"insert", k, 0>>
       /\ UNCHANGED <<map, retired>>

Force(k, v) == Put("force", k, v)

Find(k) ==
    /\ ret' = <<"find", k, IF k \in DOMAIN map THEN map[k] ELSE NULL>>
    /\ UNCHANGED <<map, retired>>

\* Deleting a key that never was there is the caller's mistake.
Delete(k) ==
    \/ /\ k \in DOMAIN map
       /\ map' = Restrict(map, DOMAIN map \ {k})
       /\ retired' = retired \cup {k}
       /\ ret' = <<"delete", k, map[k]>>
    \/ /\ k \notin DOMAIN map
       /\ \E r \in {NULL, Fault} : ret' = <<"delete", k, r>>
       /\ UNCHANGED <<map, retired>>

Init == map = <<>> /\ retired = {} /\ ret = <<"create", NULL, NULL>>

Destroy == map' = <<>> /\ retired' = {} /\ ret' = <<"destroy", NULL, NULL>>

Next ==
    \/ \E k \in Keys, v \in Values : Insert(k, v) \/ Force(k, v)
    \/ \E k \in Keys : Find(k) \/ Delete(k)
    \/ Destroy

Spec == Init /\ [][Next]_<<map, retired, ret>>

=============================================================================
