---------------------------- MODULE ListService ----------------------------
(***************************************************************************)
(* What the lists of commotiond promise their users: a sequence of         *)
(* distinct objects, changed and read by calls that say whether they       *)
(* succeeded.  `ret` is the last call and what it returned.                *)
(***************************************************************************)
EXTENDS Naturals, Sequences, SequencesExt

CONSTANTS Objs, Indices, NULL, Fault

VARIABLES items, ret

Has(o) == Contains(items, o)

Index(o) == CHOOSE i \in DOMAIN items : items[i] = o

\* A new object goes to position i; one that is there already is refused.
InsertAtPos(call, o, i) ==
    IF Has(o) THEN UNCHANGED items /\ ret' = <<call, 0>>
              ELSE items' = InsertAt(items, i, o) /\ ret' = <<call, 1>>

AddLast(o) == InsertAtPos("append", o, Len(items) + 1)

AddFirst(o) == InsertAtPos("prepend", o, 1)

Refused(call) == UNCHANGED items /\ ret' = <<call, 0>>

Before(o, this) ==
    IF Has(this) THEN InsertAtPos("insert_before", o, Index(this))
                 ELSE Refused("insert_before")

After(o, this) ==
    IF Has(this) THEN InsertAtPos("insert_after", o, Index(this) + 1)
                 ELSE Refused("insert_after")

\* The object is handed back; an object that is not there gives NULL.
Delete(o) ==
    /\ items' = IF Has(o) THEN RemoveAt(items, Index(o)) ELSE items
    /\ ret' = <<"delete", IF Has(o) THEN o ELSE NULL>>

\* Reading position 0 of an empty list is the caller's mistake.
Element(i) ==
    /\ ret' = <<"element", IF i < Len(items) THEN items[i + 1]
                           ELSE IF items = <<>> /\ i = 0 THEN Fault ELSE NULL>>
    /\ UNCHANGED items

Length == ret' = <<"length", Len(items)>> /\ UNCHANGED items

Free == items' = <<>> /\ ret' = <<"free", NULL>>

Init == items = <<>> /\ ret = <<"create", NULL>>

Next ==
    \/ \E o \in Objs : AddLast(o) \/ AddFirst(o) \/ Delete(o)
    \/ \E o, this \in Objs : Before(o, this) \/ After(o, this)
    \/ \E i \in Indices : Element(i)
    \/ Length
    \/ Free

Spec == Init /\ [][Next]_<<items, ret>>

=============================================================================
