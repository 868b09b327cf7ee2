------------------------------- MODULE Lists -------------------------------
(***************************************************************************)
(* The doubly linked list of objects (src/list.c), at the level of its     *)
(* nodes and pointers, together with the part of the hierarchical          *)
(* allocator it relies on: a node belongs to its list, an object inserted  *)
(* by a safe call belongs to its node, and freeing a block frees what      *)
(* belongs to it.  The unsafe calls are for objects that belong to         *)
(* somebody else.                                                          *)
(***************************************************************************)
EXTENDS Containers, Naturals, FiniteSets, FiniteSetsExt, Functions, Sequences

CONSTANTS
    Nodes,      \* addresses of list nodes
    Objs,       \* the objects put into the list
    Borrowed,   \* the objects that belong to another block
    Other       \* the block the borrowed objects belong to

\* What is assumed of the constants.
ListsAssumption ==
    /\ IsFiniteSet(Nodes) /\ IsFiniteSet(Objs)
    /\ Borrowed \subseteq Objs
    /\ Cardinality(Objs) <= Cardinality(Nodes)
    /\ LenMod \in Nat /\ Cardinality(Objs) < LenMod
    /\ NULL \notin Nodes \cup Objs
    /\ Other \notin Nodes \cup {NULL}

VARIABLES
    node,       \* the allocated nodes: address -> prev, next, value
    first,      \* _first
    last,       \* _last
    llen,       \* _len
    owner,      \* the block an object is attached to
    lfreed,     \* the objects that have been freed
    lret        \* the last call and its result

listState == <<node, first, last, llen>>
listVars == <<listState, owner, lfreed, lret>>

ListsTypeOK ==
    /\ DOMAIN node \subseteq Nodes
    /\ \A n \in DOMAIN node :
           node[n] \in [prev : Nodes \cup {NULL}, next : Nodes \cup {NULL}, value : Objs]
    /\ first \in Nodes \cup {NULL}
    /\ last \in Nodes \cup {NULL}
    /\ llen \in 0..(LenMod - 1)
    /\ owner \in [Objs -> Nodes \cup {Other, NULL}]
    /\ lfreed \subseteq Objs

-----------------------------------------------------------------------------
(* Walking the list.                                                       *)

\* The node a walk along the next pointers stands on after i steps.
NodeAt[i \in 0..Cardinality(Nodes)] ==
    IF i = 0 THEN first
    ELSE IF NodeAt[i - 1] = NULL THEN NULL
    ELSE node[NodeAt[i - 1]].next

\* The positions at which a walk meets object o.
Hits(o) == {i \in DOMAIN NodeAt : NodeAt[i] # NULL /\ node[NodeAt[i]].value = o}

co_list_contains(o) == Hits(o) # {}

_co_list_find_node(o) == IF Hits(o) = {} THEN NULL ELSE NodeAt[Min(Hits(o))]

-----------------------------------------------------------------------------
(* Insertion.                                                              *)

\* A mutant: the counter is kept in a wider integer, in which adding 2^16 - 1
\* is no decrement.
ChangeLengthWide(delta) == llen' = llen + delta

_co_list_change_length(delta) == llen' = (llen + delta) % LenMod

\* _listnode_create: a zeroed node that refers to the object; hattach moves
\* the object to it when the call is a safe one.
Attach(o, n, safe) == owner' = IF safe THEN [owner EXCEPT ![o] = n] ELSE owner

\* The new node n for o is linked between the neighbours before and after.
Link(o, n, before, after) ==
    /\ node' = [m \in DOMAIN node \cup {n} |->
                  CASE m = n      -> [prev |-> before, next |-> after, value |-> o]
                    [] m = before -> [node[m] EXCEPT !.next = n]
                    [] m = after  -> [node[m] EXCEPT !.prev = n]
                    [] OTHER      -> node[m]]
    /\ first' = IF before = NULL THEN n ELSE first
    /\ last' = IF after = NULL THEN n ELSE last
    /\ _co_list_change_length(1)

Refuse(call) == lret' = <<call, 0>> /\ UNCHANGED <<listState, owner, lfreed>>

co_list_insert_before(call, o, this, safe) ==
    LET this_node == _co_list_find_node(this)
    IN  IF this_node = NULL \/ co_list_contains(o)
        THEN Refuse(call)
        ELSE \E n \in Nodes \ DOMAIN node :
               /\ Link(o, n, node[this_node].prev, this_node)
               /\ Attach(o, n, safe)
               /\ lret' = <<call, 1>>
               /\ UNCHANGED lfreed

co_list_insert_after(call, o, this, safe) ==
    LET this_node == _co_list_find_node(this)
    IN  IF this_node = NULL \/ co_list_contains(o)
        THEN Refuse(call)
        ELSE \E n \in Nodes \ DOMAIN node :
               /\ Link(o, n, this_node, node[this_node].next)
               /\ Attach(o, n, safe)
               /\ lret' = <<call, 1>>
               /\ UNCHANGED lfreed

\* prepend and append into a list whose length is 0: the node becomes the
\* first and the last, whatever the list held.
InsertOnly(call, o, safe) ==
    \E n \in Nodes \ DOMAIN node :
        /\ node' = [m \in DOMAIN node \cup {n} |->
                      IF m = n THEN [prev |-> NULL, next |-> NULL, value |-> o]
                               ELSE node[m]]
        /\ first' = n
        /\ last' = n
        /\ _co_list_change_length(1)
        /\ Attach(o, n, safe)
        /\ lret' = <<call, 1>>
        /\ UNCHANGED lfreed

\* A mutant: prepend by the call append uses.
PrependAfterFirst(o, safe) ==
    IF llen = 0 THEN InsertOnly("prepend", o, safe)
    ELSE co_list_insert_after("prepend", o, node[first].value, TRUE)

\* On a list that is not empty the unsafe variants continue as the safe ones.
co_list_prepend(o, safe) ==
    IF llen = 0 THEN InsertOnly("prepend", o, safe)
    ELSE co_list_insert_before("prepend", o, node[first].value, TRUE)

co_list_append(o, safe) ==
    IF llen = 0 THEN InsertOnly("append", o, safe)
    ELSE co_list_insert_after("append", o, node[last].value, TRUE)

-----------------------------------------------------------------------------
(* Removal and reading.                                                    *)

\* The neighbours of the node n that leaves the list are linked to each other.
Bypass(n) ==
    /\ node' = [m \in DOMAIN node \ {n} |->
                  [prev |-> IF m = node[n].next THEN node[n].prev ELSE node[m].prev,
                   next |-> IF m = node[n].prev THEN node[n].next ELSE node[m].next,
                   value |-> node[m].value]]
    /\ first' = IF node[n].prev = NULL THEN node[n].next ELSE first
    /\ _co_list_change_length(LenMod - 1)

\* Mutant: _last still refers to the node.
UnlinkForgetsLast(n) ==
    Bypass(n) /\ last' = last /\ owner' = [owner EXCEPT ![node[n].value] = NULL]

\* The node is unlinked and freed, the object detached from whatever block
\* it was attached to.
Unlink(n) ==
    /\ Bypass(n)
    /\ last' = IF node[n].next = NULL THEN node[n].prev ELSE last
    /\ owner' = [owner EXCEPT ![node[n].value] = NULL]

co_list_delete(o) ==
    LET current == _co_list_find_node(o)
    IN  IF current = NULL
        THEN lret' = <<"delete", NULL>> /\ UNCHANGED <<listState, owner, lfreed>>
        ELSE Unlink(current) /\ lret' = <<"delete", o>> /\ UNCHANGED lfreed

\* The walk to an index stops at the end of the list, except that index 0
\* of an empty list passes the check and is dereferenced.
co_list_element(index) ==
    /\ lret' = <<"element",
                IF first = NULL /\ index = 0 THEN Fault
                ELSE IF NodeAt[index] = NULL THEN NULL
                ELSE node[NodeAt[index]].value>>
    /\ UNCHANGED <<listState, owner, lfreed>>

co_list_length == lret' = <<"length", llen>> /\ UNCHANGED <<listState, owner, lfreed>>

\* co_obj_free of the list frees its nodes and the objects that belong to
\* them.  The variable then stands for the next list that is created.
co_obj_free ==
    /\ lfreed' = lfreed \cup {o \in Objs : owner[o] \in DOMAIN node}
    /\ node' = <<>>
    /\ first' = NULL
    /\ last' = NULL
    /\ llen' = 0
    /\ owner' = [o \in Objs |-> IF owner[o] \in DOMAIN node THEN NULL ELSE owner[o]]
    /\ lret' = <<"free", NULL>>

\* A safe insertion hands the object over to the list; the unsafe ones are
\* there for the borrowed objects.
MayInsert(o, safe) == o \notin lfreed /\ safe = (o \notin Borrowed)

-----------------------------------------------------------------------------
ListsInit ==
    /\ node = <<>>
    /\ first = NULL
    /\ last = NULL
    /\ llen = 0
    /\ owner = [o \in Objs |-> IF o \in Borrowed THEN Other ELSE NULL]
    /\ lfreed = {}
    /\ lret = <<"create", NULL>>

Insertions(o, safe) ==
    \/ co_list_append(o, safe)
    \/ co_list_prepend(o, safe)
    \/ \E this \in Objs :
           \/ co_list_insert_before("insert_before", o, this, safe)
           \/ co_list_insert_after("insert_after", o, this, safe)

ListsNext ==
    \/ \E o \in Objs, safe \in BOOLEAN : MayInsert(o, safe) /\ Insertions(o, safe)
    \/ \E o \in Objs : co_list_delete(o)
    \/ \E i \in DOMAIN NodeAt : co_list_element(i)
    \/ co_list_length
    \/ co_obj_free

ListsSpec == ListsInit /\ [][ListsNext]_listVars

-----------------------------------------------------------------------------
(* Properties.                                                             *)

\* A walk along the next pointers meets every allocated node exactly once
\* and ends at _last; the prev pointers are its exact reverse; no object is
\* there twice; _len counts the nodes; and an object that belongs to a node is
\* the object of that node, so that freeing the list frees nothing a delete has
\* handed back.  A single pointer left behind by an insertion or a removal at
\* either end breaks it.
WellLinked ==
    /\ NodeAt[llen] = NULL
    /\ {NodeAt[i] : i \in 0..(llen - 1)} = DOMAIN node
    /\ Cardinality(DOMAIN node) = llen
    /\ last = IF llen = 0 THEN NULL ELSE NodeAt[llen - 1]
    /\ \A i \in 0..(llen - 1) :
           node[NodeAt[i]].prev = IF i = 0 THEN NULL ELSE NodeAt[i - 1]
    /\ \A m, n \in DOMAIN node : node[m].value = node[n].value => m = n
    /\ \A o \in Objs : owner[o] \in DOMAIN node => node[owner[o]].value = o

\* The list, read from its pointers, is the sequence ListService promises,
\* and every call returns what it says there.
items == [i \in 1..llen |-> node[NodeAt[i - 1]].value]

Service == INSTANCE ListService WITH Indices <- 0..Cardinality(Nodes), ret <- lret

ImplementsSequence == Service!Spec

=============================================================================
