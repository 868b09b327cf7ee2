------------------------------ MODULE TreeOps ------------------------------
(***************************************************************************)
(* The algorithms of the ternary search tree of src/tree.c, which holds    *)
(* profiles, requests, commands and schemas.  A key is a sequence of       *)
(* characters whose last one is 0, the terminator the callers count in     *)
(* klen.                                                                   *)
(*                                                                         *)
(* A node is named by its position: the sequence of low, equal and high    *)
(* links that lead to it from the root.  A tree t maps the positions of    *)
(* its nodes to their splitchar, key and value.                            *)
(***************************************************************************)
EXTENDS Containers, Integers, Sequences, SequencesExt, FiniteSets, Functions

Links == {"low", "equal", "high"}
Root == <<>>
EmptyTree == <<>>

Child(p, link) == Append(p, link)
Parent(p) == Front(p)

\* A mutant: the comparison the wrong way round.
BranchReversed(ch, splitchar) ==
    IF ch > splitchar THEN "low" ELSE IF ch = splitchar THEN "equal" ELSE "high"

\* The link to follow at a node for the next character of a key.
Branch(ch, splitchar) ==
    IF ch < splitchar THEN "low" ELSE IF ch = splitchar THEN "equal" ELSE "high"

-----------------------------------------------------------------------------
(* Searching.                                                              *)

\* The index of the character that is looked for at position p: one more for
\* every equal link on the way.
IndexAt(p) == 1 + Cardinality({j \in DOMAIN p : p[j] = "equal"})

LinkAt(t, k, p) == Branch(k[IndexAt(p)], t[p].splitchar)

\* A walk for key k ends at the node of its last character, or where there is
\* no node.
Ends(t, k, p) == p \in DOMAIN t => IndexAt(p) = Len(k) /\ LinkAt(t, k, p) = "equal"

\* Where the loop of co_tree_find_node stands after n turns.
Walk(t, k) ==
    LET at[n \in 0..Cardinality(DOMAIN t)] ==
            IF n = 0 THEN Root
            ELSE LET p == at[n - 1]
                 IN  IF Ends(t, k, p) THEN p ELSE Child(p, LinkAt(t, k, p))
    IN  at

\* Where it stops: a node, or a position without one.
co_tree_find_node(t, k) == Walk(t, k)[Cardinality(DOMAIN t)]

HasNode(t, k) == co_tree_find_node(t, k) \in DOMAIN t

ValueAt(t, k) == IF HasNode(t, k) THEN t[co_tree_find_node(t, k)].value ELSE NULL

-----------------------------------------------------------------------------
(* Insertion and deletion.                                                 *)

\* The nodes _co_tree_insert_r creates at position p, where there is none,
\* and below it for key k from index i on: one for each remaining character,
\* each next one at the equal link of the last.
Chain(p, k, i) ==
    [q \in {p \o [j \in 1..n |-> "equal"] : n \in 0..(Len(k) - i)} |->
        [splitchar |-> k[i + Len(q) - Len(p)], key |-> NULL, value |-> NULL]]

\* The tree with a node for every character of k.
Grown(t, k) ==
    LET p == co_tree_find_node(t, k)
        new == Chain(p, k, IndexAt(p))
    IN  IF p \in DOMAIN t THEN t
        ELSE [q \in DOMAIN t \cup DOMAIN new |-> IF q \in DOMAIN t THEN t[q] ELSE new[q]]

\* _co_tree_insert_r: the last of these nodes gets the key and the value.
Inserted(t, k, v) ==
    LET grown == Grown(t, k)
        p == co_tree_find_node(grown, k)
    IN  [grown EXCEPT ![p].key = k, ![p].value = v]

Leaf(t, p) == \A link \in Links : Child(p, link) \notin DOMAIN t

\* A mutant: only the last node of the key is freed.
PrunedOnce(t, p) ==
    IF Leaf(t, p) /\ t[p].value = NULL THEN Restrict(t, DOMAIN t \ {p}) ELSE t

\* The tree when the n lowest calls of _co_tree_delete_r on the way to p have
\* returned: each frees its node if that is left without a child and a value.
Returned(t, p) ==
    LET rest[n \in 0..(Len(p) + 1)] ==
            IF n = 0 THEN t
            ELSE LET below == rest[n - 1]
                     q == SubSeq(p, 1, Len(p) + 1 - n)
                 IN  IF Leaf(below, q) /\ below[q].value = NULL
                     THEN Restrict(below, DOMAIN below \ {q})
                     ELSE below
    IN  rest

Pruned(t, p) == Returned(t, p)[Len(p) + 1]

\* _co_tree_delete_r for a key that has a value: the node stays, with its
\* key, as long as it has a child.
Deleted(t, k) ==
    LET p == co_tree_find_node(t, k)
    IN  Pruned([t EXCEPT ![p].value = NULL], p)

=============================================================================
