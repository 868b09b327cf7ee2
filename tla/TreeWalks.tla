----------------------------- MODULE TreeWalks -----------------------------
(***************************************************************************)
(* The traversals of the ternary search tree of src/tree.c, as functions   *)
(* of the nodes and of the turns they take.                                *)
(***************************************************************************)
EXTENDS TreeOps

\* A mutant: the high link of a node that has a low one is not followed.
VisitsLost(t) ==
    LET under[p \in DOMAIN t] ==
            LET below(link) == IF Child(p, link) \in DOMAIN t THEN under[Child(p, link)] ELSE <<>>
            IN  (IF t[p].value = NULL THEN <<>> ELSE <<p>>)
                \o below("low") \o below("equal")
                \o (IF Child(p, "low") \in DOMAIN t THEN <<>> ELSE below("high"))
    IN  under

\* The nodes with a value that _co_tree_process_r, and _co_tree_raw_r, come to
\* from each node: the node before its low, equal and high subtrees.
Visits(t) ==
    LET under[p \in DOMAIN t] ==
            LET below(link) == IF Child(p, link) \in DOMAIN t THEN under[Child(p, link)] ELSE <<>>
            IN  (IF t[p].value = NULL THEN <<>> ELSE <<p>>)
                \o below("low") \o below("equal") \o below("high")
    IN  under

Preorder(t) == IF Root \in DOMAIN t THEN Visits(t)[Root] ELSE <<>>

\* The values co_tree_process hands to its iterator.
co_tree_process(t) ==
    LET order == Preorder(t)
    IN  [i \in DOMAIN order |-> t[order[i]].value]

-----------------------------------------------------------------------------
\* One call of _co_tree_next_r for node p, reached from position prev (NULL at
\* the start of a walk): the node of the next call, p if its key is returned.
NextNode(t, p, prev) ==
    LET has(link) == Child(p, link) \in DOMAIN t
        from(link) == prev # NULL /\ prev = Child(p, link)
        above == prev # NULL /\ p # Root /\ prev = Parent(p)
        fresh == prev = NULL \/ above
        atRoot == p # Root /\ Parent(p) = Root
        here == above \/ (atRoot /\ (from("low") \/ (prev = NULL /\ ~ has("low"))))
    IN  IF t[p].key # NULL /\ here THEN p
        ELSE IF has("low") /\ fresh THEN Child(p, "low")
        ELSE IF has("equal") /\ (fresh \/ from("low")) THEN Child(p, "equal")
        ELSE IF has("high") /\ (fresh \/ from("low") \/ from("equal")) THEN Child(p, "high")
        ELSE IF p # Root THEN Parent(p)
        ELSE p

\* The node and the one before it after n calls, starting at node start; no
\* link is followed twice in one direction.
NextWalk(t, start) ==
    LET at[n \in 0..2 * Cardinality(DOMAIN t)] ==
            IF n = 0 THEN <<start, NULL>>
            ELSE LET call == at[n - 1]
                     next == NextNode(t, call[1], call[2])
                 IN  IF next = call[1] THEN call ELSE <<next, call[1]>>
    IN  at

\* The key it returns, NULL at the end.
_co_tree_next_r(t, start) == t[NextWalk(t, start)[2 * Cardinality(DOMAIN t)][1]].key

co_tree_next(t, key) ==
    LET start == IF key = NULL THEN Root ELSE co_tree_find_node(t, key)
        next == IF start \in DOMAIN t THEN _co_tree_next_r(t, start) ELSE NULL
    IN  IF next = key THEN NULL ELSE next

=============================================================================
