------------------------------ MODULE TreeEnum ------------------------------
(***************************************************************************)
(* What src/tree.h says of the enumeration of a tree object, and of a tree *)
(* whose keys are only inserted.                                           *)
(***************************************************************************)
EXTENDS Trees, TreeWalks

\* The n-th key co_tree_next returns when it is started with NULL and continued
\* with what it returned, NULL when it has come to the end.
Listed(t, bound) ==
    LET nth[n \in 0..bound] ==
            IF n = 0 THEN co_tree_next(t, NULL)
            ELSE LET before == nth[n - 1]
                 IN  IF before = NULL THEN NULL ELSE co_tree_next(t, before)
    IN  nth

Smaller(j, k) ==
    \E i \in DOMAIN j \cap DOMAIN k :
        j[i] < k[i] /\ \A h \in 1..(i - 1) : j[h] = k[h]

\* tree.h: co_tree_next gives "the next key in the tree, in alphabetical
\* order": it lists the keys that have a value, in order, and ends.
NextEnumerates ==
    LET size == Cardinality(DOMAIN map)
        nth == Listed(tree, size)
    IN  /\ nth[size] = NULL
        /\ {nth[n] : n \in 0..(size - 1)} = DOMAIN map
        /\ \A n \in 1..(size - 1) : Smaller(nth[n - 1], nth[n])

\* What tree.h says of a tree and holds while keys are only inserted, and have
\* two letters or more: co_tree_next enumerates the keys, and InsertsCount.
InsertsAreExact == calls \subseteq {"insert"} => NextEnumerates /\ InsertsCount

=============================================================================
