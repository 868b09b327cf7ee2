------------------------------- MODULE Trees -------------------------------
(***************************************************************************)
(* A tree object of src/tree.c under every sequence of its calls: its      *)
(* nodes, its length, which values it owns and which it has freed.  The    *)
(* reference counts are left out: nothing reads them.                      *)
(***************************************************************************)
EXTENDS TreeOps

CONSTANTS
    TreeKeys,       \* the keys used
    TreeValues,     \* the objects used as values
    BorrowedValues  \* those of them that belong to another block

\* What is assumed of the constants.
TreesAssumption ==
    /\ \A k \in TreeKeys :
           k \in Seq(Nat) \ {<<>>} /\ \A i \in DOMAIN k : k[i] = 0 <=> i = Len(k)
    /\ BorrowedValues \subseteq TreeValues
    /\ LenMod \in Nat \ {0}
    /\ NULL \notin TreeValues \cup TreeKeys \cup Seq(Links) /\ Fault \notin TreeValues \cup {NULL}

VARIABLES
    calls,      \* which of "insert", "force" and "delete" the program makes
    tree,       \* the nodes
    tlen,       \* _len
    owned,      \* the values attached to a node of the tree
    tfreed,     \* the values that have been freed
    retired,    \* the keys deleted since their last insertion
    tret        \* the last call, its key and its result

treeState == <<tree, tlen, owned, tfreed, retired>>
treeVars == <<calls, treeState, tret>>

NodeType == [splitchar : Nat, key : TreeKeys \cup {NULL}, value : TreeValues \cup {NULL}]

TreesTypeOK ==
    /\ calls \subseteq {"insert", "force", "delete"}
    /\ \A p \in DOMAIN tree : p \in Seq(Links) /\ tree[p] \in NodeType
    /\ tlen \in 0..(LenMod - 1)
    /\ owned \subseteq TreeValues
    /\ tfreed \subseteq TreeValues
    /\ retired \subseteq TreeKeys

_co_tree_change_length(delta) == tlen' = (tlen + delta) % LenMod

co_tree_find(k) == tret' = <<"find", k, ValueAt(tree, k)>> /\ UNCHANGED treeState

\* An old value is freed, whoever it belongs to, and the length counts one
\* more, whether or not the key was there.
_co_tree_insert(call, k, v, safe) ==
    LET old == ValueAt(tree, k)
    IN  /\ tree' = Inserted(tree, k, v)
        /\ tfreed' = tfreed \cup ({old} \ {NULL})
        /\ owned' = (owned \ {old}) \cup (IF safe THEN {v} ELSE {})
        /\ _co_tree_change_length(1)
        /\ retired' = retired \ {k}
        /\ tret' = <<call, k, 1>>

\* Mutant: no check for the key.
InsertUnchecked(k, v, safe) == _co_tree_insert("insert", k, v, safe)

\* co_tree_insert and co_tree_insert_unsafe.
co_tree_insert(k, v, safe) ==
    IF HasNode(tree, k)
    THEN tret' = <<"insert", k, 0>> /\ UNCHANGED treeState
    ELSE _co_tree_insert("insert", k, v, safe)

\* co_tree_insert_force and co_tree_insert_unsafe_force.
co_tree_insert_force(k, v, safe) == _co_tree_insert("force", k, v, safe)

\* The value is detached and handed back.  The walk for a key that leaves
\* the tree ends in a null pointer, which is dereferenced.
co_tree_delete(k) ==
    LET value == ValueAt(tree, k)
    IN  IF value # NULL
        THEN /\ tree' = Deleted(tree, k)
             /\ owned' = owned \ {value}
             /\ _co_tree_change_length(-1)
             /\ retired' = retired \cup {k}
             /\ tret' = <<"delete", k, value>>
             /\ UNCHANGED tfreed
        ELSE /\ tret' = <<"delete", k, IF HasNode(tree, k) THEN NULL ELSE Fault>>
             /\ UNCHANGED treeState

\* co_tree_destroy, and a new tree.
co_tree_destroy ==
    /\ tree' = EmptyTree
    /\ tlen' = 0
    /\ tfreed' = tfreed \cup owned
    /\ owned' = {}
    /\ retired' = {}
    /\ tret' = <<"destroy", NULL, NULL>>

-----------------------------------------------------------------------------
\* A new value object; an unsafe call is made for a borrowed one.
MayInsertValue(v, safe) ==
    /\ v \notin tfreed
    /\ \A p \in DOMAIN tree : tree[p].value # v
    /\ safe = (v \notin BorrowedValues)

TreesInit ==
    /\ calls \in SUBSET {"insert", "force", "delete"}
    /\ tree = EmptyTree
    /\ tlen = 0
    /\ owned = {}
    /\ tfreed = {}
    /\ retired = {}
    /\ tret = <<"create", NULL, NULL>>

TreesNext ==
    /\ UNCHANGED calls
    /\ \/ \E k \in TreeKeys, v \in TreeValues, safe \in BOOLEAN :
              /\ MayInsertValue(v, safe)
              /\ \/ "insert" \in calls /\ co_tree_insert(k, v, safe)
                 \/ "force" \in calls /\ co_tree_insert_force(k, v, safe)
       \/ \E k \in TreeKeys : "delete" \in calls /\ co_tree_delete(k)
       \/ \E k \in TreeKeys : co_tree_find(k)
       \/ co_tree_destroy

TreesSpec == TreesInit /\ [][TreesNext]_treeVars

-----------------------------------------------------------------------------
(* Properties.                                                             *)

\* Every leaf holds a value, and a key is found at exactly one node: the
\* pruning of co_tree_delete leaves no dead branch behind, whatever the
\* order of insertions and deletions, and never cuts one off its root.
NoDeadBranches ==
    \A p \in DOMAIN tree :
        /\ p # Root => Parent(p) \in DOMAIN tree
        /\ Leaf(tree, p) => tree[p].value # NULL
        /\ tree[p].value # NULL => co_tree_find_node(tree, tree[p].key) = p

\* The tree read as a map implements KeyMap: what an insertion, a search or
\* a deletion of one key returns never depends on the other keys, except
\* that a deleted key may be refused.
map ==
    LET held == {p \in DOMAIN tree : tree[p].value # NULL}
    IN  [k \in {tree[p].key : p \in held} |->
            tree[CHOOSE p \in held : tree[p].key = k].value]

\* What tree.h says of a tree and holds while keys are only inserted: the length
\* is the "number of key-value pairs", an insertion is refused ("Key exists.")
\* only if the key has a value, and a value that "is not tied to tree" is not
\* freed.
InsertsCount ==
    /\ tlen = Cardinality(DOMAIN map)
    /\ tret[1] = "insert" /\ tret[3] = 0 => tret[2] \in DOMAIN map
    /\ tfreed \cap BorrowedValues = {}

Map == INSTANCE KeyMap WITH Keys <- TreeKeys, Values <- TreeValues, ret <- tret

ImplementsMap == Map!Spec

=============================================================================
