----------------------------- MODULE Containers -----------------------------
(***************************************************************************)
(* What the containers of objects, the lists of src/list.c and the trees   *)
(* of src/tree.c, have in common.                                          *)
(***************************************************************************)

CONSTANTS
    NULL,       \* the null pointer
    LenMod,     \* 2^16 or 2^32: the counter _len wraps there
    Fault       \* the result of a call that dereferences NULL

=============================================================================
