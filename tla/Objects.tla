------------------------------ MODULE Objects ------------------------------
(***************************************************************************)
(* The objects messages are made of (src/obj.c): a record with its type.   *)
(* Strings are sequences of characters, an integer of 64 bits is the pair  *)
(* of its upper and lower half, a list has its items and a tree its nodes  *)
(* as in TreeOps.                                                          *)
(***************************************************************************)
EXTENDS TreeWalks, SequencesExt

UINT8_MAX == 255
UINT16_MAX == 65535

Fixed == [nil |-> 0, false |-> 0, true |-> 0, uint8 |-> 1, int8 |-> 1, uint16 |-> 2,
          int16 |-> 2, uint32 |-> 4, int32 |-> 4, float32 |-> 4, uint64 |-> 8,
          int64 |-> 8, float64 |-> 8]
Sized == [str8 |-> 1, bin8 |-> 1, str16 |-> 2, bin16 |-> 2]
MaxLen == [str8 |-> UINT8_MAX, bin8 |-> UINT8_MAX, str16 |-> UINT16_MAX, bin16 |-> UINT16_MAX]
Strings == {"str8", "str16"}
Lists == {"list16"}
Trees == {"tree16"}
HeaderSize == 3

Obj(type, data) == [type |-> type, data |-> data]

\* _DEFINE_BIN and _DEFINE_STR: the length must stay below the maximum, and
\* a string is never empty.
co_char_create(type, data) ==
    IF Len(data) >= MaxLen[type] \/ (type \in Strings /\ data = <<>>)
    THEN NULL ELSE Obj(type, data)

\* _DEFINE_INTEGER converts its argument to 32 bits, whatever the width.
co_int_create(type, data) ==
    Obj(type, IF type \in {"int64", "uint64"} THEN <<0, data[2]>> ELSE data)

\* The constructors of nil, bool and float keep their argument.
Create(type, data) ==
    IF type \in DOMAIN Sized THEN co_char_create(type, data)
    ELSE IF type \in {"int64", "uint64", "int32", "uint32", "int16", "uint16", "int8", "uint8"}
    THEN co_int_create(type, data)
    ELSE Obj(type, data)

\* Objects the program builds.
ListOf(items) == [type |-> "list16", len |-> Len(items), items |-> items]

RECURSIVE TreeOf(_)
TreeOf(pairs) ==
    IF pairs = <<>> THEN [type |-> "tree16", len |-> 0, nodes |-> EmptyTree]
    ELSE LET t == TreeOf(Front(pairs))
         IN  [t EXCEPT !.len = @ + 1, !.nodes = Inserted(@, Last(pairs)[1], Last(pairs)[2])]

=============================================================================
