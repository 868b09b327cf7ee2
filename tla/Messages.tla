------------------------------ MODULE Messages ------------------------------
(***************************************************************************)
(* Objects as messages: how requests and responses are packed into a       *)
(* buffer of a given size and imported from it (src/msg.c and the raw and  *)
(* import functions of src/obj.c, src/list.c and src/tree.c).  A wire is a *)
(* sequence of tokens, one for each simple object and one for each header  *)
(* of a list or a tree; its size is counted in bytes.                      *)
(***************************************************************************)
EXTENDS Objects

CONSTANTS
    Requests,       \* the pairs of a method and a list of parameters sent
    Responses,      \* the pairs of an error and a result sent
    Buffers,        \* the sizes of the output buffer
    MinBuffer,      \* the smallest size that is not refused at once
    Huge            \* SIZE_MAX: what a size below zero turns into

VARIABLES
    sent,       \* the items of the message
    olen,       \* the size of the output buffer
    packed,     \* what the alloc function left: its result and the wire
    got         \* what co_list_import made of the wire

vars == <<sent, olen, packed, got>>

-----------------------------------------------------------------------------
(* Packing.  A result has n, the bytes written or -1, and the wire.        *)

Failed == [n |-> -1, wire |-> <<>>]
Token(type, data) == [type |-> type, data |-> data]

\* co_obj_raw: types that are not listed cannot be packed.
co_obj_raw(o) ==
    IF o.type \in DOMAIN Fixed
    THEN [n |-> 1 + Fixed[o.type], wire |-> <<Token(o.type, o.data)>>]
    ELSE IF o.type \in DOMAIN Sized
    THEN [n |-> 1 + Sized[o.type] + Len(o.data), wire |-> <<Token(o.type, o.data)>>]
    ELSE Failed

\* Sizes are unsigned.
Minus(a, b) == IF a >= b THEN a - b ELSE Huge

RECURSIVE Raw(_, _), co_list_raw(_, _, _, _), _co_tree_raw_r(_, _, _, _)

Raw(o, size) ==
    IF o.type \in Lists
    THEN co_list_raw(o.items, 1, [n |-> HeaderSize, wire |-> <<Token(o.type, o.len)>>], size)
    ELSE IF o.type \in Trees
    THEN _co_tree_raw_r(o.nodes, Root, [n |-> HeaderSize, wire |-> <<Token(o.type, o.len)>>], size)
    ELSE co_obj_raw(o)

\* A mutant: an item that does not fit ends the list.
ListRawStops(items, i, out, size) ==
    IF i > Len(items) \/ out.n > size THEN out
    ELSE LET item == Raw(items[i], Minus(size, out.n))
         IN  IF item.n < 0 \/ item.n + out.n >= size THEN out
             ELSE co_list_raw(items, i + 1,
                              [n |-> out.n + item.n, wire |-> out.wire \o item.wire], size)

\* The loop over the items from index i on, with what has been written.
co_list_raw(items, i, out, size) ==
    IF i > Len(items) \/ out.n > size THEN out
    ELSE LET item == Raw(items[i], Minus(size, out.n))
         IN  IF item.n < 0 \/ item.n + out.n >= size THEN Failed
             ELSE co_list_raw(items, i + 1,
                              [n |-> out.n + item.n, wire |-> out.wire \o item.wire], size)

\* The node at p and its subtrees.  The key is written before the value is
\* looked at; a value that fails ends the work on this node, its subtrees
\* included, and is not reported.
_co_tree_raw_r(t, p, out, size) ==
    IF p \notin DOMAIN t THEN out
    ELSE LET key == co_obj_raw(Obj("str8", t[p].key))
             keyed == [n |-> out.n + key.n, wire |-> out.wire \o key.wire]
             value == Raw(t[p].value, Minus(size, keyed.n))
             fits == \/ t[p].value.type \in Lists \cup Trees
                     \/ key.n + value.n < Minus(size, keyed.n)
             pair == IF value.n > 0 /\ fits
                     THEN [n |-> keyed.n + value.n, wire |-> keyed.wire \o value.wire]
                     ELSE keyed
             own == IF t[p].value = NULL THEN out ELSE pair
         IN  IF t[p].value # NULL /\ pair = keyed THEN keyed
             ELSE LET low == _co_tree_raw_r(t, Child(p, "low"), own, size)
                      equal == _co_tree_raw_r(t, Child(p, "equal"), low, size)
                  IN  _co_tree_raw_r(t, Child(p, "high"), equal, size)

\* The parts of a message after its header, each into what is left of the
\* buffer.
RECURSIVE PackParts(_, _, _)
PackParts(parts, out, size) ==
    IF parts = <<>> THEN IF out.n < size THEN out ELSE Failed
    ELSE LET part == Raw(Head(parts), Minus(size, out.n))
             next == [n |-> out.n + part.n, wire |-> out.wire \o part.wire]
         IN  IF part.n <= 0 \/ (Len(parts) > 1 /\ next.n >= size) THEN Failed
             ELSE PackParts(Tail(parts), next, size)

\* The header: a list of four, the type of the message and its number.
Header(type, id) ==
    [n |-> HeaderSize + 2 + 5,
     wire |-> <<Token("list16", 4), Token("uint8", type), Token("uint32", id)>>]

co_request_alloc(id, method, param, size) ==
    IF size <= MinBuffer THEN Failed ELSE PackParts(<<method, param>>, Header(0, id), size)

co_response_alloc(id, error, result, size) ==
    IF size <= MinBuffer THEN Failed ELSE PackParts(<<error, result>>, Header(1, id), size)

-----------------------------------------------------------------------------
(* Importing.  A result has n, the tokens read, -1 for an error, -2 for a   *)
(* failed assertion, and the object.                                       *)

Bad == [n |-> -1, obj |-> NULL]
Crash == [n |-> -2, obj |-> NULL]

RECURSIVE Import(_), ImportItems(_, _, _), ImportPairs(_, _, _)

Import(wire) ==
    IF wire = <<>> THEN Bad
    ELSE IF Head(wire).type \in Lists
    THEN ImportItems(wire, [n |-> 1, obj |-> [type |-> Head(wire).type, len |-> 0, items |-> <<>>]],
                     Head(wire).data)
    ELSE IF Head(wire).type \in Trees
    THEN ImportPairs(wire, [n |-> 1, obj |-> [type |-> Head(wire).type, len |-> 0, nodes |-> EmptyTree]],
                     Head(wire).data)
    ELSE [n |-> 1, obj |-> Create(Head(wire).type, Head(wire).data)]

Rest(wire, n) == SubSeq(wire, n + 1, Len(wire))

\* co_list_import: an object that could not be created is counted as read,
\* and is appended as NULL, which a list holds once.
ImportItems(wire, in, count) ==
    IF in.n < 0 \/ in.obj.len = count THEN in
    ELSE LET item == Import(Rest(wire, in.n))
         IN  IF item = Crash THEN Crash
             ELSE IF item.n < 0 \/ (item.obj = NULL /\ Contains(in.obj.items, NULL)) THEN Bad
             ELSE ImportItems(wire, [n |-> in.n + item.n,
                                     obj |-> [in.obj EXCEPT !.len = @ + 1,
                                                            !.items = Append(@, item.obj)]], count)

\* co_tree_import: a key, a value, and an insertion that refuses a key that
\* is there; a value that could not be created is attached as NULL, which the
\* allocator does not survive.
ImportPairs(wire, in, count) ==
    IF in.n < 0 \/ in.obj.len = count THEN in
    ELSE IF Rest(wire, in.n) = <<>> \/ wire[in.n + 1].type # "str8" THEN Bad
    ELSE LET key == wire[in.n + 1].data
             value == Import(Rest(wire, in.n + 1))
         IN  IF value = Crash THEN Crash
             ELSE IF value.n < 0 \/ HasNode(in.obj.nodes, key) THEN Bad
             ELSE IF value.obj = NULL THEN Crash
             ELSE ImportPairs(wire, [n |-> in.n + 1 + value.n,
                                     obj |-> [in.obj EXCEPT !.len = @ + 1,
                                                            !.nodes = Inserted(@, key, value.obj)]],
                              count)

co_list_import(wire) ==
    IF wire = <<>> \/ Head(wire).type \notin Lists THEN Bad ELSE Import(wire)

-----------------------------------------------------------------------------
Id == Obj("uint32", 7)
Message(type, first, second) ==
    ListOf(<<Obj("uint8", type), Id, first, second>>)

IsResponse == sent.items[1].data = 1

Idle == [n |-> 0, wire |-> <<>>]

Init ==
    /\ sent \in {Message(0, r[1], r[2]) : r \in Requests}
                \cup {Message(1, r[1], r[2]) : r \in Responses}
    /\ olen \in Buffers
    /\ packed = Idle
    /\ got = NULL

\* The client packs a request.
PackRequest ==
    /\ packed = Idle /\ ~IsResponse
    /\ packed' = co_request_alloc(Id.data, sent.items[3], sent.items[4], olen)
    /\ UNCHANGED <<sent, olen, got>>

\* The dispatcher packs a response.
PackResponse ==
    /\ packed = Idle /\ IsResponse
    /\ packed' = co_response_alloc(Id.data, sent.items[3], sent.items[4], olen)
    /\ UNCHANGED <<sent, olen, got>>

\* The other side imports what was sent.
Receive ==
    /\ packed.n > 0 /\ got = NULL
    /\ got' = co_list_import(packed.wire)
    /\ UNCHANGED <<sent, olen, packed>>

Next == PackRequest \/ PackResponse \/ Receive

Spec == Init /\ [][Next]_vars

-----------------------------------------------------------------------------
(* Properties.                                                             *)

\* What an object says: a tree is the map from its keys, whatever its shape.
RECURSIVE Meaning(_)
Meaning(o) ==
    IF o = NULL THEN NULL
    ELSE IF o.type \in Lists
    THEN [type |-> o.type, items |-> [i \in DOMAIN o.items |-> Meaning(o.items[i])]]
    ELSE IF o.type \in Trees
    THEN LET held == {p \in DOMAIN o.nodes : o.nodes[p].value # NULL}
         IN  [type |-> o.type,
              pairs |-> {<<o.nodes[p].key, Meaning(o.nodes[p].value)>> : p \in held}]
    ELSE o

\* Every token of an object, whether or not there is room.
RECURSIVE Complete(_)
Complete(o) ==
    IF o.type \in Lists THEN <<Token(o.type, o.len)>> \o FlattenSeq([i \in DOMAIN o.items |-> Complete(o.items[i])])
    ELSE IF o.type \in Trees
    THEN LET order == Preorder(o.nodes)
         IN  <<Token(o.type, o.len)>>
             \o FlattenSeq([i \in DOMAIN order |->
                              <<Token("str8", o.nodes[order[i]].key)>>
                              \o Complete(o.nodes[order[i]].value)])
    ELSE <<Token(o.type, o.data)>>

\* The alloc functions take "output buffer length" (msg.h) and refuse what is
\* "too large for buffer": what they return fits the buffer and is whole, and
\* it is imported as it was meant.  No item, key or value is lost, changed or
\* moved by the two traversals of nested lists and trees.
ArrivesWhole ==
    /\ packed.n > 0 => packed.n < olen /\ packed.wire = Complete(sent)
    /\ got # NULL => Meaning(got.obj) = Meaning(sent)

=============================================================================
