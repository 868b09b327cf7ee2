----------------------------- MODULE Addresses -----------------------------
(***************************************************************************)
(* How commotiond computes node ids and addresses (src/id.c and            *)
(* co_generate_ip of src/iface.c).  An address, a mask and a node id are   *)
(* four bytes in network order.                                            *)
(***************************************************************************)
EXTENDS Integers, Sequences

Byte == 0..255
Quad == [1..4 -> Byte]

\* The bit of a that is worth w, one of 1, 2, 4, ..., 128.
Bit(a, w) == (a \div w) % 2

\* The bitwise operations of C on one byte.
BitAnd(a, b, w) == IF Bit(a, w) = 1 /\ Bit(b, w) = 1 THEN w ELSE 0
ByteAnd(a, b) ==
    BitAnd(a, b, 1) + BitAnd(a, b, 2) + BitAnd(a, b, 4) + BitAnd(a, b, 8)
    + BitAnd(a, b, 16) + BitAnd(a, b, 32) + BitAnd(a, b, 64) + BitAnd(a, b, 128)
ByteNot(a) == 255 - a
ByteOr(a, b) == a + b - ByteAnd(a, b)

And(x, y) == [i \in 1..4 |-> ByteAnd(x[i], y[i])]
Or(x, y) == [i \in 1..4 |-> ByteOr(x[i], y[i])]
Not(x) == [i \in 1..4 |-> ByteNot(x[i])]

\* The last four bytes of a MAC address.
co_id_set_from_mac(mac) == [i \in 1..4 |-> mac[i + 2]]

\* Mutant: a byte of the node id is used as it is.
HostBytesUnfolded(id, gw) == IF gw THEN <<id[1], id[3], id[4], 1>> ELSE id

\* The bytes of the node id, each below 254; a gateway's are moved up by one
\* and end in 1.
HostBytes(id, gw) ==
    LET b == [i \in 1..4 |-> id[i] % 254]
    IN  IF gw THEN <<b[1], b[3], b[4], 1>> ELSE b

\* Mutant: base and id are added up, and no mask is applied.
GenerateUnmasked(base, genmask, id, gw) ==
    [i \in 1..4 |-> base[i] + HostBytes(id, gw)[i]]

co_generate_ip(base, genmask, id, gw) ==
    Or(And(base, genmask), And(HostBytes(id, gw), Not(genmask)))

=============================================================================
