------------------------------- MODULE MCData -------------------------------
(***************************************************************************)
(* The containers and what is kept in them: profiles, lists, trees and     *)
(* messages on small instances.  They share no state, so a behaviour picks *)
(* one of them, `part`, and leaves the variables of the others as they     *)
(* are: the reachable states are the union of theirs, and no interleaving  *)
(* is lost.                                                                *)
(***************************************************************************)
EXTENDS Objects, Profiles, Lists, TreeEnum

CONSTANTS
    Parts,                      \* the parts a run looks at
    ssid, v0, v1, quoted,       \* a key of the schemas and its values
    n1, n2, n3, n4,             \* list nodes
    o1, o2, o3, o4,             \* objects in lists
    t1, t2, t3, b               \* values in trees, b a borrowed one

VARIABLES
    part,
    sent, olen, packed, got     \* of Messages

messageVars == <<sent, olen, packed, got>>

-----------------------------------------------------------------------------
(* Profiles: one profile beside one that has the name of the global        *)
(* profile, one key with its default, another value and one that a file    *)
(* cannot hold.                                                            *)

MCNames == {"a", "global"}
MCKeys == {ssid}
MCValues == {v0, v1, quoted}
MCDefault == ssid :> v0
MCUnwritable == {quoted}

-----------------------------------------------------------------------------
(* Lists: as many nodes as objects, one of them borrowed.                  *)

MCNodes == {n1, n2, n3, n4}
MCObjs == {o1, o2, o3, o4}
MCBorrowed == {o3}

ASSUME ListsAssumption

-----------------------------------------------------------------------------
(* Trees.  Three keys differ in their first character, so that a node has  *)
(* a low and a high link; two share a prefix and one of them ends where    *)
(* the other goes on.  Where keys are only inserted there are four values, *)
(* with all calls three.                                                   *)

MCTreeKeys == {<<1, 2, 0>>, <<1, 2, 1, 0>>, <<2, 1, 0>>, <<3, 1, 0>>}
MCTreeValues == {t1, t2, t3, b}
MCBorrowedValues == {b}

T == INSTANCE Trees WITH TreeValues <- {t1, t2, b}

ASSUME TreesAssumption

-----------------------------------------------------------------------------
(* Messages.  Strings and integers are as short as they can be, so that a  *)
(* buffer of a few dozen bytes has the boundary cases of the real one      *)
(* (BUFSIZ).                                                               *)

Str(s) == Obj("str8", s)
LongStr(n) == Obj("str8", [i \in 1..n |-> IF i = n THEN 0 ELSE 1])
Nil == Obj("nil", NULL)

A == <<1, 0>>
B == <<2, 0>>
AB == <<1, 2, 0>>

Simple == {Str(A), LongStr(5), Obj("uint8", 9), Obj("true", NULL), Nil}
SimpleLists == {ListOf(s) : s \in UNION {[1..n -> Simple] : n \in 0..2}}

\* Trees of up to three keys, inserted in any order, and values of any kind.
Orders == {q \in UNION {[1..n -> {A, B, AB}] : n \in 0..3} : IsInjective(q)}
TreesOver(values) ==
    {TreeOf([i \in DOMAIN q |-> <<q[i], f[i]>>]) : q \in Orders, f \in [1..3 -> values]}
SmallTrees == TreesOver({Str(A), LongStr(5)})
NestedTrees ==
    TreesOver({ListOf(<<Str(B), ListOf(<<Obj("uint8", 3)>>)>>),
               TreeOf(<< <<B, Str(A)>>, <<A, Str(B)>> >>), Str(A)})

\* The longest string that survives, and a number that needs half its bits.
EdgeTrees == {TreeOf(<< <<A, o>> >>) : o \in {LongStr(254), Obj("int64", <<0, 5>>)}}

MCRequests == {<<Str(AB), l>> : l \in SimpleLists \cup {ListOf(<<ListOf(<<>>), Str(A)>>)}}
MCResponses ==
    {<<Nil, t>> : t \in SmallTrees \cup NestedTrees \cup EdgeTrees}
    \cup {<<t, Nil>> : t \in SmallTrees}

Roomy == 400

M == INSTANCE Messages WITH
    Requests <- MCRequests, Responses <- MCResponses, Buffers <- 18..40 \cup {Roomy},
    MinBuffer <- 17, Huge <- 1000000

\* Requests go into a buffer of any size, responses into one with room: what
\* is dropped from a response that does not fit is described in the README.
MessagesInit == M!Init /\ (M!IsResponse => olen = Roomy)

NoMessage == sent = NULL /\ olen = 0 /\ packed = M!Idle /\ got = NULL

-----------------------------------------------------------------------------
\* Addresses are interchangeable.
MCSymmetry == Permutations(MCNodes)

DataInit ==
    /\ part \in Parts
    /\ Init /\ ListsInit /\ TreesInit
    /\ calls = IF part = "trees" THEN {"insert", "force", "delete"} ELSE {"insert"}
    /\ IF part = "messages" THEN MessagesInit ELSE NoMessage

DataNext ==
    /\ UNCHANGED part
    /\ \/ part = "profiles" /\ Next /\ UNCHANGED <<listVars, treeVars, messageVars>>
       \/ part = "lists" /\ ListsNext /\ UNCHANGED <<vars, treeVars, messageVars>>
       \/ part = "trees" /\ T!TreesNext /\ UNCHANGED <<vars, listVars, messageVars>>
       \/ part = "inserts" /\ TreesNext /\ UNCHANGED <<vars, listVars, messageVars>>
       \/ part = "messages" /\ M!Next /\ UNCHANGED <<vars, listVars, treeVars>>

DataSpec == DataInit /\ [][DataNext]_<<part, vars, listVars, treeVars, messageVars>>

-----------------------------------------------------------------------------
\* What the alloc functions return fits, is whole and is imported as meant.
ArrivesWhole == M!ArrivesWhole

\* The type invariants of profiles, lists and trees.
PartsTypeOK == TypeOK /\ ListsTypeOK /\ TreesTypeOK

=============================================================================
