---------------------------- MODULE ListsProofs ----------------------------
(***************************************************************************)
(* Proofs about the doubly linked list of src/list.c (Lists), for any      *)
(* nodes and objects and any width of the length counter.                  *)
(*                                                                         *)
(* The walk of Lists is a recursive function of the pointers.  What the    *)
(* invariant says instead is that there is a sequence of nodes in which    *)
(* every pointer leads from a node to its neighbour (Chain): an insertion  *)
(* inserts into the sequence, a removal removes from it, and the walk is   *)
(* the sequence (WalkIsChain).                                             *)
(***************************************************************************)
EXTENDS Lists, ListLemmas, FiniteSetTheorems

\* The element at a position, NULL before the first and behind the last.
At(s, i) == IF i \in 1..Len(s) THEN s[i] ELSE NULL

\* The nodes nd, with these ends and this length, are linked as the sequence s.
Chain(nd, f, l, ln, s) ==
    /\ s \in Seq(Nodes) /\ IsInjective(s) /\ ToSet(s) = DOMAIN nd /\ Len(s) = ln
    /\ f = At(s, 1) /\ l = At(s, Len(s))
    /\ \A i \in 1..Len(s) : nd[s[i]].prev = At(s, i - 1) /\ nd[s[i]].next = At(s, i + 1)

Linked(s) == Chain(node, first, last, llen, s)

Distinct == \A m, n \in DOMAIN node : node[m].value = node[n].value => m = n

\* A block that is a node is one that holds the object, so that a new node
\* does not come to own what a node before it at the same address did.
Owned ==
    \A o \in Objs : owner[o] \in Nodes => owner[o] \in DOMAIN node /\ node[owner[o]].value = o

Inv == ListsTypeOK /\ Distinct /\ Owned /\ \E s : Linked(s)

-----------------------------------------------------------------------------
(* Counting.                                                               *)

\* A chain has as many positions as nodes.
LEMMA ChainCounts ==
    ASSUME NEW S, NEW s \in Seq(S), IsInjective(s)
    PROVE  IsFiniteSet(ToSet(s)) /\ Cardinality(ToSet(s)) = Len(s)
<1>1. s \in [1..Len(s) -> ToSet(s)] /\ Len(s) \in Nat
  BY DEF ToSet
<1>2. s \in Bijection(1..Len(s), ToSet(s))
  BY <1>1 DEF Bijection, Injection, Surjection, IsInjective, ToSet
<1>3. ExistsBijection(1..Len(s), ToSet(s))
  BY <1>2 DEF ExistsBijection
<1>4. IsFiniteSet(1..Len(s)) /\ Cardinality(1..Len(s)) = Len(s)
  <2>1. Cardinality(1..Len(s)) = IF 1 > Len(s) THEN 0 ELSE Len(s) - 1 + 1
    BY <1>1, FS_Interval
  <2> QED BY <1>1, <2>1, FS_Interval
<1> QED BY <1>3, <1>4, FS_Bijection

\* No more nodes than objects are in use when no object is there twice, and
\* the counter does not wrap.
LEMMA FewNodes ==
    ASSUME ListsAssumption, ListsTypeOK, Distinct
    PROVE  /\ IsFiniteSet(DOMAIN node)
           /\ Cardinality(DOMAIN node) <= Cardinality(Objs)
           /\ Cardinality(Objs) \in Nat /\ Cardinality(Nodes) \in Nat
           /\ Cardinality(Objs) <= Cardinality(Nodes) /\ Cardinality(Objs) < LenMod
           /\ LenMod \in Nat
<1> DEFINE value == [n \in DOMAIN node |-> node[n].value]
<1>1. IsFiniteSet(Objs) /\ IsFiniteSet(Nodes)
  BY DEF ListsAssumption
<1>2. value \in [DOMAIN node -> Objs]
  BY DEF ListsTypeOK
<1>3. value \in Injection(DOMAIN node, Objs)
  BY <1>2 DEF Injection, IsInjective, Distinct
<1>4. IsFiniteSet(DOMAIN node) /\ Cardinality(DOMAIN node) <= Cardinality(Objs)
  BY <1>1, <1>3, FS_Injection
<1> QED BY <1>1, <1>4, FS_CardinalityType DEF ListsAssumption

\* The chain has len nodes, and no more than there are objects.
LEMMA ChainIsShort ==
    ASSUME ListsAssumption, ListsTypeOK, Distinct, NEW s, Linked(s)
    PROVE  /\ Len(s) \in Nat /\ Len(s) = llen /\ Cardinality(DOMAIN node) = llen
           /\ llen <= Cardinality(Objs) /\ llen <= Cardinality(Nodes)
<1>1. s \in Seq(Nodes) /\ IsInjective(s) /\ ToSet(s) = DOMAIN node /\ Len(s) = llen
  BY DEF Linked, Chain
<1>2. Cardinality(DOMAIN node) = llen
  BY <1>1, ChainCounts
<1> QED BY <1>1, <1>2, FewNodes

-----------------------------------------------------------------------------
(* Walking.                                                                *)

Walk(nd, f) ==
    CHOOSE w : w = [i \in 0..Cardinality(Nodes) |->
                      IF i = 0 THEN f
                      ELSE IF w[i - 1] = NULL THEN NULL
                      ELSE nd[w[i - 1]].next]

\* The walk of Lists, with the pointers it follows as its arguments.
LEMMA NodeAtIsWalk == NodeAt = Walk(node, first)
BY DEF NodeAt, Walk

\* The walk meets the nodes of the chain in their order, and then NULL.
LEMMA WalkIsChain ==
    ASSUME ListsAssumption, NEW nd, NEW f, NEW l, NEW ln, NEW s, Chain(nd, f, l, ln, s)
    PROVE  Walk(nd, f) = [i \in 0..Cardinality(Nodes) |-> At(s, i + 1)]
<1> DEFINE N == Cardinality(Nodes)
           R(w) == [i \in 0..N |-> IF i = 0 THEN f
                                   ELSE IF w[i - 1] = NULL THEN NULL
                                   ELSE nd[w[i - 1]].next]
           c == [i \in 0..N |-> At(s, i + 1)]
           walk == Walk(nd, f)
<1>1. N \in Nat
  BY FS_CardinalityType DEF ListsAssumption
<1>2. /\ s \in Seq(Nodes) /\ NULL \notin Nodes /\ f = At(s, 1)
      /\ \A i \in 1..Len(s) : nd[s[i]].next = At(s, i + 1)
  BY DEF Chain, ListsAssumption
<1>3. Len(s) \in Nat /\ \A i \in 1..Len(s) : s[i] # NULL
  BY <1>2
<1>4. \A i \in 0..N : i # 0 => i - 1 \in 0..N /\ c[i - 1] = At(s, i)
  BY <1>1
<1>5. \A i \in 1..N : At(s, i + 1) = IF At(s, i) = NULL THEN NULL ELSE nd[At(s, i)].next
  BY <1>1, <1>2, <1>3 DEF At
<1>6. c = R(c)
  <2>1. \A i \in 0..N : c[i] = R(c)[i]
    <3> SUFFICES ASSUME NEW i \in 0..N PROVE c[i] = R(c)[i]
      OBVIOUS
    <3>1. CASE i = 0
      BY <1>2, <3>1
    <3>2. CASE i # 0
      BY <1>1, <1>4, <1>5, <3>2
    <3> QED BY <3>1, <3>2
  <2> QED BY <2>1
<1>7. walk = R(walk)
  <2>1. walk = CHOOSE w : w = R(w)
    BY DEF Walk
  <2> HIDE DEF R, c, walk
  <2> QED BY <1>6, <2>1, Zenon
<1> DEFINE wrong == {i \in 0..N : walk[i] # c[i]}
<1>8. wrong = {}
  <2> SUFFICES ASSUME wrong # {} PROVE FALSE
    OBVIOUS
  <2> DEFINE k == Min(wrong)
  <2>1. wrong \subseteq Nat
    BY <1>1
  <2>2. k \in wrong /\ \A j \in wrong : k <= j
    <3> HIDE DEF wrong
    <3> QED BY <2>1, MinFacts
  <2> HIDE DEF k
  <2>3. k \in 0..N /\ walk[k] # c[k]
    BY <2>2
  <2>4. \A i \in 0..N : walk[i] = IF i = 0 THEN f ELSE IF walk[i - 1] = NULL THEN NULL
                                                  ELSE nd[walk[i - 1]].next
    <3> HIDE DEF walk
    <3> QED BY <1>7
  <2>5. CASE k = 0
    BY <1>1, <1>2, <2>3, <2>4, <2>5
  <2>6. CASE k # 0
    <3>1. k - 1 \in 0..N /\ ~(k <= k - 1)
      BY <1>1, <2>3, <2>6
    <3>2. walk[k - 1] = c[k - 1]
      BY <2>2, <3>1
    <3>3. c[k - 1] = At(s, k) /\ k \in 1..N /\ c[k] = At(s, k + 1)
      BY <1>1, <1>4, <2>3, <2>6
    <3> HIDE DEF walk, c
    <3> QED BY <1>5, <2>3, <2>4, <2>6, <3>2, <3>3
  <2> QED BY <2>5, <2>6
<1>9. DOMAIN walk = 0..N /\ walk = [i \in 0..N |-> walk[i]]
  <2> HIDE DEF walk
  <2> QED BY <1>7
<1>10. \A i \in 0..N : walk[i] = c[i]
  BY <1>8
<1> HIDE DEF walk
<1> QED BY <1>9, <1>10 DEF walk

-----------------------------------------------------------------------------
(* Searching.                                                              *)

\* The walk stands on the nodes of the chain, one after the other.
LEMMA WalkFacts ==
    ASSUME ListsAssumption, NEW s, Linked(s)
    PROVE  NodeAt = [i \in 0..Cardinality(Nodes) |-> At(s, i + 1)]
BY NodeAtIsWalk, WalkIsChain DEF Linked

\* _co_list_find_node finds the node of an object, at its place in the chain.
LEMMA FindFacts ==
    ASSUME ListsAssumption, ListsTypeOK, Distinct, NEW s, Linked(s), NEW o
    PROVE  /\ ~co_list_contains(o) => /\ _co_list_find_node(o) = NULL
                                      /\ \A i \in 1..Len(s) : node[s[i]].value # o
           /\ co_list_contains(o) => \E k \in 1..Len(s) : /\ _co_list_find_node(o) = s[k]
                                                          /\ node[s[k]].value = o
                                                          /\ s[k] \in DOMAIN node
<1> DEFINE N == Cardinality(Nodes)
<1>1. /\ s \in Seq(Nodes) /\ ToSet(s) = DOMAIN node /\ NULL \notin Nodes
      /\ Len(s) \in Nat /\ Len(s) <= N /\ N \in Nat
  BY ChainIsShort, FewNodes DEF Linked, Chain, ListsAssumption
<1>2. DOMAIN NodeAt = 0..N /\ \A i \in 0..N : NodeAt[i] = At(s, i + 1)
  BY WalkFacts
<1>3. \A i \in 0..N : NodeAt[i] # NULL => i + 1 \in 1..Len(s) /\ NodeAt[i] = s[i + 1]
  BY <1>1, <1>2 DEF At
<1>4. \A k \in 1..Len(s) : k - 1 \in 0..N /\ NodeAt[k - 1] = s[k] /\ s[k] # NULL
  BY <1>1, <1>2 DEF At
<1>5. CASE ~co_list_contains(o)
  <2>1. Hits(o) = {}
    BY <1>5 DEF co_list_contains
  <2>2. \A i \in 1..Len(s) : node[s[i]].value # o
    BY <1>2, <1>4, <2>1 DEF Hits
  <2> QED BY <1>5, <2>1, <2>2 DEF _co_list_find_node
<1>6. CASE co_list_contains(o)
  <2>1. Hits(o) # {} /\ Hits(o) \subseteq Nat
    BY <1>1, <1>2, <1>6 DEF co_list_contains, Hits
  <2>2. Min(Hits(o)) \in Hits(o)
    BY <2>1, MinFacts
  <2> DEFINE i == Min(Hits(o))
  <2>3. _co_list_find_node(o) = NodeAt[i]
    BY <2>1 DEF _co_list_find_node
  <2> HIDE DEF i
  <2>4. i \in 0..N /\ NodeAt[i] # NULL /\ node[NodeAt[i]].value = o
    BY <1>2, <2>2 DEF Hits, i
  <2>5. i + 1 \in 1..Len(s) /\ NodeAt[i] = s[i + 1]
    BY <1>3, <2>4
  <2>6. s[i + 1] \in DOMAIN node
    BY <1>1, <2>5, ToSetMeans
  <2> QED BY <1>6, <2>3, <2>4, <2>5, <2>6
<1> QED BY <1>5, <1>6

-----------------------------------------------------------------------------
(* Linking and unlinking a node.                                           *)

\* A new node between two neighbours of the chain, or at an end of it.
LEMMA LinkChain ==
    ASSUME ListsAssumption, ListsTypeOK, Distinct, NEW s, Linked(s), NEW p \in 1..Len(s) + 1,
           NEW o \in Objs, NEW n \in Nodes \ DOMAIN node,
           \A m \in DOMAIN node : node[m].value # o,
           Link(o, n, At(s, p - 1), At(s, p))
    PROVE  /\ Chain(node', first', last', llen', InsertAt(s, p, n))
           /\ DOMAIN node' = DOMAIN node \cup {n}
           /\ \A m \in DOMAIN node : node'[m].value = node[m].value
           /\ node'[n].value = o
           /\ \A m \in DOMAIN node' :
                 node'[m] \in [prev : Nodes \cup {NULL}, next : Nodes \cup {NULL}, value : Objs]
           /\ llen' \in 0..LenMod - 1 /\ llen' <= Cardinality(Nodes)
<1> DEFINE before == At(s, p - 1)
           after == At(s, p)
           t == InsertAt(s, p, n)
<1>1. /\ s \in Seq(Nodes) /\ IsInjective(s) /\ ToSet(s) = DOMAIN node /\ Len(s) = llen
      /\ Len(s) \in Nat /\ NULL \notin Nodes /\ p \in 1..Len(s) + 1
      /\ first = At(s, 1) /\ last = At(s, Len(s))
  BY DEF Linked, Chain, ListsAssumption
<1>2. \A i \in 1..Len(s) : /\ s[i] \in DOMAIN node /\ s[i] \in Nodes /\ s[i] # n /\ s[i] # NULL
                           /\ node[s[i]].prev = At(s, i - 1) /\ node[s[i]].next = At(s, i + 1)
  BY <1>1, ToSetMeans DEF Linked, Chain
<1>3. \A i, j \in 1..Len(s) : s[i] = s[j] => i = j
  BY <1>1 DEF IsInjective
<1>4. /\ node' = [m \in DOMAIN node \cup {n} |->
                  CASE m = n      -> [prev |-> before, next |-> after, value |-> o]
                    [] m = before -> [node[m] EXCEPT !.next = n]
                    [] m = after  -> [node[m] EXCEPT !.prev = n]
                    [] OTHER      -> node[m]]
      /\ first' = IF before = NULL THEN n ELSE first
      /\ last' = IF after = NULL THEN n ELSE last
      /\ llen' = (llen + 1) % LenMod
  BY DEF Link, _co_list_change_length
<1>5. /\ before = IF p = 1 THEN NULL ELSE s[p - 1]
      /\ after = IF p = Len(s) + 1 THEN NULL ELSE s[p]
      /\ before # n /\ after # n /\ (before # NULL => before # after)
  BY <1>1, <1>2, <1>3 DEF At
<1>6. /\ t \in Seq(Nodes) /\ Len(t) = Len(s) + 1
      /\ \A j \in 1..Len(s) + 1 : t[j] = IF j < p THEN s[j] ELSE IF j = p THEN n ELSE s[j - 1]
  <2>1. PutAt(Nodes, s, p, n, t)
    BY <1>1, InsertAtInserts
  <2> QED BY <2>1 DEF PutAt
<1>7. IsInjective(t)
  BY <1>1, InjectiveInsert
<1>8. ToSet(t) = DOMAIN node \cup {n}
  BY <1>1, ToSetInsertAt
<1> HIDE DEF before, after, t
<1>9. DOMAIN node' = DOMAIN node \cup {n}
  BY <1>4
<1>10. /\ node'[n] = [prev |-> before, next |-> after, value |-> o]
       /\ \A m \in DOMAIN node :
             node'[m] = IF m = before THEN [node[m] EXCEPT !.next = n]
                        ELSE IF m = after THEN [node[m] EXCEPT !.prev = n] ELSE node[m]
  <2>1. \A m \in DOMAIN node : m # n /\ m # NULL
    BY <1>1 DEF ListsTypeOK
  <2>2. node'[n] = [prev |-> before, next |-> after, value |-> o]
    BY <1>4, <1>5
  <2> SUFFICES ASSUME NEW m \in DOMAIN node
               PROVE  node'[m] = IF m = before THEN [node[m] EXCEPT !.next = n]
                                 ELSE IF m = after THEN [node[m] EXCEPT !.prev = n] ELSE node[m]
    BY <2>2
  <2>3. node'[m] = CASE m = n      -> [prev |-> before, next |-> after, value |-> o]
                     [] m = before -> [node[m] EXCEPT !.next = n]
                     [] m = after  -> [node[m] EXCEPT !.prev = n]
                     [] OTHER      -> node[m]
    BY <1>4
  <2> QED BY <1>5, <2>1, <2>3
<1>11. \A m \in DOMAIN node :
          /\ node[m] \in [prev : Nodes \cup {NULL}, next : Nodes \cup {NULL}, value : Objs]
          /\ node'[m].value = node[m].value
          /\ node'[m].prev = IF m = after /\ m # before THEN n ELSE node[m].prev
          /\ node'[m].next = IF m = before THEN n ELSE node[m].next
  BY <1>10 DEF ListsTypeOK
<1>12. /\ llen' = llen + 1 /\ llen + 1 \in 0..LenMod - 1
       /\ llen' <= Cardinality(Nodes)
  <2>1. llen + 1 <= Cardinality(Objs)
    <3>1. Cardinality(DOMAIN node \cup {n}) = llen + 1
      BY <1>1, <1>6, <1>7, <1>8, ChainCounts
    <3> DEFINE value == [m \in DOMAIN node \cup {n} |-> IF m = n THEN o ELSE node[m].value]
    <3>2. value \in [DOMAIN node \cup {n} -> Objs]
      BY <1>11
    <3>3. value \in Injection(DOMAIN node \cup {n}, Objs)
      BY <3>2 DEF Injection, IsInjective, Distinct
    <3>4. IsFiniteSet(Objs)
      BY DEF ListsAssumption
    <3> HIDE DEF value
    <3>5. Cardinality(DOMAIN node \cup {n}) <= Cardinality(Objs)
      BY <3>3, <3>4, FS_Injection
    <3> QED BY <3>1, <3>5
  <2>2. LenMod \in Nat /\ Cardinality(Objs) \in Nat /\ Cardinality(Objs) < LenMod /\ llen \in Nat
    BY <1>1, FewNodes
  <2>3. llen + 1 \in 0..LenMod - 1
    BY <2>1, <2>2
  <2>4. (llen + 1) % LenMod = llen + 1
    BY <2>2, <2>3
  <2>5. llen + 1 <= Cardinality(Nodes)
    BY <2>1, <2>2, FewNodes
  <2> QED BY <1>4, <2>3, <2>4, <2>5
<1>13. first' = At(t, 1) /\ last' = At(t, Len(t))
  BY <1>1, <1>2, <1>4, <1>5, <1>6 DEF At
<1>14. ASSUME NEW j \in 1..Len(t)
       PROVE  node'[t[j]].prev = At(t, j - 1) /\ node'[t[j]].next = At(t, j + 1)
  <2>1. CASE j = p
    <3>1. t[j] = n
      BY <1>6, <2>1
    <3>2. At(t, j - 1) = before /\ At(t, j + 1) = after
      BY <1>1, <1>5, <1>6, <2>1 DEF At
    <3> QED BY <1>10, <3>1, <3>2
  <2>2. CASE j < p
    <3>1. j \in 1..Len(s) /\ t[j] = s[j] /\ s[j] \in DOMAIN node
      BY <1>1, <1>2, <1>6, <2>2
    <3>2. At(t, j - 1) = At(s, j - 1) /\ At(t, j + 1) = IF j + 1 = p THEN n ELSE At(s, j + 1)
      BY <1>1, <1>6, <2>2 DEF At
    <3>3. (s[j] = before <=> j + 1 = p) /\ s[j] # after
      <4>1. p - 1 \in 1..Len(s) /\ p # 1 /\ before = s[p - 1]
        BY <1>1, <1>5, <2>2, <3>1
      <4>2. s[j] = before <=> j = p - 1
        BY <1>3, <3>1, <4>1
      <4>3. CASE p = Len(s) + 1
        BY <1>1, <1>2, <1>5, <3>1, <4>2, <4>1, <4>3
      <4>4. CASE p # Len(s) + 1
        <5>1. p \in 1..Len(s) /\ after = s[p] /\ j # p
          BY <1>1, <1>5, <2>2, <4>4
        <5>2. s[j] # after
          BY <1>3, <3>1, <5>1
        <5> QED BY <4>1, <4>2, <5>2, <3>1
      <4> QED BY <4>3, <4>4
    <3> QED BY <1>2, <1>11, <3>1, <3>2, <3>3
  <2>3. CASE j > p
    <3>1. j - 1 \in 1..Len(s) /\ t[j] = s[j - 1] /\ s[j - 1] \in DOMAIN node
      BY <1>1, <1>2, <1>6, <2>3
    <3>2. At(t, j - 1) = (IF j - 1 = p THEN n ELSE At(s, j - 2)) /\ At(t, j + 1) = At(s, j)
      BY <1>1, <1>6, <2>3 DEF At
    <3>3. (s[j - 1] = after <=> j - 1 = p) /\ s[j - 1] # before
      <4>1. p \in 1..Len(s) /\ p # Len(s) + 1 /\ after = s[p]
        BY <1>1, <1>5, <1>6, <2>3
      <4>2. s[j - 1] = after <=> j - 1 = p
        BY <1>3, <3>1, <4>1
      <4>3. CASE p = 1
        BY <1>2, <1>5, <3>1, <4>2, <4>3
      <4>4. CASE p # 1
        <5>1. p - 1 \in 1..Len(s) /\ before = s[p - 1] /\ j - 1 # p - 1
          BY <1>1, <1>5, <2>3, <4>1, <4>4
        <5> QED BY <1>3, <3>1, <4>2, <5>1
      <4> QED BY <4>3, <4>4
    <3>4. node[s[j - 1]].prev = At(s, j - 2) /\ node[s[j - 1]].next = At(s, j)
      BY <1>2, <3>1
    <3> QED BY <1>11, <3>1, <3>2, <3>3, <3>4
  <2> QED BY <1>6, <2>1, <2>2, <2>3
<1>15. Chain(node', first', last', llen', t)
  BY <1>1, <1>6, <1>7, <1>8, <1>9, <1>12, <1>13, <1>14 DEF Chain
<1>16. ASSUME NEW m \in DOMAIN node'
       PROVE  node'[m] \in [prev : Nodes \cup {NULL}, next : Nodes \cup {NULL}, value : Objs]
  <2>1. before \in Nodes \cup {NULL} /\ after \in Nodes \cup {NULL}
    BY <1>1, <1>2, <1>5
  <2> QED BY <1>9, <1>10, <1>11, <2>1
<1> QED BY <1>9, <1>10, <1>11, <1>12, <1>15, <1>16 DEF t

\* A node leaves the chain, and its neighbours become each other's.
LEMMA UnlinkChain ==
    ASSUME ListsAssumption, ListsTypeOK, Distinct, NEW s, Linked(s), NEW p \in 1..Len(s), Unlink(s[p])
    PROVE  /\ Chain(node', first', last', llen', RemoveAt(s, p))
           /\ DOMAIN node' = DOMAIN node \ {s[p]}
           /\ \A m \in DOMAIN node' : node'[m].value = node[m].value
           /\ \A m \in DOMAIN node' :
                 node'[m] \in [prev : Nodes \cup {NULL}, next : Nodes \cup {NULL}, value : Objs]
           /\ llen' \in 0..LenMod - 1 /\ llen' <= Cardinality(Nodes)
<1> DEFINE n == s[p]
           t == RemoveAt(s, p)
<1>1. /\ s \in Seq(Nodes) /\ IsInjective(s) /\ ToSet(s) = DOMAIN node /\ Len(s) = llen
      /\ Len(s) \in Nat /\ NULL \notin Nodes /\ p \in 1..Len(s)
      /\ first = At(s, 1) /\ last = At(s, Len(s))
  BY DEF Linked, Chain, ListsAssumption
<1>2. \A i \in 1..Len(s) : /\ s[i] \in DOMAIN node /\ s[i] \in Nodes /\ s[i] # NULL
                           /\ node[s[i]].prev = At(s, i - 1) /\ node[s[i]].next = At(s, i + 1)
  BY <1>1, ToSetMeans DEF Linked, Chain
<1>3. \A i, j \in 1..Len(s) : s[i] = s[j] => i = j
  BY <1>1 DEF IsInjective
<1>4. n \in DOMAIN node /\ n # NULL /\ node[n].prev = At(s, p - 1) /\ node[n].next = At(s, p + 1)
  BY <1>1, <1>2
<1>5. /\ node' = [m \in DOMAIN node \ {n} |->
                    [prev |-> IF m = At(s, p + 1) THEN At(s, p - 1) ELSE node[m].prev,
                     next |-> IF m = At(s, p - 1) THEN At(s, p + 1) ELSE node[m].next,
                     value |-> node[m].value]]
      /\ first' = IF At(s, p - 1) = NULL THEN At(s, p + 1) ELSE first
      /\ last' = IF At(s, p + 1) = NULL THEN At(s, p - 1) ELSE last
      /\ llen' = (llen + (LenMod - 1)) % LenMod
  BY <1>4 DEF Unlink, Bypass, _co_list_change_length
<1>6. /\ t \in Seq(Nodes) /\ Len(t) = Len(s) - 1
      /\ \A j \in 1..Len(s) - 1 : t[j] = IF j < p THEN s[j] ELSE s[j + 1]
  BY <1>1, RemoveAtFacts
<1>7. IsInjective(t)
  BY <1>1, InjectiveRemove
<1>8. ToSet(t) = DOMAIN node \ {n}
  <2>1. \A i, j \in 1..Len(s) : i # j => s[i] # s[j]
    BY <1>3
  <2> QED BY <1>1, <2>1, ToSetRemoveAt
<1> HIDE DEF n, t
<1>9. DOMAIN node' = DOMAIN node \ {n}
  BY <1>5
<1>10. \A m \in DOMAIN node \ {n} :
          node'[m] = [prev |-> IF m = At(s, p + 1) THEN At(s, p - 1) ELSE node[m].prev,
                      next |-> IF m = At(s, p - 1) THEN At(s, p + 1) ELSE node[m].next,
                      value |-> node[m].value]
  BY <1>5
<1>11. \A m \in DOMAIN node \ {n} :
          /\ node'[m].prev = IF m = At(s, p + 1) THEN At(s, p - 1) ELSE node[m].prev
          /\ node'[m].next = IF m = At(s, p - 1) THEN At(s, p + 1) ELSE node[m].next
          /\ node'[m].value = node[m].value
  <2> SUFFICES ASSUME NEW m \in DOMAIN node \ {n}
               PROVE  /\ node'[m].prev = IF m = At(s, p + 1) THEN At(s, p - 1) ELSE node[m].prev
                      /\ node'[m].next = IF m = At(s, p - 1) THEN At(s, p + 1) ELSE node[m].next
                      /\ node'[m].value = node[m].value
    OBVIOUS
  <2> DEFINE pv == IF m = At(s, p + 1) THEN At(s, p - 1) ELSE node[m].prev
             nx == IF m = At(s, p - 1) THEN At(s, p + 1) ELSE node[m].next
  <2>1. node'[m] = [prev |-> pv, next |-> nx, value |-> node[m].value]
    BY <1>10
  <2> HIDE DEF pv, nx
  <2>2. node'[m].prev = pv /\ node'[m].next = nx /\ node'[m].value = node[m].value
    BY <2>1
  <2> QED BY <2>2 DEF pv, nx
<1>12. llen' = llen - 1 /\ llen - 1 \in 0..LenMod - 1 /\ llen' <= Cardinality(Nodes)
  <2>1. llen \in Nat /\ llen >= 1 /\ llen < LenMod /\ LenMod \in Nat
    BY <1>1, ChainIsShort, FewNodes
  <2>2. (llen + (LenMod - 1)) % LenMod = llen - 1
    <3>1. llen + (LenMod - 1) = LenMod + (llen - 1) /\ llen - 1 \in 0..LenMod - 1
      BY <2>1
    <3>2. \A a \in Nat, b \in Nat : a < b => (b + a) % b = a
      OBVIOUS
    <3> QED BY <2>1, <3>1, <3>2
  <2>3. llen <= Cardinality(Nodes) /\ Cardinality(Nodes) \in Nat
    BY ChainIsShort, FewNodes
  <2> QED BY <1>5, <2>1, <2>2, <2>3
<1>13. first' = At(t, 1) /\ last' = At(t, Len(t))
  <2>1. At(s, p - 1) = NULL <=> p = 1
    BY <1>1, <1>2 DEF At
  <2>2. At(s, p + 1) = NULL <=> p = Len(s)
    BY <1>1, <1>2 DEF At
  <2>3. first' = At(t, 1)
    BY <1>1, <1>5, <1>6, <2>1 DEF At
  <2>4. last' = At(t, Len(t))
    BY <1>1, <1>5, <1>6, <2>2 DEF At
  <2> QED BY <2>3, <2>4
<1>14. \A i \in 1..Len(s), j \in Int : s[i] = At(s, j) <=> i = j
  BY <1>1, <1>2, <1>3 DEF At
<1>15. ASSUME NEW j \in 1..Len(t)
       PROVE  node'[t[j]].prev = At(t, j - 1) /\ node'[t[j]].next = At(t, j + 1)
  <2>1. CASE j < p
    <3>1. j \in 1..Len(s) /\ t[j] = s[j] /\ s[j] \in DOMAIN node \ {n}
      BY <1>1, <1>2, <1>3, <1>6, <2>1 DEF n
    <3>2. /\ At(t, j - 1) = At(s, j - 1)
          /\ At(t, j + 1) = IF j + 1 = p THEN At(s, p + 1) ELSE At(s, j + 1)
      BY <1>1, <1>6, <2>1 DEF At
    <3>3. s[j] # At(s, p + 1) /\ (s[j] = At(s, p - 1) <=> j + 1 = p)
      BY <1>1, <1>14, <2>1, <3>1
    <3>4. /\ node'[s[j]].prev = At(s, j - 1)
          /\ node'[s[j]].next = IF j + 1 = p THEN At(s, p + 1) ELSE At(s, j + 1)
      <4>1. node[s[j]].prev = At(s, j - 1) /\ node[s[j]].next = At(s, j + 1)
        BY <1>2, <3>1
      <4> QED BY <1>11, <3>1, <3>3, <4>1
    <3> QED BY <3>1, <3>2, <3>4
  <2>2. CASE j >= p
    <3>1. j + 1 \in 1..Len(s) /\ t[j] = s[j + 1] /\ s[j + 1] \in DOMAIN node \ {n}
      BY <1>1, <1>2, <1>3, <1>6, <2>2 DEF n
    <3>2. At(t, j - 1) = (IF j = p THEN At(s, p - 1) ELSE At(s, j)) /\ At(t, j + 1) = At(s, j + 2)
      BY <1>1, <1>6, <2>2 DEF At
    <3>3. (s[j + 1] = At(s, p + 1) <=> j = p) /\ s[j + 1] # At(s, p - 1)
      BY <1>1, <1>14, <2>2, <3>1
    <3>4. node[s[j + 1]].prev = At(s, j) /\ node[s[j + 1]].next = At(s, j + 2)
      BY <1>2, <3>1
    <3>5. /\ node'[s[j + 1]].prev = IF j = p THEN At(s, p - 1) ELSE At(s, j)
          /\ node'[s[j + 1]].next = At(s, j + 2)
      BY <1>11, <3>1, <3>3, <3>4
    <3> QED BY <3>1, <3>2, <3>5
  <2> QED BY <1>1, <1>6, <2>1, <2>2
<1>16. Chain(node', first', last', llen', t)
  BY <1>1, <1>6, <1>7, <1>8, <1>9, <1>12, <1>13, <1>15 DEF Chain
<1>17. ASSUME NEW m \in DOMAIN node'
       PROVE  /\ node'[m] \in [prev : Nodes \cup {NULL}, next : Nodes \cup {NULL}, value : Objs]
              /\ node'[m].value = node[m].value
  <2>1. At(s, p - 1) \in Nodes \cup {NULL} /\ At(s, p + 1) \in Nodes \cup {NULL}
    BY <1>1, <1>2 DEF At
  <2>2. m \in DOMAIN node \ {n}
    BY <1>9
  <2>3. node[m] \in [prev : Nodes \cup {NULL}, next : Nodes \cup {NULL}, value : Objs]
    BY <2>2 DEF ListsTypeOK
  <2> DEFINE pv == IF m = At(s, p + 1) THEN At(s, p - 1) ELSE node[m].prev
             nx == IF m = At(s, p - 1) THEN At(s, p + 1) ELSE node[m].next
  <2>4. node'[m] = [prev |-> pv, next |-> nx, value |-> node[m].value]
    BY <1>10, <2>2
  <2>5. pv \in Nodes \cup {NULL} /\ nx \in Nodes \cup {NULL} /\ node[m].value \in Objs
    BY <2>1, <2>3
  <2> HIDE DEF pv, nx
  <2> QED BY <2>4, <2>5
<1> QED BY <1>9, <1>12, <1>16, <1>17 DEF n, t

-----------------------------------------------------------------------------
(* The objects in the order of the chain.                                  *)

ItemsOf(nd, f, ln) == [i \in 1..ln |-> nd[Walk(nd, f)[i - 1]].value]

\* The list its users see, read from the pointers before a call and after it.
LEMMA ItemsNow == items = ItemsOf(node, first, llen)
BY DEF items, ItemsOf, NodeAt, Walk

LEMMA ItemsNext == items' = ItemsOf(node', first', llen')
BY DEF items, ItemsOf, NodeAt, Walk

\* What is read from a chain are the objects of its nodes, in its order.
LEMMA ChainItems ==
    ASSUME ListsAssumption, NEW nd, NEW f, NEW l, NEW ln, NEW s, Chain(nd, f, l, ln, s),
           ln <= Cardinality(Nodes)
    PROVE  ItemsOf(nd, f, ln) = [i \in 1..Len(s) |-> nd[s[i]].value]
<1>1. s \in Seq(Nodes) /\ Len(s) = ln /\ Len(s) \in Nat /\ Cardinality(Nodes) \in Nat
  BY FS_CardinalityType DEF Chain, ListsAssumption
<1>2. Walk(nd, f) = [i \in 0..Cardinality(Nodes) |-> At(s, i + 1)]
  BY WalkIsChain
<1>3. \A i \in 1..ln : i - 1 \in 0..Cardinality(Nodes) /\ At(s, (i - 1) + 1) = s[i]
  BY <1>1 DEF At
<1>4. \A i \in 1..ln : Walk(nd, f)[i - 1] = s[i]
  BY <1>2, <1>3
<1> QED BY <1>1, <1>4 DEF ItemsOf

\* What users see of the list, at the positions of the chain.
LEMMA ItemsFacts ==
    ASSUME ListsAssumption, ListsTypeOK, Distinct, NEW s, Linked(s)
    PROVE  /\ items \in Seq(Objs) /\ Len(items) = Len(s) /\ Len(items) = llen
           /\ \A i \in 1..Len(s) : items[i] = node[s[i]].value
           /\ \A i, j \in 1..Len(s) : items[i] = items[j] => i = j
<1>1. items = [i \in 1..Len(s) |-> node[s[i]].value]
  BY ItemsNow, ChainItems, ChainIsShort DEF Linked
<1>2. /\ s \in Seq(Nodes) /\ IsInjective(s) /\ ToSet(s) = DOMAIN node /\ Len(s) = llen
      /\ Len(s) \in Nat
  BY DEF Linked, Chain
<1>3. \A i \in 1..Len(s) : s[i] \in DOMAIN node
  BY <1>2, ToSetMeans
<1>4. \A i \in 1..Len(s) : node[s[i]].value \in Objs
  BY <1>3 DEF ListsTypeOK
<1>5. items \in Seq(Objs) /\ Len(items) = Len(s)
  BY <1>1, <1>2, <1>4
<1>6. \A i, j \in 1..Len(s) : items[i] = items[j] => i = j
  BY <1>1, <1>2, <1>3 DEF Distinct, IsInjective
<1> QED BY <1>1, <1>2, <1>5, <1>6

\* An insertion into the chain is one into the list, and keeps the invariant.
LEMMA InsertInv ==
    ASSUME ListsAssumption, Inv, NEW s, Linked(s), NEW p \in 1..Len(s) + 1, NEW o \in Objs,
           NEW safe \in BOOLEAN, NEW n \in Nodes \ DOMAIN node,
           \A m \in DOMAIN node : node[m].value # o,
           Link(o, n, At(s, p - 1), At(s, p)), Attach(o, n, safe), UNCHANGED lfreed
    PROVE  Inv' /\ items' = InsertAt(items, p, o)
<1> DEFINE t == InsertAt(s, p, n)
<1>1. ListsTypeOK /\ Distinct /\ Owned
  BY DEF Inv
<1>2. /\ Chain(node', first', last', llen', t)
      /\ DOMAIN node' = DOMAIN node \cup {n}
      /\ \A m \in DOMAIN node : node'[m].value = node[m].value
      /\ node'[n].value = o
      /\ \A m \in DOMAIN node' :
            node'[m] \in [prev : Nodes \cup {NULL}, next : Nodes \cup {NULL}, value : Objs]
      /\ llen' \in 0..LenMod - 1 /\ llen' <= Cardinality(Nodes)
  BY <1>1, LinkChain
<1>3. /\ s \in Seq(Nodes) /\ ToSet(s) = DOMAIN node /\ Len(s) = llen /\ Len(s) \in Nat
      /\ DOMAIN node \subseteq Nodes
  BY <1>1 DEF Linked, Chain, ListsTypeOK
<1>4. /\ t \in Seq(Nodes) /\ Len(t) = Len(s) + 1
      /\ \A j \in 1..Len(s) + 1 : t[j] = IF j < p THEN s[j] ELSE IF j = p THEN n ELSE s[j - 1]
  <2>1. PutAt(Nodes, s, p, n, t)
    BY <1>3, InsertAtInserts
  <2> QED BY <2>1 DEF PutAt
<1> HIDE DEF t
<1>5. first' \in Nodes \cup {NULL} /\ last' \in Nodes \cup {NULL}
  BY <1>2, <1>4 DEF Chain, At
<1>6. owner' \in [Objs -> Nodes \cup {Other, NULL}] /\ lfreed' \subseteq Objs
  BY <1>1 DEF ListsTypeOK, Attach
<1>7. ListsTypeOK'
  BY <1>2, <1>3, <1>5, <1>6 DEF ListsTypeOK
<1>8. Distinct'
  BY <1>1, <1>2 DEF Distinct
<1>9. Owned'
  <2> SUFFICES ASSUME NEW x \in Objs, owner'[x] \in Nodes
               PROVE  owner'[x] \in DOMAIN node' /\ node'[owner'[x]].value = x
    BY DEF Owned
  <2>1. CASE safe /\ x = o
    BY <1>1, <1>2, <2>1 DEF Attach, ListsTypeOK
  <2>2. CASE ~(safe /\ x = o)
    <3>1. owner'[x] = owner[x]
      BY <1>1, <2>2 DEF Attach, ListsTypeOK
    <3> QED BY <1>1, <1>2, <3>1 DEF Owned
  <2> QED BY <2>1, <2>2
<1>10. Linked(t)'
  BY <1>2 DEF Linked
<1>11. Inv'
  BY <1>7, <1>8, <1>9, <1>10 DEF Inv
<1>12. items' = [i \in 1..Len(t) |-> node'[t[i]].value]
  BY <1>2, ItemsNext, ChainItems
<1>13. /\ items \in Seq(Objs) /\ Len(items) = Len(s)
       /\ \A i \in 1..Len(s) : items[i] = node[s[i]].value
  BY <1>1, ItemsFacts
<1> DEFINE u == InsertAt(items, p, o)
<1>14. /\ u \in Seq(Objs) /\ Len(u) = Len(items) + 1
       /\ \A j \in 1..Len(items) + 1 :
             u[j] = IF j < p THEN items[j] ELSE IF j = p THEN o ELSE items[j - 1]
  <2>1. PutAt(Objs, items, p, o, u)
    BY <1>13, InsertAtInserts
  <2> QED BY <2>1 DEF PutAt
<1> HIDE DEF u
<1>15. \A i \in 1..Len(s) : s[i] \in DOMAIN node
  BY <1>3, ToSetMeans
<1>16. ASSUME NEW j \in 1..Len(t) PROVE node'[t[j]].value = u[j]
  <2>1. CASE j < p
    <3>1. j \in 1..Len(s) /\ t[j] = s[j] /\ u[j] = items[j]
      BY <1>3, <1>4, <1>13, <1>14, <2>1
    <3> QED BY <1>2, <1>13, <1>15, <3>1
  <2>2. CASE j = p
    BY <1>2, <1>3, <1>4, <1>13, <1>14, <2>2
  <2>3. CASE j > p
    <3>1. j - 1 \in 1..Len(s) /\ t[j] = s[j - 1] /\ u[j] = items[j - 1]
      BY <1>3, <1>4, <1>13, <1>14, <2>3
    <3> QED BY <1>2, <1>13, <1>15, <3>1
  <2> QED BY <1>3, <1>4, <2>1, <2>2, <2>3
<1>17. items' = u
  <2>1. items' = [j \in 1..Len(u) |-> u[j]]
    BY <1>4, <1>12, <1>13, <1>14, <1>16
  <2> QED BY <1>14, <2>1
<1> QED BY <1>11, <1>17 DEF u

\* A removal from the chain is one from the list, and keeps the invariant.
LEMMA DeleteInv ==
    ASSUME ListsAssumption, Inv, NEW s, Linked(s), NEW p \in 1..Len(s), Unlink(s[p]),
           UNCHANGED lfreed
    PROVE  Inv' /\ items' = RemoveAt(items, p)
<1> DEFINE t == RemoveAt(s, p)
           n == s[p]
<1>1. ListsTypeOK /\ Distinct /\ Owned
  BY DEF Inv
<1>2. /\ Chain(node', first', last', llen', t)
      /\ DOMAIN node' = DOMAIN node \ {n}
      /\ \A m \in DOMAIN node' : node'[m].value = node[m].value
      /\ \A m \in DOMAIN node' :
            node'[m] \in [prev : Nodes \cup {NULL}, next : Nodes \cup {NULL}, value : Objs]
      /\ llen' \in 0..LenMod - 1 /\ llen' <= Cardinality(Nodes)
  BY <1>1, UnlinkChain
<1>3. /\ s \in Seq(Nodes) /\ ToSet(s) = DOMAIN node /\ Len(s) = llen /\ Len(s) \in Nat
      /\ DOMAIN node \subseteq Nodes /\ \A i \in 1..Len(s) : s[i] \in DOMAIN node
  <2>1. /\ s \in Seq(Nodes) /\ ToSet(s) = DOMAIN node /\ Len(s) = llen /\ Len(s) \in Nat
        /\ DOMAIN node \subseteq Nodes
    BY <1>1 DEF Linked, Chain, ListsTypeOK
  <2>2. \A i \in 1..Len(s) : s[i] \in DOMAIN node
    BY <2>1, ToSetMeans
  <2> QED BY <2>1, <2>2
<1>4. /\ t \in Seq(Nodes) /\ Len(t) = Len(s) - 1
      /\ \A j \in 1..Len(s) - 1 : t[j] = IF j < p THEN s[j] ELSE s[j + 1]
  BY <1>3, RemoveAtFacts
<1>5. n \in DOMAIN node /\ owner' = [owner EXCEPT ![node[n].value] = NULL]
  BY <1>3 DEF Unlink
<1> HIDE DEF t, n
<1>6. first' \in Nodes \cup {NULL} /\ last' \in Nodes \cup {NULL}
  BY <1>2, <1>4 DEF Chain, At
<1>7. owner' \in [Objs -> Nodes \cup {Other, NULL}] /\ lfreed' \subseteq Objs
  BY <1>1, <1>5 DEF ListsTypeOK
<1>8. ListsTypeOK'
  BY <1>2, <1>3, <1>6, <1>7 DEF ListsTypeOK
<1>9. Distinct'
  BY <1>1, <1>2 DEF Distinct
<1>10. Owned'
  <2> SUFFICES ASSUME NEW x \in Objs, owner'[x] \in Nodes
               PROVE  owner'[x] \in DOMAIN node' /\ node'[owner'[x]].value = x
    BY DEF Owned
  <2>1. NULL \notin Nodes /\ owner \in [Objs -> Nodes \cup {Other, NULL}]
    BY <1>1 DEF ListsAssumption, ListsTypeOK
  <2>2. x # node[n].value /\ owner'[x] = owner[x]
    BY <1>5, <2>1
  <2>3. owner[x] \in DOMAIN node /\ node[owner[x]].value = x
    BY <1>1, <2>2 DEF Owned
  <2> QED BY <1>2, <2>2, <2>3
<1>11. Inv'
  <2>1. Linked(t)'
    BY <1>2 DEF Linked
  <2> QED BY <1>8, <1>9, <1>10, <2>1 DEF Inv
<1>12. items' = [i \in 1..Len(t) |-> node'[t[i]].value]
  BY <1>2, ItemsNext, ChainItems
<1>13. /\ items \in Seq(Objs) /\ Len(items) = Len(s)
       /\ \A i \in 1..Len(s) : items[i] = node[s[i]].value
  BY <1>1, ItemsFacts
<1> DEFINE u == RemoveAt(items, p)
<1>14. /\ u \in Seq(Objs) /\ Len(u) = Len(items) - 1
       /\ \A j \in 1..Len(items) - 1 : u[j] = IF j < p THEN items[j] ELSE items[j + 1]
  BY <1>13, RemoveAtFacts
<1> HIDE DEF u
<1>15. \A j \in 1..Len(t) : t[j] \in DOMAIN node'
  BY <1>2, <1>4, ToSetMeans DEF Chain
<1>16. ASSUME NEW j \in 1..Len(t) PROVE node'[t[j]].value = u[j]
  <2>1. node'[t[j]].value = node[t[j]].value
    BY <1>2, <1>15
  <2>2. CASE j < p
    <3>1. j \in 1..Len(s) /\ t[j] = s[j] /\ u[j] = items[j]
      BY <1>3, <1>4, <1>13, <1>14, <2>2
    <3> QED BY <1>13, <2>1, <3>1
  <2>3. CASE j >= p
    <3>1. j + 1 \in 1..Len(s) /\ t[j] = s[j + 1] /\ u[j] = items[j + 1]
      BY <1>3, <1>4, <1>13, <1>14, <2>3
    <3> QED BY <1>13, <2>1, <3>1
  <2> QED BY <1>3, <1>4, <2>2, <2>3
<1>17. items' = u
  <2>1. items' = [j \in 1..Len(u) |-> u[j]]
    BY <1>4, <1>12, <1>13, <1>14, <1>16
  <2> QED BY <1>14, <2>1
<1> QED BY <1>11, <1>17 DEF u

-----------------------------------------------------------------------------
(* The calls, each as the step of ListService it is.                       *)

\* ListService uses the operators of the library under its own name.
LEMMA ServiceLibrary ==
    /\ \A s, e : Service!Contains(s, e) <=> Contains(s, e)
    /\ \A s, i, e : Service!InsertAt(s, i, e) = InsertAt(s, i, e)
    /\ \A s, i : Service!RemoveAt(s, i) = RemoveAt(s, i)
BY DEF Service!Contains, Contains, Service!InsertAt, InsertAt, Service!RemoveAt, RemoveAt

\* An object is in the list when the search finds it, and its index is the
\* place of its node in the chain.
LEMMA HasFacts ==
    ASSUME ListsAssumption, Inv, NEW s, Linked(s), NEW o
    PROVE  /\ Service!Has(o) <=> co_list_contains(o)
           /\ co_list_contains(o) => /\ Service!Index(o) \in 1..Len(s)
                                     /\ Service!Index(o) \in 1..Len(items)
                                     /\ _co_list_find_node(o) = s[Service!Index(o)]
                                     /\ s[Service!Index(o)] \in DOMAIN node
                                     /\ node[s[Service!Index(o)]].value = o
           /\ ~co_list_contains(o) => /\ _co_list_find_node(o) = NULL
                                      /\ \A m \in DOMAIN node : node[m].value # o
<1>1. ListsTypeOK /\ Distinct
  BY DEF Inv
<1>2. /\ items \in Seq(Objs) /\ Len(items) = Len(s)
      /\ \A i \in 1..Len(s) : items[i] = node[s[i]].value
      /\ \A i, j \in 1..Len(s) : items[i] = items[j] => i = j
  BY <1>1, ItemsFacts
<1>3. s \in Seq(Nodes) /\ ToSet(s) = DOMAIN node
  BY DEF Linked, Chain
<1>4. Service!Has(o) <=> \E i \in 1..Len(s) : items[i] = o
  BY <1>2, ServiceLibrary DEF Service!Has, Contains
<1>5. CASE ~co_list_contains(o)
  <2>1. _co_list_find_node(o) = NULL /\ \A i \in 1..Len(s) : node[s[i]].value # o
    BY <1>1, <1>5, FindFacts
  <2>2. \A m \in DOMAIN node : \E i \in 1..Len(s) : s[i] = m
    BY <1>3, ToSetMeans
  <2> QED BY <1>2, <1>4, <1>5, <2>1, <2>2
<1>6. CASE co_list_contains(o)
  <2>1. PICK k \in 1..Len(s) : /\ _co_list_find_node(o) = s[k] /\ node[s[k]].value = o
                               /\ s[k] \in DOMAIN node
    BY <1>1, <1>6, FindFacts
  <2>2. items[k] = o
    BY <1>2, <2>1
  <2>3. Service!Index(o) = k
    <3>1. DOMAIN items = 1..Len(s)
      BY <1>2
    <3>2. Service!Index(o) \in 1..Len(s) /\ items[Service!Index(o)] = o
      BY <2>2, <3>1 DEF Service!Index
    <3> QED BY <1>2, <2>2, <3>2
  <2> QED BY <1>2, <1>4, <1>6, <2>1, <2>2, <2>3
<1> QED BY <1>5, <1>6

\* A call that changes nothing.
LEMMA SameInv ==
    ASSUME Inv, UNCHANGED <<listState, owner, lfreed>>
    PROVE  Inv' /\ items' = items
<1>1. node' = node /\ first' = first /\ last' = last /\ llen' = llen
      /\ owner' = owner /\ lfreed' = lfreed
  BY DEF listState
<1>2. items' = items
  BY <1>1, ItemsNow, ItemsNext
<1>3. ListsTypeOK' /\ Distinct' /\ Owned'
  BY <1>1 DEF Inv, ListsTypeOK, Distinct, Owned
<1>4. \A s : Linked(s) => Linked(s)'
  BY <1>1 DEF Linked
<1> QED BY <1>2, <1>3, <1>4 DEF Inv

\* An insertion in front of an object.
LEMMA BeforeStep ==
    ASSUME ListsAssumption, Inv, NEW s, Linked(s), NEW call, NEW o \in Objs, NEW this,
           NEW safe \in BOOLEAN, co_list_insert_before(call, o, this, safe)
    PROVE  /\ Inv'
           /\ IF Service!Has(this) THEN Service!InsertAtPos(call, o, Service!Index(this))
                                   ELSE Service!Refused(call)
<1>1. CASE _co_list_find_node(this) = NULL \/ co_list_contains(o)
  <2>1. lret' = <<call, 0>> /\ UNCHANGED <<listState, owner, lfreed>>
    BY <1>1 DEF co_list_insert_before, Refuse
  <2>2. Inv' /\ items' = items
    BY <2>1, SameInv
  <2>3. ~Service!Has(this) \/ Service!Has(o)
    <3>1. NULL \notin Nodes /\ DOMAIN node \subseteq Nodes
      BY DEF Inv, ListsTypeOK, ListsAssumption
    <3>2. co_list_contains(this) => _co_list_find_node(this) # NULL
      BY <3>1, HasFacts
    <3> QED BY <1>1, <3>2, HasFacts
  <2> QED BY <2>1, <2>2, <2>3 DEF Service!InsertAtPos, Service!Refused
<1>2. CASE ~(_co_list_find_node(this) = NULL \/ co_list_contains(o))
  <2> DEFINE p == Service!Index(this)
  <2>1. /\ co_list_contains(this) /\ Service!Has(this) /\ ~Service!Has(o)
        /\ p \in 1..Len(s) /\ _co_list_find_node(this) = s[p]
        /\ \A m \in DOMAIN node : node[m].value # o
    BY <1>2, HasFacts
  <2> HIDE DEF p
  <2>2. PICK n \in Nodes \ DOMAIN node :
           /\ Link(o, n, node[s[p]].prev, s[p])
           /\ Attach(o, n, safe)
           /\ lret' = <<call, 1>>
           /\ UNCHANGED lfreed
    BY <1>2, <2>1 DEF co_list_insert_before
  <2>3. node[s[p]].prev = At(s, p - 1) /\ s[p] = At(s, p)
    BY <2>1 DEF Linked, Chain, At
  <2>4. p \in 1..Len(s) + 1
    BY <2>1 DEF Linked, Chain
  <2>5. Link(o, n, At(s, p - 1), At(s, p))
    BY <2>2, <2>3
  <2>6. Inv' /\ items' = InsertAt(items, p, o)
    BY <2>1, <2>2, <2>4, <2>5, InsertInv
  <2> QED BY <2>1, <2>2, <2>6, ServiceLibrary DEF Service!InsertAtPos, p
<1> QED BY <1>1, <1>2

\* An insertion behind an object.
LEMMA AfterStep ==
    ASSUME ListsAssumption, Inv, NEW s, Linked(s), NEW call, NEW o \in Objs, NEW this,
           NEW safe \in BOOLEAN, co_list_insert_after(call, o, this, safe)
    PROVE  /\ Inv'
           /\ IF Service!Has(this) THEN Service!InsertAtPos(call, o, Service!Index(this) + 1)
                                   ELSE Service!Refused(call)
<1>1. CASE _co_list_find_node(this) = NULL \/ co_list_contains(o)
  <2>1. lret' = <<call, 0>> /\ UNCHANGED <<listState, owner, lfreed>>
    BY <1>1 DEF co_list_insert_after, Refuse
  <2>2. Inv' /\ items' = items
    BY <2>1, SameInv
  <2>3. ~Service!Has(this) \/ Service!Has(o)
    <3>1. NULL \notin Nodes /\ DOMAIN node \subseteq Nodes
      BY DEF Inv, ListsTypeOK, ListsAssumption
    <3>2. co_list_contains(this) => _co_list_find_node(this) # NULL
      BY <3>1, HasFacts
    <3> QED BY <1>1, <3>2, HasFacts
  <2> QED BY <2>1, <2>2, <2>3 DEF Service!InsertAtPos, Service!Refused
<1>2. CASE ~(_co_list_find_node(this) = NULL \/ co_list_contains(o))
  <2> DEFINE k == Service!Index(this)
             p == k + 1
  <2>1. /\ co_list_contains(this) /\ Service!Has(this) /\ ~Service!Has(o)
        /\ k \in 1..Len(s) /\ _co_list_find_node(this) = s[k]
        /\ \A m \in DOMAIN node : node[m].value # o
    BY <1>2, HasFacts
  <2> HIDE DEF k
  <2>2. PICK n \in Nodes \ DOMAIN node :
           /\ Link(o, n, s[k], node[s[k]].next)
           /\ Attach(o, n, safe)
           /\ lret' = <<call, 1>>
           /\ UNCHANGED lfreed
    BY <1>2, <2>1 DEF co_list_insert_after
  <2>3. p \in 1..Len(s) + 1 /\ p - 1 = k
    BY <2>1 DEF Linked, Chain
  <2>4. node[s[k]].next = At(s, p) /\ s[k] = At(s, p - 1)
    BY <2>1, <2>3 DEF Linked, Chain, At
  <2> HIDE DEF p
  <2>5. Link(o, n, At(s, p - 1), At(s, p))
    BY <2>2, <2>4
  <2>6. Inv' /\ items' = InsertAt(items, p, o)
    BY <2>1, <2>2, <2>3, <2>5, InsertInv
  <2> QED BY <2>1, <2>2, <2>6, ServiceLibrary DEF Service!InsertAtPos, p, k
<1> QED BY <1>1, <1>2

\* The first object of an empty list.
LEMMA OnlyStep ==
    ASSUME ListsAssumption, Inv, NEW s, Linked(s), llen = 0, NEW call, NEW o \in Objs,
           NEW safe \in BOOLEAN, InsertOnly(call, o, safe)
    PROVE  Inv' /\ Service!InsertAtPos(call, o, 1) /\ Len(items) = 0
<1>1. PICK n \in Nodes \ DOMAIN node :
         /\ node' = [m \in DOMAIN node \cup {n} |->
                       IF m = n THEN [prev |-> NULL, next |-> NULL, value |-> o]
                                ELSE node[m]]
         /\ first' = n
         /\ last' = n
         /\ _co_list_change_length(1)
         /\ Attach(o, n, safe)
         /\ lret' = <<call, 1>>
         /\ UNCHANGED lfreed
  BY DEF InsertOnly
<1>2. s \in Seq(Nodes) /\ Len(s) = 0 /\ DOMAIN node = {}
  <2>1. s \in Seq(Nodes) /\ Len(s) = 0 /\ DOMAIN node = ToSet(s)
    BY DEF Linked, Chain
  <2>2. \A x : x \notin ToSet(s)
    BY <2>1 DEF ToSet
  <2> QED BY <2>1, <2>2
<1>3. At(s, 0) = NULL /\ At(s, 1) = NULL
  BY <1>2 DEF At
<1>4. Link(o, n, NULL, NULL)
  <2>1. [m \in DOMAIN node \cup {n} |->
           IF m = n THEN [prev |-> NULL, next |-> NULL, value |-> o] ELSE node[m]]
        = [m \in DOMAIN node \cup {n} |->
             CASE m = n    -> [prev |-> NULL, next |-> NULL, value |-> o]
               [] m = NULL -> [node[m] EXCEPT !.next = n]
               [] m = NULL -> [node[m] EXCEPT !.prev = n]
               [] OTHER    -> node[m]]
    <3> DEFINE Alone(m) == IF m = n THEN [prev |-> NULL, next |-> NULL, value |-> o] ELSE node[m]
               Between(m) == CASE m = n    -> [prev |-> NULL, next |-> NULL, value |-> o]
                               [] m = NULL -> [node[m] EXCEPT !.next = n]
                               [] m = NULL -> [node[m] EXCEPT !.prev = n]
                               [] OTHER    -> node[m]
    <3>1. NULL # n /\ \A m \in DOMAIN node \cup {n} : m = n
      BY <1>2 DEF ListsAssumption
    <3>2. Alone(n) = Between(n)
      BY <3>1
    <3> HIDE DEF Alone, Between
    <3>3. \A m \in DOMAIN node \cup {n} : Alone(m) = Between(m)
      BY <3>1, <3>2
    <3>4. [m \in DOMAIN node \cup {n} |-> Alone(m)] = [m \in DOMAIN node \cup {n} |-> Between(m)]
      BY <3>3
    <3> QED BY <3>4 DEF Alone, Between
  <2>2. node' = [m \in DOMAIN node \cup {n} |->
             CASE m = n    -> [prev |-> NULL, next |-> NULL, value |-> o]
               [] m = NULL -> [node[m] EXCEPT !.next = n]
               [] m = NULL -> [node[m] EXCEPT !.prev = n]
               [] OTHER    -> node[m]]
    BY <1>1, <2>1
  <2> QED BY <1>1, <2>2 DEF Link
<1>5. Link(o, n, At(s, 1 - 1), At(s, 1))
  BY <1>3, <1>4
<1>6. 1 \in 1..Len(s) + 1 /\ \A m \in DOMAIN node : node[m].value # o
  BY <1>2
<1>7. Inv' /\ items' = InsertAt(items, 1, o)
  BY <1>1, <1>5, <1>6, InsertInv
<1>8. items \in Seq(Objs) /\ Len(items) = 0
  BY <1>2, ItemsFacts DEF Inv
<1>9. ~Service!Has(o)
  BY <1>8, ServiceLibrary DEF Service!Has, Contains
<1> QED BY <1>1, <1>7, <1>8, <1>9, ServiceLibrary DEF Service!InsertAtPos

\* The objects at the two ends.
LEMMA EndFacts ==
    ASSUME ListsAssumption, Inv, NEW s, Linked(s), llen # 0
    PROVE  /\ Service!Has(node[first].value) /\ Service!Index(node[first].value) = 1
           /\ Service!Has(node[last].value) /\ Service!Index(node[last].value) = Len(items)
<1>1. ListsTypeOK /\ Distinct
  BY DEF Inv
<1>2. /\ s \in Seq(Nodes) /\ Len(s) = llen /\ Len(s) \in Nat
      /\ first = At(s, 1) /\ last = At(s, Len(s))
  BY DEF Linked, Chain
<1>3. 1 \in 1..Len(s) /\ Len(s) \in 1..Len(s) /\ first = s[1] /\ last = s[Len(s)]
  BY <1>2 DEF At
<1>4. /\ items \in Seq(Objs) /\ Len(items) = Len(s)
      /\ \A i \in 1..Len(s) : items[i] = node[s[i]].value
      /\ \A i, j \in 1..Len(s) : items[i] = items[j] => i = j
  BY <1>1, ItemsFacts
<1>5. ASSUME NEW k \in 1..Len(s)
      PROVE  Service!Has(node[s[k]].value) /\ Service!Index(node[s[k]].value) = k
  <2>1. items[k] = node[s[k]].value /\ DOMAIN items = 1..Len(s)
    BY <1>4
  <2>2. Service!Has(node[s[k]].value)
    BY <1>4, <2>1, ServiceLibrary DEF Service!Has, Contains
  <2>3. /\ Service!Index(node[s[k]].value) \in 1..Len(s)
        /\ items[Service!Index(node[s[k]].value)] = node[s[k]].value
    BY <2>1 DEF Service!Index
  <2> QED BY <1>4, <2>1, <2>2, <2>3
<1> QED BY <1>3, <1>4, <1>5

\* co_list_prepend, whether the list is empty or not.
LEMMA PrependStep ==
    ASSUME ListsAssumption, Inv, NEW s, Linked(s), NEW o \in Objs, NEW safe \in BOOLEAN,
           co_list_prepend(o, safe)
    PROVE  Inv' /\ Service!AddFirst(o)
<1>1. CASE llen = 0
  <2>1. InsertOnly("prepend", o, safe)
    BY <1>1 DEF co_list_prepend
  <2> QED BY <1>1, <2>1, OnlyStep DEF Service!AddFirst
<1>2. CASE llen # 0
  <2>1. co_list_insert_before("prepend", o, node[first].value, TRUE)
    BY <1>2 DEF co_list_prepend
  <2> QED BY <1>2, <2>1, BeforeStep, EndFacts DEF Service!AddFirst
<1> QED BY <1>1, <1>2

\* co_list_append, whether the list is empty or not.
LEMMA AppendStep ==
    ASSUME ListsAssumption, Inv, NEW s, Linked(s), NEW o \in Objs, NEW safe \in BOOLEAN,
           co_list_append(o, safe)
    PROVE  Inv' /\ Service!AddLast(o)
<1>1. CASE llen = 0
  <2>1. InsertOnly("append", o, safe)
    BY <1>1 DEF co_list_append
  <2>2. Inv' /\ Service!InsertAtPos("append", o, 1) /\ Len(items) = 0
    BY <1>1, <2>1, OnlyStep
  <2>3. Len(items) + 1 = 1
    BY <2>2
  <2> QED BY <2>2, <2>3 DEF Service!AddLast
<1>2. CASE llen # 0
  <2>1. co_list_insert_after("append", o, node[last].value, TRUE)
    BY <1>2 DEF co_list_append
  <2> QED BY <1>2, <2>1, AfterStep, EndFacts DEF Service!AddLast
<1> QED BY <1>1, <1>2

\* Any of the four insertions.
LEMMA InsertionStep ==
    ASSUME ListsAssumption, Inv, NEW s, Linked(s), NEW o \in Objs, NEW safe \in BOOLEAN,
           Insertions(o, safe)
    PROVE  Inv' /\ Service!Next
<1>1. CASE co_list_append(o, safe)
  BY <1>1, AppendStep DEF Service!Next
<1>2. CASE co_list_prepend(o, safe)
  BY <1>2, PrependStep DEF Service!Next
<1>3. ASSUME NEW this \in Objs, co_list_insert_before("insert_before", o, this, safe)
      PROVE  Inv' /\ Service!Next
  <2>1. Inv' /\ Service!Before(o, this)
    BY <1>3, BeforeStep DEF Service!Before
  <2> QED BY <2>1 DEF Service!Next
<1>4. ASSUME NEW this \in Objs, co_list_insert_after("insert_after", o, this, safe)
      PROVE  Inv' /\ Service!Next
  <2>1. Inv' /\ Service!After(o, this)
    BY <1>4, AfterStep DEF Service!After
  <2> QED BY <2>1 DEF Service!Next
<1> QED BY <1>1, <1>2, <1>3, <1>4 DEF Insertions

\* co_list_delete takes out the object at its index, or nothing.
LEMMA DeleteStep ==
    ASSUME ListsAssumption, Inv, NEW s, Linked(s), NEW o \in Objs, co_list_delete(o)
    PROVE  Inv' /\ Service!Delete(o)
<1>1. CASE _co_list_find_node(o) = NULL
  <2>1. lret' = <<"delete", NULL>> /\ UNCHANGED <<listState, owner, lfreed>>
    BY <1>1 DEF co_list_delete
  <2>2. NULL \notin Nodes /\ DOMAIN node \subseteq Nodes
    BY DEF Inv, ListsTypeOK, ListsAssumption
  <2>3. ~Service!Has(o)
    BY <1>1, <2>2, HasFacts
  <2>4. Inv' /\ items' = items
    BY <2>1, SameInv
  <2> QED BY <2>1, <2>3, <2>4 DEF Service!Delete
<1>2. CASE _co_list_find_node(o) # NULL
  <2> DEFINE p == Service!Index(o)
  <2>1. Service!Has(o) /\ p \in 1..Len(s) /\ _co_list_find_node(o) = s[p]
    BY <1>2, HasFacts
  <2> HIDE DEF p
  <2>2. Unlink(s[p]) /\ lret' = <<"delete", o>> /\ UNCHANGED lfreed
    BY <1>2, <2>1 DEF co_list_delete
  <2>3. Inv' /\ items' = RemoveAt(items, p)
    BY <2>1, <2>2, DeleteInv
  <2> QED BY <2>1, <2>2, <2>3, ServiceLibrary DEF Service!Delete, p
<1> QED BY <1>1, <1>2

\* co_list_element reads the object at a position, NULL behind the last.
LEMMA ElementStep ==
    ASSUME ListsAssumption, Inv, NEW s, Linked(s), NEW i \in DOMAIN NodeAt, co_list_element(i)
    PROVE  Inv' /\ Service!Element(i) /\ i \in 0..Cardinality(Nodes)
<1>1. /\ lret' = <<"element",
                  IF first = NULL /\ i = 0 THEN Fault
                  ELSE IF NodeAt[i] = NULL THEN NULL
                  ELSE node[NodeAt[i]].value>>
      /\ UNCHANGED <<listState, owner, lfreed>>
  BY DEF co_list_element
<1>2. Inv' /\ items' = items
  BY <1>1, SameInv
<1>3. /\ s \in Seq(Nodes) /\ NULL \notin Nodes /\ Len(s) \in Nat /\ first = At(s, 1)
  BY DEF Linked, Chain, ListsAssumption
<1>4. i \in 0..Cardinality(Nodes) /\ NodeAt[i] = At(s, i + 1)
  BY WalkFacts
<1>5. i \in Nat
  <2>1. Cardinality(Nodes) \in Nat
    BY FewNodes DEF Inv
  <2> QED BY <1>4, <2>1
<1>6. /\ items \in Seq(Objs) /\ Len(items) = Len(s)
      /\ \A j \in 1..Len(s) : items[j] = node[s[j]].value
  BY ItemsFacts DEF Inv
<1>7. CASE i < Len(s)
  <2>1. i + 1 \in 1..Len(s) /\ At(s, i + 1) = s[i + 1] /\ s[i + 1] # NULL
    BY <1>3, <1>5, <1>7 DEF At
  <2>2. ~(first = NULL /\ i = 0)
    BY <1>3, <2>1 DEF At
  <2>3. lret' = <<"element", items[i + 1]>>
    BY <1>1, <1>4, <1>6, <2>1, <2>2
  <2> QED BY <1>2, <1>4, <1>6, <1>7, <2>3 DEF Service!Element
<1>8. CASE ~(i < Len(s))
  <2>1. At(s, i + 1) = NULL /\ (first = NULL <=> Len(s) = 0)
    BY <1>3, <1>5, <1>8 DEF At
  <2>2. items = <<>> <=> Len(s) = 0
    BY <1>3, <1>6
  <2>3. lret' = <<"element", IF items = <<>> /\ i = 0 THEN Fault ELSE NULL>>
    BY <1>1, <1>4, <2>1, <2>2
  <2> QED BY <1>2, <1>4, <1>6, <1>8, <2>3 DEF Service!Element
<1> QED BY <1>7, <1>8

\* co_list_length tells how many objects there are.
LEMMA LengthStep ==
    ASSUME ListsAssumption, Inv, NEW s, Linked(s), co_list_length
    PROVE  Inv' /\ Service!Length
<1>1. Len(items) = llen
  BY ItemsFacts DEF Inv
<1>2. Inv' /\ items' = items
  BY SameInv DEF co_list_length
<1> QED BY <1>1, <1>2 DEF co_list_length, Service!Length

\* The list without nodes.
LEMMA EmptyChain ==
    Chain(<<>>, NULL, NULL, 0, <<>>) /\ \A nd, f : ItemsOf(nd, f, 0) = <<>>
<1>1. <<>> \in Seq(Nodes) /\ Len(<<>>) = 0 /\ DOMAIN <<>> = {}
  OBVIOUS
<1>2. IsInjective(<<>>) /\ ToSet(<<>>) = {}
  BY <1>1 DEF IsInjective, ToSet
<1>3. At(<<>>, 1) = NULL /\ At(<<>>, 0) = NULL
  BY DEF At
<1>4. \A nd, f : ItemsOf(nd, f, 0) = <<>>
  BY DEF ItemsOf
<1> QED BY <1>1, <1>2, <1>3, <1>4 DEF Chain

\* co_obj_free leaves the empty list.
LEMMA FreeStep ==
    ASSUME ListsAssumption, Inv, co_obj_free
    PROVE  Inv' /\ Service!Free
<1>1. /\ node' = <<>> /\ first' = NULL /\ last' = NULL /\ llen' = 0
      /\ lfreed' = lfreed \cup {o \in Objs : owner[o] \in DOMAIN node}
      /\ owner' = [o \in Objs |-> IF owner[o] \in DOMAIN node THEN NULL ELSE owner[o]]
      /\ lret' = <<"free", NULL>>
  BY DEF co_obj_free
<1>2. items' = <<>>
  BY <1>1, ItemsNext, EmptyChain
<1>3. ListsTypeOK /\ Owned /\ NULL \notin Nodes
  BY DEF Inv, ListsAssumption
<1>4. LenMod \in Nat /\ 0 < LenMod
  BY FewNodes DEF Inv
<1>5. DOMAIN node' = {}
  BY <1>1
<1>6. ListsTypeOK'
  <2>1. owner' \in [Objs -> Nodes \cup {Other, NULL}] /\ lfreed' \subseteq Objs
    BY <1>1, <1>3 DEF ListsTypeOK
  <2>2. llen' \in 0..LenMod - 1
    BY <1>1, <1>4
  <2> QED BY <1>1, <1>5, <2>1, <2>2 DEF ListsTypeOK
<1>7. Distinct' /\ Owned'
  <2>1. \A o \in Objs : owner'[o] \notin Nodes
    BY <1>1, <1>3 DEF Owned
  <2> QED BY <1>5, <2>1 DEF Distinct, Owned
<1>8. Linked(<<>>)'
  BY <1>1, EmptyChain DEF Linked
<1>9. Inv'
  BY <1>6, <1>7, <1>8 DEF Inv
<1> QED BY <1>1, <1>2, <1>9 DEF Service!Free

-----------------------------------------------------------------------------
(* The theorems.                                                           *)

\* A new list is the empty one.
LEMMA InitInv == ASSUME ListsAssumption, ListsInit PROVE Inv /\ Service!Init
<1>1. /\ node = <<>> /\ first = NULL /\ last = NULL /\ llen = 0 /\ lfreed = {}
      /\ owner = [o \in Objs |-> IF o \in Borrowed THEN Other ELSE NULL]
      /\ lret = <<"create", NULL>>
  BY DEF ListsInit
<1>2. NULL \notin Nodes /\ Other \notin Nodes /\ DOMAIN node = {}
  BY <1>1 DEF ListsAssumption
<1>3. LenMod \in Nat /\ 0 < LenMod
  <2>1. Cardinality(Objs) \in Nat
    BY FS_CardinalityType DEF ListsAssumption
  <2> QED BY <2>1 DEF ListsAssumption
<1>4. ListsTypeOK
  <2>1. llen \in 0..LenMod - 1
    BY <1>1, <1>3
  <2>2. owner \in [Objs -> Nodes \cup {Other, NULL}]
    BY <1>1
  <2> QED BY <1>1, <1>2, <2>1, <2>2 DEF ListsTypeOK
<1>5. Distinct /\ Owned
  <2>1. \A o \in Objs : owner[o] \notin Nodes
    BY <1>1, <1>2
  <2> QED BY <1>2, <2>1 DEF Distinct, Owned
<1>6. Linked(<<>>)
  BY <1>1, EmptyChain DEF Linked
<1>7. items = <<>>
  BY <1>1, ItemsNow, EmptyChain
<1> QED BY <1>1, <1>4, <1>5, <1>6, <1>7 DEF Inv, Service!Init

\* Every call keeps the invariant and is a step of ListService.
LEMMA NextInv ==
    ASSUME ListsAssumption, Inv, [ListsNext]_listVars
    PROVE  Inv' /\ [Service!Next]_<<items, lret>>
<1>1. PICK s : Linked(s)
  BY DEF Inv
<1>2. ASSUME NEW o \in Objs, NEW safe \in BOOLEAN, Insertions(o, safe)
      PROVE  Inv' /\ Service!Next
  BY <1>1, <1>2, InsertionStep
<1>3. ASSUME NEW o \in Objs, co_list_delete(o)
      PROVE  Inv' /\ Service!Next
  BY <1>1, <1>3, DeleteStep DEF Service!Next
<1>4. ASSUME NEW i \in DOMAIN NodeAt, co_list_element(i)
      PROVE  Inv' /\ Service!Next
  BY <1>1, <1>4, ElementStep DEF Service!Next
<1>5. CASE co_list_length
  BY <1>1, <1>5, LengthStep DEF Service!Next
<1>6. CASE co_obj_free
  BY <1>6, FreeStep DEF Service!Next
<1>7. CASE UNCHANGED listVars
  BY <1>7, SameInv DEF listVars
<1> QED BY <1>2, <1>3, <1>4, <1>5, <1>6, <1>7 DEF ListsNext

\* In every state there is a chain that the pointers of all nodes follow, no object
\* is there twice, and an object that belongs to a node is the object of that node.
THEOREM ListInvariant == ASSUME ListsAssumption PROVE ListsSpec => []Inv
<1>1. ListsInit => Inv
  BY InitInv
<1>2. Inv /\ [ListsNext]_listVars => Inv'
  BY NextInv
<1> QED BY <1>1, <1>2, PTL DEF ListsSpec

\* The pointers, the counter and the owners stay within their types.
THEOREM ListsType == ASSUME ListsAssumption PROVE ListsSpec => []ListsTypeOK
<1>1. Inv => ListsTypeOK
  BY DEF Inv
<1> QED BY <1>1, ListInvariant, PTL

\* WellLinked follows from the invariant.
LEMMA InvWellLinked == ASSUME ListsAssumption, Inv PROVE WellLinked
<1>1. ListsTypeOK /\ Distinct /\ Owned
  BY DEF Inv
<1>2. PICK s : Linked(s)
  BY DEF Inv
<1>3. /\ s \in Seq(Nodes) /\ ToSet(s) = DOMAIN node /\ Len(s) = llen /\ Len(s) \in Nat
      /\ NULL \notin Nodes /\ first = At(s, 1) /\ last = At(s, Len(s))
      /\ \A i \in 1..Len(s) : node[s[i]].prev = At(s, i - 1)
  BY <1>2 DEF Linked, Chain, ListsAssumption
<1>4. Cardinality(DOMAIN node) = llen /\ llen <= Cardinality(Nodes) /\ Cardinality(Nodes) \in Nat
  BY <1>1, <1>2, ChainIsShort, FewNodes
<1>5. \A i \in 0..Cardinality(Nodes) : NodeAt[i] = At(s, i + 1)
  BY <1>2, WalkFacts
<1>6. NodeAt[llen] = NULL
  BY <1>3, <1>4, <1>5 DEF At
<1>7. \A i \in 0..llen - 1 : i + 1 \in 1..Len(s) /\ NodeAt[i] = s[i + 1]
  BY <1>3, <1>4, <1>5 DEF At
<1>8. {NodeAt[i] : i \in 0..(llen - 1)} = DOMAIN node
  <2>1. \A i \in 0..(llen - 1) : NodeAt[i] \in DOMAIN node
    BY <1>3, <1>7, ToSetMeans
  <2>2. ASSUME NEW m \in DOMAIN node PROVE \E i \in 0..(llen - 1) : NodeAt[i] = m
    <3>1. PICK k \in 1..Len(s) : s[k] = m
      BY <1>3, ToSetMeans
    <3>2. k - 1 \in 0..(llen - 1) /\ (k - 1) + 1 = k
      BY <1>3, <3>1
    <3> QED BY <1>7, <3>1, <3>2
  <2> QED BY <2>1, <2>2
<1>9. last = IF llen = 0 THEN NULL ELSE NodeAt[llen - 1]
  BY <1>3, <1>7 DEF At
<1>10. \A i \in 0..(llen - 1) : node[NodeAt[i]].prev = IF i = 0 THEN NULL ELSE NodeAt[i - 1]
  <2> SUFFICES ASSUME NEW i \in 0..(llen - 1)
               PROVE  node[NodeAt[i]].prev = IF i = 0 THEN NULL ELSE NodeAt[i - 1]
    OBVIOUS
  <2>1. node[NodeAt[i]].prev = At(s, i)
    <3>1. i + 1 \in 1..Len(s) /\ (i + 1) - 1 = i /\ NodeAt[i] = s[i + 1]
      BY <1>3, <1>7
    <3> QED BY <1>3, <3>1
  <2>2. CASE i = 0
    BY <2>1, <2>2 DEF At
  <2>3. CASE i # 0
    <3>1. i - 1 \in 0..(llen - 1) /\ (i - 1) + 1 = i
      BY <1>3, <2>3
    <3>2. NodeAt[i - 1] = s[i] /\ i \in 1..Len(s)
      BY <1>7, <3>1
    <3> QED BY <2>1, <2>3, <3>2 DEF At
  <2> QED BY <2>2, <2>3
<1>11. \A o \in Objs : owner[o] \in DOMAIN node => node[owner[o]].value = o
  BY <1>1 DEF Owned, ListsTypeOK
<1> QED BY <1>1, <1>4, <1>6, <1>8, <1>9, <1>10, <1>11 DEF WellLinked, Distinct

\* After any calls the walk along the next pointers meets every node once and
\* ends at _last, the prev pointers are its reverse, _len counts the nodes, and
\* an object that belongs to a node is the object of that node: with any number
\* of objects and a counter of any width that can count them.
THEOREM AlwaysWellLinked == ASSUME ListsAssumption PROVE ListsSpec => []WellLinked
<1>1. Inv => WellLinked
  BY InvWellLinked
<1> QED BY <1>1, ListInvariant, PTL

\* Whatever calls are made, the pointers hold the sequence of distinct objects
\* that ListService promises, and each call returns what it says there.
THEOREM ListsImplemented == ASSUME ListsAssumption PROVE ListsSpec => ImplementsSequence
<1>1. ListsInit => Service!Init
  BY InitInv
<1>2. Inv /\ [ListsNext]_listVars => [Service!Next]_<<items, lret>>
  BY NextInv
<1> QED BY <1>1, <1>2, ListInvariant, PTL DEF ListsSpec, ImplementsSequence, Service!Spec

=============================================================================
