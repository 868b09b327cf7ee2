---------------------------- MODULE TreesProofs ----------------------------
(***************************************************************************)
(* Proofs about Trees, and about Registry, which keeps the commands in a   *)
(* tree.  A key's way through a tree is the sequence of positions its      *)
(* search passes (OnWay); it ends at one position, where co_tree_find_node *)
(* stops (FindFacts), and two keys whose ways end at the same node are the *)
(* same (SameKey).  A tree is Sound if the key of a node is the one whose  *)
(* way ends there, Alive if no leaf is without a value; insertion and      *)
(* deletion keep it so.  co_tree_next walks from a node to the next one    *)
(* and leaves behind, in every step, what comes before it (WalkFacts);     *)
(* co_tree_process visits the subtrees of a node after it and apart from   *)
(* each other (PreorderFacts).                                             *)
(***************************************************************************)
EXTENDS TreeEnum, Commands, ListLemmas, FiniteSetTheorems

\* The first i links on the way to p.
Upto(p, i) == SubSeq(p, 1, i)

\* The search for k passes every position on the way to p, and no earlier
\* one is its end.
OnWay(t, k, p) ==
    /\ p \in Seq(Links)
    /\ \A i \in 1..Len(p) :
           /\ Upto(p, i - 1) \in DOMAIN t
           /\ ~Ends(t, k, Upto(p, i - 1))
           /\ p[i] = LinkAt(t, k, Upto(p, i - 1))

EndsAt(t, k, p) == OnWay(t, k, p) /\ Ends(t, k, p)

\* The keys a tree can be searched for, and those of Trees: terminated by
\* their only 0.
IsString(k) == k \in Seq(Nat) \ {<<>>}
IsKey(k) == IsString(k) /\ \A i \in DOMAIN k : k[i] = 0 <=> i = Len(k)

-----------------------------------------------------------------------------
(* Positions.                                                              *)

LEMMA UptoFacts ==
    ASSUME NEW p \in Seq(Links), NEW i \in 0..Len(p)
    PROVE  /\ Upto(p, i) \in Seq(Links) /\ Len(Upto(p, i)) = i
           /\ \A j \in 1..i : Upto(p, i)[j] = p[j]
BY DEF Upto

LEMMA SamePosition ==
    ASSUME NEW p \in Seq(Links), NEW q \in Seq(Links), Len(p) = Len(q),
           \A j \in 1..Len(p) : p[j] = q[j]
    PROVE  p = q
BY SeqEqual

LEMMA UptoUpto ==
    ASSUME NEW p \in Seq(Links), NEW i \in 0..Len(p), NEW j \in 0..i
    PROVE  Upto(Upto(p, i), j) = Upto(p, j)
<1>1. Len(p) \in Nat /\ j \in 0..Len(p)
  OBVIOUS
<1>2. /\ Upto(p, i) \in Seq(Links) /\ Len(Upto(p, i)) = i
      /\ \A h \in 1..i : Upto(p, i)[h] = p[h]
  BY UptoFacts
<1>3. /\ Upto(p, j) \in Seq(Links) /\ Len(Upto(p, j)) = j
      /\ \A h \in 1..j : Upto(p, j)[h] = p[h]
  BY <1>1, UptoFacts
<1>4. /\ Upto(Upto(p, i), j) \in Seq(Links) /\ Len(Upto(Upto(p, i), j)) = j
      /\ \A h \in 1..j : Upto(Upto(p, i), j)[h] = Upto(p, i)[h]
  BY <1>2, UptoFacts
<1>5. \A h \in 1..j : Upto(Upto(p, i), j)[h] = Upto(p, j)[h]
  BY <1>1, <1>2, <1>3, <1>4
<1> QED BY <1>3, <1>4, <1>5, SamePosition

LEMMA UptoEnds ==
    ASSUME NEW p \in Seq(Links)
    PROVE  Upto(p, Len(p)) = p /\ Upto(p, 0) = Root
<1>1. Len(p) \in 0..Len(p) /\ 0 \in 0..Len(p) /\ Root \in Seq(Links) /\ Len(Root) = 0
  BY DEF Root
<1>2. Upto(p, Len(p)) = p
  BY <1>1, UptoFacts, SamePosition
<1>3. Upto(p, 0) = Root
  BY <1>1, UptoFacts, SamePosition
<1> QED BY <1>2, <1>3

\* A position below another one.
LEMMA ChildFacts ==
    ASSUME NEW p \in Seq(Links), NEW link \in Links
    PROVE  /\ Child(p, link) \in Seq(Links) /\ Len(Child(p, link)) = Len(p) + 1
           /\ Child(p, link) # Root
           /\ Child(p, link)[Len(p) + 1] = link
           /\ \A i \in 0..Len(p) : Upto(Child(p, link), i) = Upto(p, i)
           /\ Upto(Child(p, link), Len(p)) = p
<1> DEFINE c == Child(p, link)
<1>1. /\ c \in Seq(Links) /\ Len(c) = Len(p) + 1 /\ c # Root /\ c[Len(p) + 1] = link
      /\ \A j \in 1..Len(p) : c[j] = p[j]
  BY AppendProperties DEF Child, Root
<1> HIDE DEF c
<1>2. \A i \in 0..Len(p) : Upto(c, i) = Upto(p, i)
  <2> SUFFICES ASSUME NEW i \in 0..Len(p) PROVE Upto(c, i) = Upto(p, i)
    OBVIOUS
  <2>1. i \in 0..Len(c) /\ Len(p) \in Nat
    BY <1>1
  <2>2. /\ Upto(c, i) \in Seq(Links) /\ Len(Upto(c, i)) = i
        /\ \A j \in 1..i : Upto(c, i)[j] = c[j]
    BY <1>1, <2>1, UptoFacts
  <2>3. /\ Upto(p, i) \in Seq(Links) /\ Len(Upto(p, i)) = i
        /\ \A j \in 1..i : Upto(p, i)[j] = p[j]
    BY UptoFacts
  <2>4. ASSUME NEW j \in 1..i PROVE Upto(c, i)[j] = Upto(p, i)[j]
    <3>1. j \in 1..Len(p)
      BY <2>1
    <3> QED BY <1>1, <2>2, <2>3, <3>1
  <2> QED BY <2>2, <2>3, <2>4, SamePosition
<1>3. Upto(c, Len(p)) = p
  <2>1. Len(p) \in 0..Len(p)
    OBVIOUS
  <2> QED BY <1>2, <2>1, UptoEnds
<1> QED BY <1>1, <1>2, <1>3 DEF c

\* A position other than the root is a child of its parent.
LEMMA ParentFacts ==
    ASSUME NEW p \in Seq(Links), p # Root
    PROVE  /\ Len(p) - 1 \in 0..Len(p) /\ Len(p) \in Nat \ {0}
           /\ Parent(p) = Upto(p, Len(p) - 1)
           /\ Parent(p) \in Seq(Links) /\ Len(Parent(p)) = Len(p) - 1
           /\ p[Len(p)] \in Links /\ p = Child(Parent(p), p[Len(p)])
<1>1. Len(p) \in Nat \ {0} /\ Len(p) - 1 \in 0..Len(p) /\ p[Len(p)] \in Links
  BY EmptySeq DEF Root
<1>2. Parent(p) = Upto(p, Len(p) - 1)
  BY DEF Parent, Front, Upto
<1>3. /\ Parent(p) \in Seq(Links) /\ Len(Parent(p)) = Len(p) - 1
      /\ \A j \in 1..Len(p) - 1 : Parent(p)[j] = p[j]
  <2> DEFINE i == Len(p) - 1
  <2> HIDE DEF i
  <2>1. i \in 0..Len(p)
    BY <1>1 DEF i
  <2>2. /\ Upto(p, i) \in Seq(Links) /\ Len(Upto(p, i)) = i
        /\ \A j \in 1..i : Upto(p, i)[j] = p[j]
    BY <2>1, UptoFacts
  <2>3. Parent(p) = Upto(p, i)
    BY <1>2 DEF i
  <2>4. /\ Parent(p) \in Seq(Links) /\ Len(Parent(p)) = i
        /\ \A j \in 1..i : Parent(p)[j] = p[j]
    BY <2>2, <2>3
  <2> QED BY <2>4 DEF i
<1> DEFINE q == Parent(p)
           c == Child(q, p[Len(p)])
<1>4. /\ c \in Seq(Links) /\ Len(c) = Len(p) /\ c[Len(p)] = p[Len(p)]
      /\ \A j \in 1..Len(p) - 1 : c[j] = p[j]
  <2>1. Len(q) + 1 = Len(p)
    BY <1>1, <1>3
  <2> HIDE DEF q
  <2> QED BY <1>1, <1>3, <2>1, AppendProperties DEF Child, q
<1> HIDE DEF c, q
<1>5. \A j \in 1..Len(p) : c[j] = p[j]
  BY <1>1, <1>4
<1>6. c = p
  BY <1>4, <1>5, SamePosition
<1> QED BY <1>1, <1>2, <1>3, <1>6 DEF c, q

-----------------------------------------------------------------------------
(* Indexes.                                                                *)

LEMMA IndexType ==
    ASSUME NEW p \in Seq(Links)
    PROVE  IsFiniteSet({j \in DOMAIN p : p[j] = "equal"}) /\ IndexAt(p) \in Nat \ {0}
<1> DEFINE E == {j \in DOMAIN p : p[j] = "equal"}
<1>1. IsFiniteSet(1..Len(p)) /\ E \in SUBSET (1..Len(p))
  BY FS_Interval
<1>2. IsFiniteSet(E)
  BY <1>1, FS_Subset
<1>3. Cardinality(E) \in Nat
  BY <1>2, FS_CardinalityType
<1>4. 1 + Cardinality(E) \in Nat \ {0}
  <2> HIDE DEF E
  <2> QED BY <1>3
<1> QED BY <1>2, <1>4 DEF IndexAt

\* An equal link leads to the next character, the others to the same one.
LEMMA IndexChild ==
    ASSUME NEW p \in Seq(Links), NEW link \in Links
    PROVE  IndexAt(Child(p, link)) = IF link = "equal" THEN IndexAt(p) + 1 ELSE IndexAt(p)
<1> DEFINE c == Child(p, link)
           E == {j \in DOMAIN p : p[j] = "equal"}
           F == {j \in DOMAIN c : c[j] = "equal"}
<1>1. /\ c \in Seq(Links) /\ Len(c) = Len(p) + 1 /\ c[Len(p) + 1] = link
      /\ \A j \in 1..Len(p) : c[j] = p[j]
  BY AppendProperties DEF Child
<1>2. IsFiniteSet(E) /\ Len(p) + 1 \notin E
  BY IndexType
<1>3. F = IF link = "equal" THEN E \cup {Len(p) + 1} ELSE E
  <2> HIDE DEF c
  <2>1. DOMAIN c = DOMAIN p \cup {Len(p) + 1}
    BY <1>1
  <2>2. \A j \in DOMAIN p : c[j] = p[j]
    BY <1>1
  <2> QED BY <1>1, <2>1, <2>2
<1>4. Cardinality(E \cup {Len(p) + 1}) = Cardinality(E) + 1 /\ Cardinality(E) \in Nat
  <2> HIDE DEF E
  <2> QED BY <1>2, FS_AddElement, FS_CardinalityType
<1>5. Cardinality(F) = IF link = "equal" THEN Cardinality(E) + 1 ELSE Cardinality(E)
  <2> HIDE DEF E, F
  <2> QED BY <1>3, <1>4
<1>6. IndexAt(c) = 1 + Cardinality(F) /\ IndexAt(p) = 1 + Cardinality(E)
  BY DEF IndexAt
<1> HIDE DEF E, F, c
<1> QED BY <1>4, <1>5, <1>6 DEF c

LEMMA IndexRoot == IndexAt(Root) = 1
<1>1. {j \in DOMAIN Root : Root[j] = "equal"} = {}
  BY DEF Root
<1>2. Cardinality({}) = 0
  BY FS_EmptySet
<1> QED BY <1>1, <1>2 DEF IndexAt

\* The same on the way to a position.
LEMMA IndexUpto ==
    ASSUME NEW p \in Seq(Links), NEW i \in 1..Len(p)
    PROVE  /\ i - 1 \in 0..Len(p) /\ i \in 0..Len(p)
           /\ Upto(p, i) = Child(Upto(p, i - 1), p[i])
           /\ IndexAt(Upto(p, i)) = IF p[i] = "equal" THEN IndexAt(Upto(p, i - 1)) + 1
                                                      ELSE IndexAt(Upto(p, i - 1))
<1>1. i - 1 \in 0..Len(p) /\ i \in 0..Len(p) /\ i - 1 \in 0..i /\ i \in Nat \ {0} /\ p[i] \in Links
  OBVIOUS
<1> DEFINE q == Upto(p, i)
<1>2. q \in Seq(Links) /\ Len(q) = i /\ q[i] = p[i]
  BY <1>1, UptoFacts
<1>3. Upto(q, i - 1) = Upto(p, i - 1) /\ Upto(p, i - 1) \in Seq(Links)
  BY <1>1, UptoUpto, UptoFacts
<1>4. q # Root
  BY <1>1, <1>2 DEF Root
<1>5. q = Child(Upto(p, i - 1), p[i])
  <2> HIDE DEF q
  <2> QED BY <1>2, <1>3, <1>4, ParentFacts
<1> QED BY <1>1, <1>3, <1>5, IndexChild DEF q

\* Every index up to that of a position is passed on the way, at an equal link.
LEMMA IndexPassed ==
    ASSUME NEW p \in Seq(Links), NEW i \in 1..(IndexAt(p) - 1)
    PROVE  \E j \in 1..Len(p) : p[j] = "equal" /\ IndexAt(Upto(p, j - 1)) = i
<1> DEFINE over == {j \in 0..Len(p) : IndexAt(Upto(p, j)) > i}
           m == Min(over)
<1>1. Len(p) \in Nat /\ IndexAt(p) \in Nat /\ i \in Nat \ {0} /\ IndexAt(p) > i
  <2>1. IndexAt(p) \in Nat \ {0}
    BY IndexType
  <2> QED BY <2>1
<1>2. Len(p) \in over
  BY <1>1, UptoEnds
<1>3. m \in over /\ \A j \in over : m <= j
  <2>1. over \subseteq Nat /\ over # {}
    BY <1>1, <1>2
  <2> HIDE DEF over
  <2> QED BY <2>1, MinFacts
<1> HIDE DEF m
<1>4. m # 0
  BY <1>1, <1>3, UptoEnds, IndexRoot
<1>5. m \in 1..Len(p) /\ m - 1 \in 0..Len(p) /\ m - 1 \notin over
  BY <1>1, <1>3, <1>4
<1>6. /\ IndexAt(Upto(p, m)) > i /\ ~(IndexAt(Upto(p, m - 1)) > i)
      /\ IndexAt(Upto(p, m - 1)) \in Nat
  BY <1>3, <1>5, UptoFacts, IndexType
<1>7. p[m] = "equal" /\ IndexAt(Upto(p, m - 1)) = i
  BY <1>1, <1>5, <1>6, IndexUpto
<1> QED BY <1>5, <1>7

-----------------------------------------------------------------------------
(* The way of a key.                                                       *)

LEMMA RootOnWay ==
    ASSUME NEW t, NEW k
    PROVE  OnWay(t, k, Root)
BY DEF OnWay, Root

\* A way is one of a search at every position it passes.
LEMMA UptoOnWay ==
    ASSUME NEW t, NEW k, NEW p, OnWay(t, k, p), NEW i \in 0..Len(p)
    PROVE  OnWay(t, k, Upto(p, i))
<1> DEFINE q == Upto(p, i)
<1>1. /\ p \in Seq(Links) /\ q \in Seq(Links) /\ Len(q) = i
      /\ \A j \in 1..i : q[j] = p[j]
  BY UptoFacts DEF OnWay
<1>2. \A j \in 1..i : j \in 1..Len(p) /\ j - 1 \in 0..i
  BY <1>1
<1>3. \A j \in 1..i : Upto(q, j - 1) = Upto(p, j - 1)
  BY <1>1, <1>2, UptoUpto
<1> HIDE DEF q
<1>4. \A j \in 1..i : /\ Upto(q, j - 1) \in DOMAIN t
                      /\ ~Ends(t, k, Upto(q, j - 1))
                      /\ q[j] = LinkAt(t, k, Upto(q, j - 1))
  BY <1>1, <1>2, <1>3 DEF OnWay
<1> QED BY <1>1, <1>4 DEF OnWay, q

\* One turn of the search.
LEMMA ChildOnWay ==
    ASSUME NEW t, NEW k, NEW p, OnWay(t, k, p), ~Ends(t, k, p)
    PROVE  OnWay(t, k, Child(p, LinkAt(t, k, p)))
<1> DEFINE c == Child(p, LinkAt(t, k, p))
<1>1. p \in Seq(Links) /\ p \in DOMAIN t /\ LinkAt(t, k, p) \in Links /\ Len(p) \in Nat
  BY DEF OnWay, Ends, LinkAt, Branch, Links
<1>2. /\ c \in Seq(Links) /\ Len(c) = Len(p) + 1 /\ c[Len(p) + 1] = LinkAt(t, k, p)
      /\ \A j \in 1..Len(p) : c[j] = p[j]
  BY <1>1, AppendProperties DEF Child
<1>3. (\A i \in 0..Len(p) : Upto(c, i) = Upto(p, i)) /\ Upto(c, Len(p)) = p
  BY <1>1, ChildFacts
<1> HIDE DEF c
<1>4. ASSUME NEW j \in 1..Len(c)
      PROVE  /\ Upto(c, j - 1) \in DOMAIN t
             /\ ~Ends(t, k, Upto(c, j - 1))
             /\ c[j] = LinkAt(t, k, Upto(c, j - 1))
  <2>1. CASE j = Len(p) + 1
    BY <1>1, <1>2, <1>3, <2>1
  <2>2. CASE j # Len(p) + 1
    <3>1. j \in 1..Len(p) /\ j - 1 \in 0..Len(p)
      BY <1>1, <1>2, <2>2
    <3>2. Upto(c, j - 1) = Upto(p, j - 1) /\ c[j] = p[j]
      BY <1>2, <1>3, <3>1
    <3> QED BY <3>1, <3>2 DEF OnWay
  <2> QED BY <2>1, <2>2
<1> QED BY <1>2, <1>4 DEF OnWay, c

\* The search for a key is never past its last character.
LEMMA IndexOnWay ==
    ASSUME NEW t, NEW k, IsString(k), NEW p, OnWay(t, k, p),
           \A q \in DOMAIN t : t[q].splitchar \in Nat
    PROVE  IndexAt(p) \in 1..Len(k)
<1> DEFINE wrong == {i \in 0..Len(p) : IndexAt(Upto(p, i)) \notin 1..Len(k)}
           m == Min(wrong)
<1>1. p \in Seq(Links) /\ Len(p) \in Nat /\ Len(k) \in Nat \ {0}
  BY EmptySeq DEF OnWay, IsString
<1>2. SUFFICES ASSUME wrong # {} PROVE FALSE
  BY <1>1, UptoEnds
<1>3. m \in wrong /\ \A j \in wrong : m <= j
  <2>1. wrong \subseteq Nat
    BY <1>1
  <2> HIDE DEF wrong
  <2> QED BY <1>2, <2>1, MinFacts
<1> HIDE DEF m
<1>4. m # 0
  BY <1>1, <1>3, UptoEnds, IndexRoot
<1>5. m \in 1..Len(p) /\ m - 1 \in 0..Len(p) /\ m - 1 \notin wrong
  BY <1>1, <1>3, <1>4
<1> DEFINE q == Upto(p, m - 1)
           i == IndexAt(q)
<1>6. /\ i \in 1..Len(k) /\ IndexAt(Upto(p, m)) \notin 1..Len(k)
      /\ IndexAt(Upto(p, m)) = IF p[m] = "equal" THEN i + 1 ELSE i
  BY <1>1, <1>3, <1>5, IndexUpto
<1>7. q \in DOMAIN t /\ ~Ends(t, k, q) /\ p[m] = LinkAt(t, k, q)
  BY <1>5 DEF OnWay
<1> HIDE DEF i, q
<1>8. p[m] = "equal" /\ i = Len(k)
  BY <1>1, <1>6
<1>9. Ends(t, k, q)
  BY <1>7, <1>8 DEF Ends, i
<1> QED BY <1>7, <1>9

\* There are no more nodes above a position than there are nodes.
LEMMA PathIsShort ==
    ASSUME NEW t, NEW p \in Seq(Links), IsFiniteSet(DOMAIN t),
           \A i \in 1..Len(p) : Upto(p, i - 1) \in DOMAIN t
    PROVE  Len(p) <= Cardinality(DOMAIN t)
<1> DEFINE f == [i \in 1..Len(p) |-> Upto(p, i - 1)]
<1>1. Len(p) \in Nat
  OBVIOUS
<1>2. \A i \in 1..Len(p) : Len(Upto(p, i - 1)) = i - 1
  <2> SUFFICES ASSUME NEW i \in 1..Len(p) PROVE Len(Upto(p, i - 1)) = i - 1
    OBVIOUS
  <2>1. i - 1 \in 0..Len(p)
    BY <1>1
  <2> QED BY <1>1, <2>1, UptoFacts
<1>3. \A i, j \in 1..Len(p) : f[i] = f[j] => i = j
  <2> SUFFICES ASSUME NEW i \in 1..Len(p), NEW j \in 1..Len(p), f[i] = f[j] PROVE i = j
    OBVIOUS
  <2>1. i - 1 = j - 1
    BY <1>2
  <2> QED BY <1>1, <2>1
<1>4. f \in [1..Len(p) -> DOMAIN t]
  OBVIOUS
<1>5. f \in Injection(1..Len(p), DOMAIN t)
  <2> HIDE DEF f
  <2>1. IsInjective(f)
    BY <1>3, <1>4 DEF IsInjective
  <2> QED BY <1>4, <2>1 DEF Injection
<1>6. Cardinality(1..Len(p)) <= Cardinality(DOMAIN t)
  <2> HIDE DEF f
  <2> QED BY <1>5, FS_Injection
<1>7. Cardinality(1..Len(p)) = Len(p)
  <2>1. Cardinality(1..Len(p)) = IF 1 > Len(p) THEN 0 ELSE Len(p) - 1 + 1
    BY <1>1, FS_Interval
  <2> QED BY <1>1, <2>1
<1> QED BY <1>6, <1>7

\* A way passes no more nodes than there are.
LEMMA WayIsShort ==
    ASSUME NEW t, NEW k, NEW p, OnWay(t, k, p), IsFiniteSet(DOMAIN t)
    PROVE  Len(p) <= Cardinality(DOMAIN t)
BY PathIsShort DEF OnWay

\* The longest way ends.
LEMMA SomeEnd ==
    ASSUME NEW t, NEW k, IsFiniteSet(DOMAIN t)
    PROVE  \E p : EndsAt(t, k, p)
<1> DEFINE N == Cardinality(DOMAIN t)
           left == {n \in 0..N : \E p : OnWay(t, k, p) /\ Len(p) = N - n}
           m == Min(left)
<1>1. N \in Nat
  BY FS_CardinalityType
<1> HIDE DEF N
<1>2. N \in left
  BY <1>1, RootOnWay DEF Root
<1>3. m \in left /\ \A n \in left : m <= n
  <2>1. left \subseteq Nat /\ left # {}
    BY <1>1, <1>2
  <2> HIDE DEF left
  <2> QED BY <2>1, MinFacts
<1> HIDE DEF m
<1>4. PICK p : OnWay(t, k, p) /\ Len(p) = N - m
  BY <1>3
<1>5. Ends(t, k, p)
  <2> SUFFICES ASSUME ~Ends(t, k, p) PROVE FALSE
    OBVIOUS
  <2> DEFINE c == Child(p, LinkAt(t, k, p))
  <2>1. OnWay(t, k, c)
    BY <1>4, ChildOnWay
  <2>2. Len(c) = Len(p) + 1
    <3>1. p \in Seq(Links) /\ LinkAt(t, k, p) \in Links
      BY <1>4 DEF OnWay, LinkAt, Branch, Links
    <3> QED BY <3>1, ChildFacts
  <2> HIDE DEF c
  <2>3. Len(c) <= N
    BY <2>1, WayIsShort DEF N
  <2>4. m \in 0..N
    BY <1>3
  <2>5. m - 1 \in 0..N /\ Len(c) = N - (m - 1) /\ ~(m <= m - 1)
    BY <1>1, <1>4, <2>2, <2>3, <2>4
  <2>6. m - 1 \in left
    BY <2>1, <2>5
  <2> QED BY <1>3, <2>5, <2>6
<1> QED BY <1>4, <1>5 DEF EndsAt

\* co_tree_find_node stops where the way of the key ends.
LEMMA FindFacts ==
    ASSUME NEW t, NEW k, IsFiniteSet(DOMAIN t), NEW p, EndsAt(t, k, p)
    PROVE  co_tree_find_node(t, k) = p
<1> DEFINE N == Cardinality(DOMAIN t)
           R(w) == [n \in 0..N |->
                       IF n = 0 THEN Root
                       ELSE IF Ends(t, k, w[n - 1]) THEN w[n - 1]
                       ELSE Child(w[n - 1], LinkAt(t, k, w[n - 1]))]
           c == [n \in 0..N |-> IF n <= Len(p) THEN Upto(p, n) ELSE p]
           walk == Walk(t, k)
<1>1. /\ N \in Nat /\ p \in Seq(Links) /\ Len(p) \in Nat /\ Len(p) <= N
      /\ OnWay(t, k, p) /\ Ends(t, k, p)
  BY FS_CardinalityType, WayIsShort DEF EndsAt, OnWay
<1>2. Upto(p, 0) = Root /\ Upto(p, Len(p)) = p
  BY <1>1, UptoEnds
<1>3. \A n \in 1..Len(p) : /\ ~Ends(t, k, Upto(p, n - 1))
                           /\ Upto(p, n) = Child(Upto(p, n - 1), LinkAt(t, k, Upto(p, n - 1)))
  BY <1>1, IndexUpto DEF OnWay
<1> HIDE DEF N
<1>4. c = R(c)
  <2>1. \A n \in 0..N : c[n] = R(c)[n]
    <3> SUFFICES ASSUME NEW n \in 0..N PROVE c[n] = R(c)[n]
      OBVIOUS
    <3>1. CASE n = 0
      BY <1>1, <1>2, <3>1
    <3>2. CASE n # 0 /\ n <= Len(p)
      <4>1. n - 1 \in 0..N /\ n - 1 <= Len(p) /\ n \in 1..Len(p)
        BY <1>1, <3>2
      <4>2. c[n - 1] = Upto(p, n - 1) /\ c[n] = Upto(p, n)
        BY <3>2, <4>1
      <4> HIDE DEF c
      <4> QED BY <1>3, <3>2, <4>1, <4>2
    <3>3. CASE n # 0 /\ ~(n <= Len(p))
      <4>1. n - 1 \in 0..N /\ (n - 1 <= Len(p) => n - 1 = Len(p))
        BY <1>1, <3>3
      <4>2. c[n - 1] = p /\ c[n] = p
        BY <1>2, <3>3, <4>1
      <4> HIDE DEF c
      <4> QED BY <1>1, <3>3, <4>2
    <3> QED BY <3>1, <3>2, <3>3
  <2> QED BY <2>1
<1>5. walk = R(walk)
  <2>1. walk = CHOOSE w : w = R(w)
    BY DEF Walk, N
  <2> HIDE DEF R, c, walk
  <2> QED BY <1>4, <2>1, Zenon
<1> DEFINE wrong == {n \in 0..N : walk[n] # c[n]}
<1>6. wrong = {}
  <2> SUFFICES ASSUME wrong # {} PROVE FALSE
    OBVIOUS
  <2> DEFINE m == Min(wrong)
  <2>1. wrong \subseteq Nat
    BY <1>1
  <2>2. m \in wrong /\ \A j \in wrong : m <= j
    <3> HIDE DEF wrong
    <3> QED BY <2>1, MinFacts
  <2> HIDE DEF m
  <2>3. m \in 0..N /\ walk[m] # c[m]
    BY <2>2
  <2> HIDE DEF walk
  <2>4. walk[m] = R(walk)[m]
    BY <1>5
  <2>5. c[m] = R(c)[m]
    BY <1>4
  <2>6. CASE m = 0
    BY <2>3, <2>4, <2>5, <2>6
  <2>7. CASE m # 0
    <3>1. m - 1 \in 0..N /\ ~(m <= m - 1)
      BY <1>1, <2>3, <2>7
    <3>2. walk[m - 1] = c[m - 1]
      BY <2>2, <3>1
    <3> HIDE DEF c
    <3> QED BY <2>3, <2>4, <2>5, <2>7, <3>2
  <2> QED BY <2>6, <2>7
<1>7. walk[N] = c[N]
  <2>1. N \in 0..N
    BY <1>1
  <2> HIDE DEF walk, c
  <2> QED BY <1>6, <2>1
<1>8. c[N] = p
  BY <1>1, <1>2
<1> QED BY <1>7, <1>8 DEF co_tree_find_node, N

\* The search ends somewhere, and there only.
LEMMA FindEnds ==
    ASSUME NEW t, NEW k, IsFiniteSet(DOMAIN t)
    PROVE  EndsAt(t, k, co_tree_find_node(t, k))
BY SomeEnd, FindFacts

\* Two keys found at the same node are the same.
LEMMA SameKey ==
    ASSUME NEW t, NEW k, IsString(k), NEW m, IsString(m), NEW p \in DOMAIN t,
           EndsAt(t, k, p), EndsAt(t, m, p)
    PROVE  k = m
<1>1. /\ p \in Seq(Links) /\ k \in Seq(Nat) /\ m \in Seq(Nat)
      /\ Len(k) = IndexAt(p) /\ Len(m) = IndexAt(p) /\ IndexAt(p) \in Nat
  BY IndexType DEF EndsAt, OnWay, Ends, IsString
<1>2. \A q : LinkAt(t, k, q) = "equal" => k[IndexAt(q)] = t[q].splitchar
  BY DEF LinkAt, Branch
<1>3. \A q : LinkAt(t, m, q) = "equal" => m[IndexAt(q)] = t[q].splitchar
  BY DEF LinkAt, Branch
<1>4. ASSUME NEW i \in 1..Len(k)
      PROVE  k[i] = m[i]
  <2>1. CASE i = IndexAt(p)
    BY <1>2, <1>3, <2>1 DEF EndsAt, Ends
  <2>2. CASE i # IndexAt(p)
    <3>1. i \in 1..(IndexAt(p) - 1)
      BY <1>1, <2>2
    <3>2. PICK j \in 1..Len(p) : p[j] = "equal" /\ IndexAt(Upto(p, j - 1)) = i
      BY <1>1, <3>1, IndexPassed
    <3>3. LinkAt(t, k, Upto(p, j - 1)) = "equal" /\ LinkAt(t, m, Upto(p, j - 1)) = "equal"
      BY <3>2 DEF EndsAt, OnWay
    <3> QED BY <1>2, <1>3, <3>2, <3>3
  <2> QED BY <2>1, <2>2
<1> QED BY <1>1, <1>4, SeqEqual

-----------------------------------------------------------------------------
(* Sound trees.                                                            *)

\* Finitely many nodes, each with those on the way to it.
Shaped(t) ==
    /\ IsFiniteSet(DOMAIN t)
    /\ \A p \in DOMAIN t : p \in Seq(Links) /\ t[p].splitchar \in Nat
    /\ \A p \in DOMAIN t : \A i \in 0..Len(p) : Upto(p, i) \in DOMAIN t

Formed(t) ==
    /\ IsFiniteSet(DOMAIN t)
    /\ \A p \in DOMAIN t : p \in Seq(Links) /\ t[p] \in NodeType
    /\ \A p \in DOMAIN t : \A i \in 0..Len(p) : Upto(p, i) \in DOMAIN t

LEMMA FormedIsShaped == ASSUME NEW t, Formed(t) PROVE Shaped(t)
BY DEF Formed, Shaped, NodeType

\* A node with a key is where its way ends, and there is one at each end.
Sound(t) ==
    /\ Formed(t)
    /\ \A p \in DOMAIN t : t[p].key # NULL => EndsAt(t, t[p].key, p)
    /\ \A p \in DOMAIN t : t[p].value # NULL \/ t[p].splitchar = 0 => t[p].key # NULL

\* No leaf without a value.
Alive(t) == \A p \in DOMAIN t : Leaf(t, p) => t[p].value # NULL

\* The end of a way stays where it is as long as the nodes on it do.
LEMMA EndsFrame ==
    ASSUME NEW t, NEW u, NEW k, NEW p \in DOMAIN t, EndsAt(t, k, p),
           p \in DOMAIN u, \A i \in 0..Len(p) : Upto(p, i) \in DOMAIN u,
           \A q \in DOMAIN t : q \in DOMAIN u => u[q].splitchar = t[q].splitchar
    PROVE  EndsAt(u, k, p)
<1>1. \A q \in DOMAIN t : q \in DOMAIN u => /\ LinkAt(u, k, q) = LinkAt(t, k, q)
                                            /\ Ends(u, k, q) <=> Ends(t, k, q)
  BY DEF LinkAt, Ends
<1>2. \A i \in 1..Len(p) : i - 1 \in 0..Len(p)
  <2>1. Len(p) \in Nat
    BY DEF EndsAt, OnWay
  <2> QED BY <2>1
<1>3. OnWay(u, k, p)
  BY <1>1, <1>2 DEF EndsAt, OnWay
<1> QED BY <1>1, <1>3 DEF EndsAt

\* The node with a key is the one that is found for it.
LEMMA NodeOfKey ==
    ASSUME TreesAssumption, NEW t, Sound(t), NEW k \in TreeKeys
    PROVE  \A p \in DOMAIN t : t[p].key = k <=> p = co_tree_find_node(t, k)
<1>1. \A m \in TreeKeys : IsKey(m) /\ m # NULL
  BY DEF TreesAssumption, IsKey, IsString
<1>2. IsFiniteSet(DOMAIN t)
  BY DEF Sound, Formed
<1> SUFFICES ASSUME NEW p \in DOMAIN t
             PROVE  t[p].key = k <=> p = co_tree_find_node(t, k)
  OBVIOUS
<1>3. ASSUME t[p].key = k
      PROVE  p = co_tree_find_node(t, k)
  <2>1. EndsAt(t, k, p)
    BY <1>1, <1>3 DEF Sound
  <2> QED BY <1>2, <2>1, FindFacts
<1>4. ASSUME p = co_tree_find_node(t, k)
      PROVE  t[p].key = k
  <2>1. EndsAt(t, k, p)
    BY <1>2, <1>4, FindEnds
  <2>2. t[p] \in NodeType
    BY DEF Sound, Formed
  <2>3. t[p].splitchar = 0
    <3>1. LinkAt(t, k, p) = "equal" /\ IndexAt(p) = Len(k)
      BY <2>1 DEF EndsAt, Ends
    <3>2. k[Len(k)] = t[p].splitchar
      BY <3>1 DEF LinkAt, Branch
    <3>3. Len(k) \in DOMAIN k
      BY <1>1, EmptySeq DEF IsKey, IsString
    <3> QED BY <1>1, <3>2, <3>3 DEF IsKey, IsString
  <2>4. t[p].key \in TreeKeys /\ EndsAt(t, t[p].key, p)
    BY <2>2, <2>3 DEF Sound, NodeType
  <2> QED BY <1>1, <2>1, <2>4, SameKey DEF IsKey
<1> QED BY <1>3, <1>4

LEMMA ValueFacts ==
    ASSUME TreesAssumption, NEW t, Sound(t), NEW k \in TreeKeys
    PROVE  /\ \A p \in DOMAIN t : t[p].key = k => ValueAt(t, k) = t[p].value /\ HasNode(t, k)
           /\ HasNode(t, k) => \E p \in DOMAIN t : t[p].key = k /\ ValueAt(t, k) = t[p].value
           /\ ~HasNode(t, k) => ValueAt(t, k) = NULL
           /\ ValueAt(t, k) \in TreeValues \cup {NULL}
<1>1. \A p \in DOMAIN t : t[p] \in NodeType
  BY DEF Sound, Formed
<1>2. \A p \in DOMAIN t : t[p].key = k <=> p = co_tree_find_node(t, k)
  BY NodeOfKey
<1> QED BY <1>1, <1>2 DEF ValueAt, HasNode, NodeType

-----------------------------------------------------------------------------
(* Insertion.                                                              *)

\* The position n equal links below p.
Below(p, n) == p \o [j \in 1..n |-> "equal"]

LEMMA BelowFacts ==
    ASSUME NEW p \in Seq(Links), NEW n \in Nat
    PROVE  /\ Below(p, n) \in Seq(Links) /\ Len(Below(p, n)) = Len(p) + n
           /\ \A j \in 1..Len(p) + n :
                 Below(p, n)[j] = IF j <= Len(p) THEN p[j] ELSE "equal"
<1> DEFINE b == [j \in 1..n |-> "equal"]
<1>1. b \in Seq(Links) /\ Len(b) = n /\ \A j \in 1..n : b[j] = "equal"
  BY DEF Links
<1> HIDE DEF b
<1>2. /\ p \o b \in Seq(Links) /\ Len(p \o b) = Len(p) + Len(b)
      /\ \A j \in 1..Len(p) + Len(b) :
            (p \o b)[j] = IF j <= Len(p) THEN p[j] ELSE b[j - Len(p)]
  BY <1>1, ConcatProperties
<1>3. \A j \in 1..Len(p) + n : ~(j <= Len(p)) => j - Len(p) \in 1..n
  OBVIOUS
<1> QED BY <1>1, <1>2, <1>3 DEF Below, b

LEMMA BelowNone ==
    ASSUME NEW p \in Seq(Links)
    PROVE  Below(p, 0) = p
<1> DEFINE b == Below(p, 0)
<1>1. /\ b \in Seq(Links) /\ Len(b) = Len(p) + 0
      /\ \A j \in 1..Len(p) + 0 : b[j] = IF j <= Len(p) THEN p[j] ELSE "equal"
  <2>1. 0 \in Nat
    OBVIOUS
  <2> QED BY <2>1, BelowFacts
<1> HIDE DEF b
<1>2. Len(b) = Len(p) /\ \A j \in 1..Len(p) : b[j] = p[j]
  BY <1>1
<1> QED BY <1>1, <1>2, SamePosition DEF b

\* What lies on the way to it.
LEMMA BelowUpto ==
    ASSUME NEW p \in Seq(Links), NEW n \in Nat, NEW i \in 0..Len(p) + n
    PROVE  Upto(Below(p, n), i) = IF i <= Len(p) THEN Upto(p, i) ELSE Below(p, i - Len(p))
<1> DEFINE b == Below(p, n)
<1>1. /\ b \in Seq(Links) /\ Len(b) = Len(p) + n
      /\ \A j \in 1..Len(p) + n : b[j] = IF j <= Len(p) THEN p[j] ELSE "equal"
  BY BelowFacts
<1> HIDE DEF b
<1>2. /\ Upto(b, i) \in Seq(Links) /\ Len(Upto(b, i)) = i
      /\ \A j \in 1..i : Upto(b, i)[j] = b[j]
  BY <1>1, UptoFacts
<1>3. CASE i <= Len(p)
  <2>1. /\ Upto(p, i) \in Seq(Links) /\ Len(Upto(p, i)) = i
        /\ \A j \in 1..i : Upto(p, i)[j] = p[j]
    BY <1>3, UptoFacts
  <2>2. \A j \in 1..i : Upto(b, i)[j] = Upto(p, i)[j]
    BY <1>1, <1>2, <1>3, <2>1
  <2> QED BY <1>2, <1>3, <2>1, <2>2, SamePosition DEF b
<1>4. CASE ~(i <= Len(p))
  <2> DEFINE m == i - Len(p)
             c == Below(p, m)
  <2>1. m \in Nat /\ Len(p) + m = i /\ i \in Nat
    BY <1>4
  <2>2. /\ c \in Seq(Links) /\ Len(c) = i
        /\ \A j \in 1..i : c[j] = IF j <= Len(p) THEN p[j] ELSE "equal"
    <3> HIDE DEF m
    <3> QED BY <2>1, BelowFacts
  <2> HIDE DEF c, m
  <2>3. \A j \in 1..i : Upto(b, i)[j] = c[j]
    BY <1>1, <1>2, <2>2
  <2> QED BY <1>2, <1>4, <2>2, <2>3, SamePosition DEF b, c, m
<1> QED BY <1>3, <1>4

LEMMA BelowIndex ==
    ASSUME NEW p \in Seq(Links), NEW n \in Nat
    PROVE  IndexAt(Below(p, n)) = IndexAt(p) + n
<1> DEFINE b == Below(p, n)
           E == {j \in DOMAIN p : p[j] = "equal"}
           F == {j \in DOMAIN b : b[j] = "equal"}
           G == Len(p) + 1..Len(p) + n
<1>1. /\ b \in Seq(Links) /\ Len(b) = Len(p) + n
      /\ \A j \in 1..Len(p) + n : b[j] = IF j <= Len(p) THEN p[j] ELSE "equal"
  BY BelowFacts
<1>2. F = E \cup G
  <2> HIDE DEF b
  <2>1. DOMAIN b = 1..Len(p) + n /\ DOMAIN p = 1..Len(p) /\ Len(p) \in Nat
    BY <1>1
  <2> QED BY <1>1, <2>1
<1>3. IsFiniteSet(G) /\ Cardinality(G) = n
  <2> DEFINE x == Len(p) + 1
             y == Len(p) + n
  <2>1. x \in Int /\ y \in Int /\ y - x + 1 = n /\ (x > y => n = 0)
    OBVIOUS
  <2> HIDE DEF x, y
  <2>2. IsFiniteSet(x..y) /\ Cardinality(x..y) = IF x > y THEN 0 ELSE y - x + 1
    BY <2>1, FS_Interval
  <2>3. Cardinality(x..y) = n
    BY <2>1, <2>2
  <2> QED BY <2>2, <2>3 DEF x, y
<1>4. IsFiniteSet(E) /\ Cardinality(E) \in Nat
  BY IndexType, FS_CardinalityType
<1>5. E \cap G = {}
  BY DEF E
<1> HIDE DEF E, F, G, b
<1>6. Cardinality(F) = Cardinality(E) + n
  <2>1. Cardinality(E \cup G) = Cardinality(E) + Cardinality(G) - Cardinality(E \cap G)
    BY <1>3, <1>4, FS_Union
  <2>2. Cardinality(E \cap G) = 0
    BY <1>5, FS_EmptySet
  <2> QED BY <1>2, <1>3, <1>4, <2>1, <2>2
<1> QED BY <1>4, <1>6 DEF IndexAt, E, F, b

LEMMA BelowSet ==
    ASSUME NEW p \in Seq(Links), NEW L \in Nat, NEW q \in {Below(p, n) : n \in 0..L}
    PROVE  q \in Seq(Links) /\ Len(q) - Len(p) \in 0..L /\ q = Below(p, Len(q) - Len(p))
<1>1. PICK n \in 0..L : q = Below(p, n)
  OBVIOUS
<1>2. q \in Seq(Links) /\ Len(q) = Len(p) + n
  <2>1. n \in Nat
    OBVIOUS
  <2> QED BY <1>1, <2>1, BelowFacts
<1>3. Len(q) - Len(p) = n
  <2>1. Len(p) \in Nat
    OBVIOUS
  <2> QED BY <1>2, <2>1
<1> QED BY <1>1, <1>2, <1>3

\* c has one node for each character of the key k from that of p on.
ChainFrom(c, k, p, L) ==
    /\ DOMAIN c = {Below(p, n) : n \in 0..L}
    /\ \A n \in 0..L : c[Below(p, n)] = [splitchar |-> k[IndexAt(p) + n],
                                         key |-> NULL, value |-> NULL]
    /\ IsFiniteSet({Below(p, n) : n \in 0..L})

\* These are the nodes that are created.
LEMMA ChainFacts ==
    ASSUME NEW p \in Seq(Links), NEW k, NEW L \in Nat, Len(k) - IndexAt(p) = L
    PROVE  ChainFrom(Chain(p, k, IndexAt(p)), k, p, L)
<1> DEFINE D == {Below(p, n) : n \in 0..L}
           c == Chain(p, k, IndexAt(p))
<1>1. c = [q \in D |->
              [splitchar |-> k[IndexAt(p) + Len(q) - Len(p)], key |-> NULL, value |-> NULL]]
  BY DEF Chain, Below
<1>2. \A n \in 0..L : /\ Below(p, n) \in Seq(Links) /\ Len(Below(p, n)) = Len(p) + n
  <2> SUFFICES ASSUME NEW n \in 0..L
               PROVE  Below(p, n) \in Seq(Links) /\ Len(Below(p, n)) = Len(p) + n
    OBVIOUS
  <2>1. n \in Nat
    OBVIOUS
  <2> QED BY <2>1, BelowFacts
<1>3. IndexAt(p) \in Nat /\ Len(p) \in Nat
  <2>1. IndexAt(p) \in Nat \ {0}
    BY IndexType
  <2> QED BY <2>1
<1>4. \A q \in D : q \in Seq(Links) /\ Len(q) - Len(p) \in 0..L /\ q = Below(p, Len(q) - Len(p))
  BY BelowSet
<1>5. \A n \in 0..L : Below(p, n) \in D /\ IndexAt(p) + Len(Below(p, n)) - Len(p) = IndexAt(p) + n
  BY <1>2, <1>3
<1>6. \A n \in 0..L :
         c[Below(p, n)] = [splitchar |-> k[IndexAt(p) + n], key |-> NULL, value |-> NULL]
  <2> HIDE DEF c, D
  <2> QED BY <1>1, <1>5
<1>7. IsFiniteSet(D)
  <2> DEFINE f == [q \in D |-> Len(q) - Len(p)]
  <2>1. f \in [D -> 0..L] /\ \A x, y \in D : f[x] = f[y] => x = y
    <3> HIDE DEF D
    <3> QED BY <1>4
  <2>2. f \in Injection(D, 0..L)
    <3> HIDE DEF f, D
    <3>1. IsInjective(f)
      BY <2>1 DEF IsInjective
    <3> QED BY <2>1, <3>1 DEF Injection
  <2>3. IsFiniteSet(0..L)
    BY FS_Interval
  <2> HIDE DEF f, D
  <2> QED BY <2>2, <2>3, FS_Injection
<1>8. DOMAIN c = D
  <2> HIDE DEF c, D
  <2> QED BY <1>1
<1> QED BY <1>6, <1>7, <1>8 DEF ChainFrom

\* g is t with the new nodes, and the way of k ends at the last of them.
GrownAt(t, g, k, p, L) ==
    /\ L \in Nat /\ IndexAt(p) \in Nat \ {0} /\ p \in Seq(Links) /\ Below(p, L) \in Seq(Links)
    /\ Below(p, L) \notin DOMAIN t /\ Below(p, L) \in DOMAIN g
    /\ DOMAIN g = DOMAIN t \cup {Below(p, n) : n \in 0..L}
    /\ \A q \in DOMAIN t : g[q] = t[q]
    /\ \A n \in 0..L : /\ Below(p, n) \notin DOMAIN t
                       /\ g[Below(p, n)] = [splitchar |-> k[IndexAt(p) + n],
                                            key |-> NULL, value |-> NULL]
    /\ IsFiniteSet(DOMAIN g)
    /\ \A q \in DOMAIN g : q \in Seq(Links)
    /\ \A q \in DOMAIN g : \A i \in 0..Len(q) : Upto(q, i) \in DOMAIN g
    /\ EndsAt(g, k, Below(p, L))

LEMMA GrownFacts ==
    ASSUME NEW t, Shaped(t), NEW k, IsString(k), NEW p, EndsAt(t, k, p), p \notin DOMAIN t,
           co_tree_find_node(t, k) = p
    PROVE  GrownAt(t, Grown(t, k), k, p, Len(k) - IndexAt(p))
<1> DEFINE c == Chain(p, k, IndexAt(p))
           L == Len(k) - IndexAt(p)
           D == {Below(p, n) : n \in 0..L}
           g == [q \in DOMAIN t \cup DOMAIN c |-> IF q \in DOMAIN t THEN t[q] ELSE c[q]]
           e == Below(p, L)
<1>0. Grown(t, k) = g
  BY DEF Grown
<1>1. /\ p \in Seq(Links) /\ Len(p) \in Nat /\ Len(k) \in Nat /\ IndexAt(p) \in 1..Len(k)
      /\ L \in Nat
  <2>1. OnWay(t, k, p) /\ k \in Seq(Nat)
    BY DEF EndsAt, IsString
  <2>2. IndexAt(p) \in 1..Len(k)
    BY <2>1, IndexOnWay DEF Shaped
  <2> QED BY <2>1, <2>2 DEF OnWay
<1>L. Len(k) - IndexAt(p) = L
  OBVIOUS
<1> HIDE DEF L
<1>2. /\ DOMAIN c = D /\ IsFiniteSet(D)
      /\ \A n \in 0..L : c[Below(p, n)] = [splitchar |-> k[IndexAt(p) + n],
                                          key |-> NULL, value |-> NULL]
      /\ \A q \in D : q \in Seq(Links) /\ Len(q) - Len(p) \in 0..L /\ q = Below(p, Len(q) - Len(p))
  <2> HIDE DEF c, D
  <2>1. p \in Seq(Links) /\ L \in Nat /\ Len(k) - IndexAt(p) = L
    BY <1>1, <1>L
  <2>2. ChainFrom(c, k, p, L)
    BY <2>1, ChainFacts DEF c
  <2>3. /\ DOMAIN c = D /\ IsFiniteSet(D)
        /\ \A n \in 0..L : c[Below(p, n)] = [splitchar |-> k[IndexAt(p) + n],
                                             key |-> NULL, value |-> NULL]
    BY <2>2 DEF ChainFrom, D
  <2>4. \A q \in D : /\ q \in Seq(Links) /\ Len(q) - Len(p) \in 0..L
                     /\ q = Below(p, Len(q) - Len(p))
    BY <2>1, BelowSet DEF D
  <2> QED BY <2>3, <2>4
<1>3. \A n \in 0..L : /\ Below(p, n) \in Seq(Links) /\ Len(Below(p, n)) = Len(p) + n
                      /\ Upto(Below(p, n), Len(p)) = p
                      /\ IndexAt(Below(p, n)) = IndexAt(p) + n
  <2> SUFFICES ASSUME NEW n \in 0..L
               PROVE  /\ Below(p, n) \in Seq(Links) /\ Len(Below(p, n)) = Len(p) + n
                      /\ Upto(Below(p, n), Len(p)) = p
                      /\ IndexAt(Below(p, n)) = IndexAt(p) + n
    OBVIOUS
  <2>1. n \in Nat /\ Len(p) \in 0..Len(p) + n /\ Len(p) <= Len(p)
    BY <1>1
  <2>2. Upto(Below(p, n), Len(p)) = p
    BY <1>1, <2>1, BelowUpto, UptoEnds
  <2> QED BY <1>1, <2>1, <2>2, BelowFacts, BelowIndex
<1>4. \A n \in 0..L : Below(p, n) \notin DOMAIN t
  BY <1>1, <1>3 DEF Shaped
<1>5. DOMAIN g = DOMAIN t \cup D
  <2> HIDE DEF c, D
  <2> QED BY <1>2
<1>6. \A q \in D : q \notin DOMAIN t /\ g[q] = c[q]
  <2>1. \A q \in D : q \notin DOMAIN t
    BY <1>4
  <2> HIDE DEF c, D
  <2> QED BY <1>2, <2>1
<1>7. \A q \in DOMAIN t : g[q] = t[q]
  <2> HIDE DEF c, D
  <2> QED BY <1>2, <1>6
<1>8. \A n \in 0..L : Below(p, n) \in D
  OBVIOUS
<1> HIDE DEF c, g
<1>9. \A n \in 0..L :
         g[Below(p, n)] = [splitchar |-> k[IndexAt(p) + n], key |-> NULL, value |-> NULL]
  BY <1>2, <1>6, <1>8
<1> HIDE DEF D
<1>10. IsFiniteSet(DOMAIN g)
  <2>1. IsFiniteSet(DOMAIN t)
    BY DEF Shaped
  <2>2. IsFiniteSet(DOMAIN t \cup D)
    BY <1>2, <2>1, FS_Union, Zenon
  <2> QED BY <1>5, <2>2
<1>11. \A q \in DOMAIN g : q \in Seq(Links)
  BY <1>2, <1>5 DEF Shaped
<1>12. ASSUME NEW q \in DOMAIN g, NEW i \in 0..Len(q)
       PROVE  Upto(q, i) \in DOMAIN g
  <2>1. CASE q \in DOMAIN t
    BY <1>5, <2>1 DEF Shaped
  <2>2. CASE q \in D
    <3> DEFINE n == Len(q) - Len(p)
    <3>1. n \in 0..L /\ q = Below(p, n) /\ n \in Nat /\ Len(q) = Len(p) + n
      <4>1. n \in 0..L /\ q = Below(p, n) /\ q \in Seq(Links)
        BY <1>2, <2>2, Zenon
      <4>2. Len(q) \in Nat /\ Len(p) \in Nat /\ L \in Nat
        BY <1>1, <4>1
      <4> QED BY <4>1, <4>2
    <3> HIDE DEF n
    <3>2. Upto(q, i) = IF i <= Len(p) THEN Upto(p, i) ELSE Below(p, i - Len(p))
      BY <1>1, <3>1, BelowUpto
    <3>3. CASE i < Len(p)
      <4>1. i + 1 \in 1..Len(p) /\ i + 1 - 1 = i
        BY <1>1, <3>3
      <4>2. Upto(p, i) \in DOMAIN t
        BY <4>1 DEF EndsAt, OnWay
      <4> QED BY <1>5, <3>2, <3>3, <4>2
    <3>4. CASE i = Len(p)
      <4>1. Upto(q, i) = p
        BY <1>1, <3>2, <3>4, UptoEnds
      <4>2. 0 \in 0..L /\ Below(p, 0) = p
        BY <1>1, BelowNone
      <4> QED BY <1>5, <1>8, <4>1, <4>2
    <3>5. CASE i > Len(p)
      <4>1. i - Len(p) \in 0..L /\ ~(i <= Len(p))
        BY <1>1, <3>1, <3>5
      <4> QED BY <1>5, <1>8, <3>2, <4>1
    <3> QED BY <1>1, <3>3, <3>4, <3>5
  <2> QED BY <1>5, <2>1, <2>2
<1>13. L \in 0..L /\ e \in Seq(Links) /\ Len(e) = Len(p) + L /\ e \in DOMAIN g
  BY <1>1, <1>3, <1>5, <1>8
<1>14. ASSUME NEW i \in 1..Len(e)
       PROVE  /\ Upto(e, i - 1) \in DOMAIN g
              /\ ~Ends(g, k, Upto(e, i - 1))
              /\ e[i] = LinkAt(g, k, Upto(e, i - 1))
  <2> DEFINE q == Upto(e, i - 1)
  <2>1. i - 1 \in 0..Len(p) + L /\ i \in 1..Len(p) + L /\ i - 1 \in 0..Len(e)
    BY <1>1, <1>13
  <2>2. q = IF i - 1 <= Len(p) THEN Upto(p, i - 1) ELSE Below(p, i - 1 - Len(p))
    BY <1>1, <2>1, BelowUpto
  <2>3. e[i] = IF i <= Len(p) THEN p[i] ELSE "equal"
    BY <1>1, <2>1, BelowFacts
  <2>4. q \in DOMAIN g
    BY <1>12, <1>13, <2>1
  <2> HIDE DEF q
  <2>5. CASE i <= Len(p)
    <3>1. i \in 1..Len(p) /\ q = Upto(p, i - 1)
      BY <1>1, <2>1, <2>2, <2>5
    <3>2. q \in DOMAIN t /\ ~Ends(t, k, q) /\ e[i] = LinkAt(t, k, q)
      BY <2>3, <2>5, <3>1 DEF EndsAt, OnWay
    <3> QED BY <1>7, <2>4, <3>2 DEF Ends, LinkAt, q
  <2>6. CASE ~(i <= Len(p))
    <3> DEFINE n == i - 1 - Len(p)
    <3>1. n \in 0..L /\ n # L
      BY <1>1, <2>1, <2>6
    <3>2. q = Below(p, n)
      <4>1. CASE i - 1 = Len(p)
        <5>1. n = 0
          BY <1>1, <4>1
        <5> QED BY <1>1, <2>2, <4>1, <5>1, UptoEnds, BelowNone
      <4>2. CASE i - 1 # Len(p)
        BY <1>1, <2>1, <2>2, <2>6, <4>2
      <4> QED BY <4>1, <4>2
    <3> HIDE DEF n
    <3>3. IndexAt(q) = IndexAt(p) + n /\ g[q].splitchar = k[IndexAt(p) + n]
      <4>1. g[q] = [splitchar |-> k[IndexAt(p) + n], key |-> NULL, value |-> NULL]
        BY <1>9, <3>1, <3>2
      <4> QED BY <1>3, <3>1, <3>2, <4>1
    <3>4. k[IndexAt(q)] \in Nat /\ IndexAt(q) # Len(k)
      <4>1. IndexAt(q) \in 1..Len(k) /\ IndexAt(q) # Len(k)
        BY <1>1, <1>L, <3>1, <3>3
      <4> QED BY <4>1 DEF IsString
    <3>5. LinkAt(g, k, q) = "equal"
      BY <3>3, <3>4 DEF LinkAt, Branch
    <3>6. ~Ends(g, k, q)
      BY <2>4, <3>4 DEF Ends
    <3> QED BY <2>3, <2>4, <2>6, <3>5, <3>6 DEF q
  <2> QED BY <2>5, <2>6
<1>15. Ends(g, k, e)
  <2>1. IndexAt(e) = Len(k) /\ g[e].splitchar = k[Len(k)]
    <3>1. IndexAt(p) + L = Len(k)
      BY <1>1, <1>L
    <3>2. g[e] = [splitchar |-> k[Len(k)], key |-> NULL, value |-> NULL]
      BY <1>9, <1>13, <3>1
    <3> QED BY <1>3, <1>13, <3>1, <3>2
  <2>2. k[Len(k)] \in Nat
    BY <1>1 DEF IsString
  <2> QED BY <2>1, <2>2 DEF Ends, LinkAt, Branch
<1>16. EndsAt(g, k, e)
  <2> HIDE DEF e
  <2> QED BY <1>13, <1>14, <1>15 DEF EndsAt, OnWay
<1>17. e \notin DOMAIN t /\ IndexAt(p) \in Nat \ {0}
  BY <1>1, <1>4, <1>13
<1>18. GrownAt(t, g, k, p, L)
  BY <1>1, <1>4, <1>5, <1>7, <1>9, <1>10, <1>11, <1>12, <1>13, <1>16, <1>17, Zenon
     DEF D, GrownAt
<1> QED BY <1>0, <1>L, <1>18

LEMMA BelowChild ==
    ASSUME NEW p \in Seq(Links), NEW n \in Nat
    PROVE  Child(Below(p, n), "equal") = Below(p, n + 1)
<1> DEFINE b == Below(p, n + 1)
           i == Len(p) + n + 1
<1>1. n + 1 \in Nat /\ Len(p) \in Nat
  OBVIOUS
<1>2. /\ b \in Seq(Links) /\ Len(b) = i
      /\ \A j \in 1..i : b[j] = IF j <= Len(p) THEN p[j] ELSE "equal"
  <2> DEFINE m == n + 1
  <2>1. m \in Nat /\ Len(p) + m = i
    OBVIOUS
  <2> HIDE DEF m
  <2>2. /\ Below(p, m) \in Seq(Links) /\ Len(Below(p, m)) = Len(p) + m
        /\ \A j \in 1..Len(p) + m : Below(p, m)[j] = IF j <= Len(p) THEN p[j] ELSE "equal"
    BY <2>1, BelowFacts
  <2> QED BY <2>1, <2>2 DEF m
<1>3. Upto(b, i - 1) = Below(p, n)
  <2>1. /\ i - 1 \in 0..Len(p) + (n + 1) /\ i - 1 - Len(p) = n
        /\ i - 1 <= Len(p) => n = 0 /\ i - 1 = Len(p)
    BY <1>1
  <2>2. Upto(b, i - 1) = IF i - 1 <= Len(p) THEN Upto(p, i - 1) ELSE Below(p, i - 1 - Len(p))
    BY <1>1, <2>1, BelowUpto
  <2> QED BY <2>1, <2>2, UptoEnds, BelowNone
<1>4. i \in 1..Len(b) /\ b[i] = "equal"
  BY <1>1, <1>2
<1>5. Upto(b, i) = Child(Upto(b, i - 1), b[i])
  BY <1>2, <1>4, IndexUpto
<1>6. Upto(b, i) = b
  BY <1>2, UptoEnds
<1> QED BY <1>3, <1>4, <1>5, <1>6

Filled(g, e, k, v) == [g EXCEPT ![e].key = k, ![e].value = v]

LEMMA InsertedFills ==
    ASSUME NEW t, NEW k, NEW v
    PROVE  Inserted(t, k, v) = Filled(Grown(t, k), co_tree_find_node(Grown(t, k), k), k, v)
BY DEF Inserted, Filled

\* The key and the value go to the node at the end of the way.
LEMMA FilledFacts ==
    ASSUME TreesAssumption, NEW g, Formed(g), NEW k \in TreeKeys, NEW v \in TreeValues,
           NEW e \in DOMAIN g, EndsAt(g, k, e),
           \A q \in DOMAIN g : q # e /\ g[q].key # NULL => EndsAt(g, g[q].key, q),
           \A q \in DOMAIN g : q # e /\ (g[q].value # NULL \/ g[q].splitchar = 0)
                                  => g[q].key # NULL
    PROVE  LET u == Filled(g, e, k, v)
           IN  /\ Sound(u) /\ DOMAIN u = DOMAIN g
               /\ u[e].key = k /\ u[e].value = v
               /\ \A q \in DOMAIN g : q # e => u[q] = g[q]
<1> DEFINE u == Filled(g, e, k, v)
<1>1. g[e] \in NodeType /\ k # NULL
  BY DEF Formed, TreesAssumption
<1>2. /\ DOMAIN u = DOMAIN g
      /\ u[e] \in NodeType /\ u[e].splitchar = g[e].splitchar /\ u[e].key = k /\ u[e].value = v
      /\ \A q \in DOMAIN g : q # e => u[q] = g[q]
  BY <1>1 DEF NodeType, Filled
<1> HIDE DEF u
<1>3. Formed(u)
  BY <1>2 DEF Formed
<1>4. \A m : \A q \in DOMAIN g : EndsAt(g, m, q) => EndsAt(u, m, q)
  <2> SUFFICES ASSUME NEW m, NEW q \in DOMAIN g, EndsAt(g, m, q) PROVE EndsAt(u, m, q)
    OBVIOUS
  <2>1. \A i \in 0..Len(q) : Upto(q, i) \in DOMAIN u
    BY <1>2 DEF Formed
  <2>2. \A x \in DOMAIN g : u[x].splitchar = g[x].splitchar
    BY <1>2
  <2> QED BY <1>2, <2>1, <2>2, EndsFrame
<1>5. \A q \in DOMAIN u : u[q].key # NULL => EndsAt(u, u[q].key, q)
  BY <1>2, <1>4
<1>6. \A q \in DOMAIN u : u[q].value # NULL \/ u[q].splitchar = 0 => u[q].key # NULL
  BY <1>1, <1>2
<1> QED BY <1>2, <1>3, <1>5, <1>6 DEF Sound, u

\* What has changed after an insertion.
InsertedAt(t, u, k, v, e) ==
    /\ e \in DOMAIN u /\ u[e].key = k /\ u[e].value = v
    /\ e \in DOMAIN t => t[e].key = k
    /\ \A q \in DOMAIN t : q # e => q \in DOMAIN u /\ u[q] = t[q]
    /\ \A q \in DOMAIN u : q # e /\ q \notin DOMAIN t => u[q].key = NULL /\ u[q].value = NULL

LEMMA InsertedFacts ==
    ASSUME TreesAssumption, NEW t, Sound(t), Alive(t), NEW k \in TreeKeys, NEW v \in TreeValues
    PROVE  LET u == Inserted(t, k, v)
           IN  Sound(u) /\ Alive(u) /\ \E e : InsertedAt(t, u, k, v, e)
<1> DEFINE u == Inserted(t, k, v)
           g == Grown(t, k)
           p == co_tree_find_node(t, k)
           e == co_tree_find_node(g, k)
<1>1. /\ IsKey(k) /\ Formed(t) /\ IsFiniteSet(DOMAIN t) /\ EndsAt(t, k, p)
      /\ v # NULL /\ k # NULL
  BY FindEnds DEF Sound, Formed, TreesAssumption, IsKey, IsString
<1>2. u = Filled(g, e, k, v)
  BY InsertedFills
<1>3. CASE p \in DOMAIN t
  <2>1. g = t /\ e = p
    BY <1>3 DEF Grown
  <2>2. t[p].key = k
    BY <1>3, NodeOfKey
  <2> HIDE DEF u, g, e, p
  <2>3. /\ Sound(u) /\ DOMAIN u = DOMAIN t /\ u[p].key = k /\ u[p].value = v
        /\ \A q \in DOMAIN t : q # p => u[q] = t[q]
    BY <1>1, <1>2, <1>3, <2>1, FilledFacts DEF Sound
  <2>4. Alive(u)
    BY <1>1, <2>3 DEF Alive, Leaf
  <2>5. InsertedAt(t, u, k, v, p)
    BY <1>3, <2>2, <2>3 DEF InsertedAt
  <2> QED BY <2>3, <2>4, <2>5 DEF u
<1>4. CASE p \notin DOMAIN t
  <2> DEFINE L == Len(k) - IndexAt(p)
             D == {Below(p, n) : n \in 0..L}
             x == Below(p, L)
  <2> HIDE DEF p
  <2>1. /\ L \in Nat /\ IndexAt(p) \in Nat \ {0} /\ p \in Seq(Links) /\ x \in Seq(Links)
        /\ x \notin DOMAIN t /\ x \in DOMAIN g
        /\ DOMAIN g = DOMAIN t \cup D
        /\ \A q \in DOMAIN t : g[q] = t[q]
        /\ \A n \in 0..L : /\ Below(p, n) \notin DOMAIN t
                           /\ g[Below(p, n)] = [splitchar |-> k[IndexAt(p) + n],
                                                key |-> NULL, value |-> NULL]
        /\ IsFiniteSet(DOMAIN g)
        /\ \A q \in DOMAIN g : q \in Seq(Links)
        /\ \A q \in DOMAIN g : \A i \in 0..Len(q) : Upto(q, i) \in DOMAIN g
        /\ EndsAt(g, k, x)
    <3>1. GrownAt(t, g, k, p, L)
      <4>1. co_tree_find_node(t, k) = p
        BY DEF p
      <4> HIDE DEF L, g
      <4>2. GrownAt(t, g, k, p, Len(k) - IndexAt(p))
        BY <1>1, <1>4, <4>1, GrownFacts, FormedIsShaped DEF g, IsKey
      <4> QED BY <4>2 DEF L
    <3> HIDE DEF g, L
    <3> QED BY <3>1, Zenon DEF GrownAt
  <2>15. L \in Nat /\ IndexAt(p) \in Nat \ {0} /\ Len(k) \in Nat /\ L = Len(k) - IndexAt(p)
    <3>1. Len(k) \in Nat
      BY <1>1 DEF IsKey, IsString
    <3>2. L = Len(k) - IndexAt(p)
      OBVIOUS
    <3> HIDE DEF L, D, x, g
    <3>3. L \in Nat /\ IndexAt(p) \in Nat \ {0}
      BY <2>1, Zenon
    <3> QED BY <3>1, <3>2, <3>3
  <2>2. \A n \in 0..L : /\ k[IndexAt(p) + n] \in Nat
                        /\ k[IndexAt(p) + n] = 0 => n = L
    <3> SUFFICES ASSUME NEW n \in 0..L
                 PROVE  k[IndexAt(p) + n] \in Nat /\ (k[IndexAt(p) + n] = 0 => n = L)
      OBVIOUS
    <3>1. Len(k) \in Nat /\ IndexAt(p) + n \in 1..Len(k) /\ (IndexAt(p) + n = Len(k) => n = L)
      <4> HIDE DEF L, p
      <4> QED BY <2>15
    <3> QED BY <1>1, <3>1 DEF IsKey, IsString
  <2>3. e = x
    <3> HIDE DEF g, x
    <3> QED BY <2>1, FindFacts
  <2> HIDE DEF u, g, e, x, L
  <2>4. \A q \in D : q # x => \E n \in 0..L : q = Below(p, n) /\ n # L
    BY DEF x
  <2>5. \A q \in DOMAIN g : q \in DOMAIN t \/ q \in D
    BY <2>1
  <2>6. \A q \in D : g[q] \in NodeType
    <3> SUFFICES ASSUME NEW n \in 0..L PROVE g[Below(p, n)] \in NodeType
      OBVIOUS
    <3>1. g[Below(p, n)] = [splitchar |-> k[IndexAt(p) + n], key |-> NULL, value |-> NULL]
      BY <2>1
    <3>2. k[IndexAt(p) + n] \in Nat
      BY <2>2
    <3> QED BY <3>1, <3>2 DEF NodeType
  <2>7. \A q \in D : q # x => g[q].key = NULL /\ g[q].value = NULL /\ g[q].splitchar # 0
    <3> SUFFICES ASSUME NEW n \in 0..L, n # L
                 PROVE  /\ g[Below(p, n)].key = NULL /\ g[Below(p, n)].value = NULL
                        /\ g[Below(p, n)].splitchar # 0
      BY <2>4
    <3>1. g[Below(p, n)] = [splitchar |-> k[IndexAt(p) + n], key |-> NULL, value |-> NULL]
      BY <2>1
    <3>2. k[IndexAt(p) + n] # 0
      BY <2>2
    <3> QED BY <3>1, <3>2
  <2> HIDE DEF D
  <2>8. Formed(g)
    BY <1>1, <2>1, <2>5, <2>6 DEF Formed
  <2>9. \A q \in DOMAIN t : t[q].key # NULL => EndsAt(g, t[q].key, q)
    <3> SUFFICES ASSUME NEW q \in DOMAIN t, t[q].key # NULL PROVE EndsAt(g, t[q].key, q)
      OBVIOUS
    <3>1. EndsAt(t, t[q].key, q) /\ q \in DOMAIN g
      BY <2>1 DEF Sound
    <3>2. \A i \in 0..Len(q) : Upto(q, i) \in DOMAIN g
      BY <2>1, <3>1
    <3>3. \A y \in DOMAIN t : g[y].splitchar = t[y].splitchar
      BY <2>1
    <3> QED BY <3>1, <3>2, <3>3, EndsFrame
  <2>10. \A q \in DOMAIN g : q # x /\ g[q].key # NULL => EndsAt(g, g[q].key, q)
    BY <2>1, <2>5, <2>7, <2>9
  <2>11. \A q \in DOMAIN g : q # x /\ (g[q].value # NULL \/ g[q].splitchar = 0)
                                => g[q].key # NULL
    BY <2>1, <2>5, <2>7 DEF Sound
  <2>12. /\ Sound(u) /\ DOMAIN u = DOMAIN g /\ u[x].key = k /\ u[x].value = v
         /\ \A q \in DOMAIN g : q # x => u[q] = g[q]
    <3>1. u = Filled(g, x, k, v)
      BY <1>2, <2>3
    <3>2. x \in DOMAIN g /\ EndsAt(g, k, x)
      BY <2>1, Zenon
    <3> QED BY <2>8, <2>10, <2>11, <3>1, <3>2, FilledFacts
  <2>13. Alive(u)
    <3> SUFFICES ASSUME NEW q \in DOMAIN g, Leaf(u, q), q # x PROVE u[q].value # NULL
      BY <1>1, <2>12 DEF Alive
    <3>1. CASE q \in DOMAIN t
      BY <2>1, <2>12, <3>1 DEF Alive, Leaf
    <3>2. CASE q \in D
      <4>1. PICK n \in 0..L : q = Below(p, n) /\ n # L
        BY <2>4, <3>2
      <4>2. n \in Nat /\ n + 1 \in 0..L
        BY <2>15, <4>1
      <4>3. Child(q, "equal") = Below(p, n + 1)
        <5>1. p \in Seq(Links)
          BY <2>1
        <5> QED BY <5>1, <4>1, <4>2, BelowChild
      <4>4. Below(p, n + 1) \in DOMAIN u
        BY <2>1, <2>12, <4>2 DEF D
      <4> QED BY <4>3, <4>4 DEF Leaf, Links
    <3> QED BY <2>5, <3>1, <3>2
  <2>14. InsertedAt(t, u, k, v, x)
    <3>1. x \in DOMAIN u /\ x \notin DOMAIN t
      BY <2>1, <2>12, Zenon
    <3>2. ASSUME NEW q \in DOMAIN t, q # x PROVE q \in DOMAIN u /\ u[q] = t[q]
      <4>1. q \in DOMAIN g /\ g[q] = t[q]
        BY <2>1, <3>2, Zenon
      <4> QED BY <2>12, <3>2, <4>1
    <3>3. ASSUME NEW q \in DOMAIN u, q # x, q \notin DOMAIN t
          PROVE  u[q].key = NULL /\ u[q].value = NULL
      BY <2>5, <2>7, <2>12, <3>3
    <3> QED BY <2>12, <3>1, <3>2, <3>3 DEF InsertedAt
  <2> QED BY <2>12, <2>13, <2>14 DEF u
<1> QED BY <1>3, <1>4

-----------------------------------------------------------------------------
(* Deletion.                                                               *)

\* What one call of _co_tree_delete_r does when it returns.
Freed(t, q) ==
    IF Leaf(t, q) /\ t[q].value = NULL THEN Restrict(t, DOMAIN t \ {q}) ELSE t

LEMMA ReturnedMeans ==
    ASSUME NEW t, NEW p \in Seq(Links)
    PROVE  /\ Returned(t, p)[0] = t
           /\ \A n \in 1..Len(p) + 1 :
                 Returned(t, p)[n] = Freed(Returned(t, p)[n - 1], Upto(p, Len(p) + 1 - n))
<1> DEFINE N == Len(p) + 1
           Step(r, n) == Freed(r, Upto(p, Len(p) + 1 - n))
           Run(w, m) == w = [n \in 0..m |-> IF n = 0 THEN t ELSE Step(w[n - 1], n)]
           hard == {m \in 0..N : ~ \E w : Run(w, m)}
           least == Min(hard)
           R == Returned(t, p)
<1>1. N \in Nat
  OBVIOUS
<1>2. R = CHOOSE w : Run(w, N)
  BY DEF Returned, Freed, Upto
<1> HIDE DEF Step, N, R
<1>3. hard = {}
  <2> SUFFICES ASSUME hard # {} PROVE FALSE
    OBVIOUS
  <2>1. hard \subseteq Nat
    BY <1>1
  <2>2. least \in hard /\ \A m \in hard : least <= m
    <3> HIDE DEF hard
    <3> QED BY <2>1, MinFacts
  <2> HIDE DEF least
  <2>3. CASE least = 0
    <3> DEFINE w == [n \in 0..0 |-> t]
    <3>1. Run(w, 0)
      OBVIOUS
    <3> QED BY <2>2, <2>3, <3>1
  <2>4. CASE least # 0
    <3>1. least \in 0..N /\ least - 1 \in 0..N /\ ~(least <= least - 1)
      BY <1>1, <2>2, <2>4
    <3>2. PICK w : Run(w, least - 1)
      BY <2>2, <3>1
    <3> DEFINE x == [n \in 0..least |-> IF n = least THEN Step(w[least - 1], least) ELSE w[n]]
    <3>3. \A n \in 0..least : x[n] = IF n = 0 THEN t ELSE Step(x[n - 1], n)
      <4> SUFFICES ASSUME NEW n \in 0..least
                   PROVE  x[n] = IF n = 0 THEN t ELSE Step(x[n - 1], n)
        OBVIOUS
      <4>1. CASE n = least
        <5>1. x[n] = Step(w[least - 1], least) /\ n # 0 /\ n - 1 = least - 1
          BY <2>4, <4>1
        <5>2. x[n - 1] = w[least - 1]
          BY <1>1, <3>1, <4>1
        <5> HIDE DEF x
        <5> QED BY <4>1, <5>1, <5>2
      <4>2. CASE n # least
        <5>1. n \in 0..least - 1 /\ (n # 0 => n - 1 \in 0..least /\ n - 1 # least)
          BY <1>1, <3>1, <4>2
        <5>2. x[n] = w[n] /\ (n # 0 => x[n - 1] = w[n - 1])
          BY <4>2, <5>1
        <5> HIDE DEF x
        <5> QED BY <3>2, <5>1, <5>2
      <4> QED BY <4>1, <4>2
    <3>4. Run(x, least)
      BY <3>3
    <3> HIDE DEF x, Run
    <3> QED BY <2>2, <3>4
  <2> QED BY <2>3, <2>4
<1>4. Run(R, N)
  <2>1. N \in 0..N
    BY <1>1
  <2>2. \E w : Run(w, N)
    BY <1>3, <2>1
  <2> HIDE DEF Run
  <2> QED BY <1>2, <2>2
<1>5. R[0] = t /\ \A n \in 1..N : R[n] = Step(R[n - 1], n)
  <2>1. 0 \in 0..N /\ \A n \in 1..N : n \in 0..N /\ n # 0
    BY <1>1
  <2> QED BY <1>4, <2>1
<1> QED BY <1>5 DEF Step, N, R

\* The tree when the n lowest calls have returned: nodes without a value are
\* gone, and a leaf without one can only be where the next call stands.
PrunedTo(t, p, n, r) ==
    /\ DOMAIN r \subseteq DOMAIN t
    /\ \A q \in DOMAIN r : r[q] = t[q]
    /\ \A q \in DOMAIN r : \A i \in 0..Len(q) : Upto(q, i) \in DOMAIN r
    /\ \A q \in DOMAIN t : q \notin DOMAIN r => t[q].value = NULL
    /\ \A i \in 0..Len(p) - n : Upto(p, i) \in DOMAIN r
    /\ \A q \in DOMAIN r : Leaf(r, q) /\ t[q].value = NULL
                              => n <= Len(p) /\ q = Upto(p, Len(p) - n)

LEMMA FreedFacts ==
    ASSUME NEW t, Formed(t), NEW p \in Seq(Links), NEW n \in 0..Len(p), NEW r,
           PrunedTo(t, p, n, r)
    PROVE  PrunedTo(t, p, n + 1, Freed(r, Upto(p, Len(p) - n)))
<1> DEFINE q == Upto(p, Len(p) - n)
           u == Freed(r, q)
<1>1. /\ Len(p) \in Nat /\ n \in Nat /\ Len(p) - n \in 0..Len(p)
      /\ \A i \in 0..Len(p) - (n + 1) : i \in 0..Len(p) - n /\ i \in 0..Len(p) /\ i # Len(p) - n
  OBVIOUS
<1>2. q \in Seq(Links) /\ Len(q) = Len(p) - n /\ q \in DOMAIN r
  <2>1. Len(p) - n \in 0..Len(p) - n
    BY <1>1
  <2> QED BY <1>1, <2>1, UptoFacts DEF PrunedTo
<1>3. /\ \A x \in DOMAIN r : x \in DOMAIN t /\ x \in Seq(Links) /\ Len(x) \in Nat /\ r[x] = t[x]
      /\ \A x \in DOMAIN r : \A i \in 0..Len(x) : Upto(x, i) \in DOMAIN r
  BY DEF PrunedTo, Formed
<1> HIDE DEF q
<1>4. CASE ~(Leaf(r, q) /\ r[q].value = NULL)
  <2>1. u = r
    BY <1>4 DEF Freed
  <2>2. \A x \in DOMAIN r : ~(Leaf(r, x) /\ t[x].value = NULL)
    BY <1>3, <1>4 DEF PrunedTo, q
  <2> HIDE DEF u
  <2>3. PrunedTo(t, p, n + 1, u)
    BY <1>1, <2>1, <2>2 DEF PrunedTo
  <2> QED BY <2>3 DEF u, q
<1>5. CASE Leaf(r, q) /\ r[q].value = NULL
  <2>1. DOMAIN u = DOMAIN r \ {q} /\ \A x \in DOMAIN u : u[x] = r[x]
    BY <1>5 DEF Freed, Restrict
  <2> HIDE DEF u
  <2>2. ASSUME NEW x \in DOMAIN u, NEW i \in 0..Len(x)
        PROVE  Upto(x, i) \in DOMAIN u
    <3>1. /\ x \in DOMAIN r /\ x # q /\ x \in Seq(Links) /\ Len(x) \in Nat
          /\ Upto(x, i) \in DOMAIN r
      BY <1>3, <2>1
    <3>2. SUFFICES ASSUME Upto(x, i) = q PROVE FALSE
      BY <2>1, <3>1
    <3>3. i + 1 \in 1..Len(x) /\ i + 1 \in 0..Len(x) /\ i + 1 - 1 = i
      BY <3>1, <3>2, UptoEnds
    <3>4. Upto(x, i + 1) = Child(q, x[i + 1]) /\ x[i + 1] \in Links
      BY <3>1, <3>2, <3>3, IndexUpto
    <3> QED BY <1>3, <1>5, <3>1, <3>3, <3>4 DEF Leaf
  <2>3. \A i \in 0..Len(p) - (n + 1) : Upto(p, i) \in DOMAIN u
    <3> SUFFICES ASSUME NEW i \in 0..Len(p) - (n + 1) PROVE Upto(p, i) \in DOMAIN u
      OBVIOUS
    <3>1. Upto(p, i) \in DOMAIN r /\ Len(Upto(p, i)) = i
      BY <1>1, UptoFacts DEF PrunedTo
    <3> QED BY <1>1, <1>2, <2>1, <3>1
  <2>4. ASSUME NEW x \in DOMAIN u, Leaf(u, x), t[x].value = NULL
        PROVE  n + 1 <= Len(p) /\ x = Upto(p, Len(p) - (n + 1))
    <3>1. x \in DOMAIN r /\ x # q /\ x \in Seq(Links) /\ Len(x) \in Nat
      BY <1>3, <2>1
    <3>2. ~Leaf(r, x)
      BY <2>4, <3>1 DEF PrunedTo, q
    <3>3. PICK link \in Links : Child(x, link) = q
      BY <2>1, <2>4, <3>2 DEF Leaf
    <3>4. Len(q) = Len(x) + 1 /\ Upto(q, Len(x)) = x
      BY <3>1, <3>3, ChildFacts
    <3>5. /\ Len(x) = Len(p) - (n + 1) /\ n + 1 <= Len(p)
          /\ Len(x) \in 0..Len(p) - n
      BY <1>1, <1>2, <3>1, <3>4
    <3>6. Upto(q, Len(x)) = Upto(p, Len(x))
      BY <1>1, <3>5, UptoUpto DEF q
    <3> QED BY <3>4, <3>5, <3>6
  <2>5. \A x \in DOMAIN t : x \notin DOMAIN u => t[x].value = NULL
    BY <1>2, <1>3, <1>5, <2>1 DEF PrunedTo
  <2>6. DOMAIN u \subseteq DOMAIN t /\ \A x \in DOMAIN u : u[x] = t[x]
    BY <1>3, <2>1
  <2>7. PrunedTo(t, p, n + 1, u)
    BY <2>2, <2>3, <2>4, <2>5, <2>6 DEF PrunedTo
  <2> QED BY <2>7 DEF u, q
<1> QED BY <1>4, <1>5

LEMMA PrunedFacts ==
    ASSUME NEW t, Formed(t), NEW p \in DOMAIN t,
           \A q \in DOMAIN t : Leaf(t, q) /\ t[q].value = NULL => q = p
    PROVE  PrunedTo(t, p, Len(p) + 1, Pruned(t, p))
<1> DEFINE R == Returned(t, p)
           wrong == {n \in 0..Len(p) + 1 : ~PrunedTo(t, p, n, R[n])}
           m == Min(wrong)
<1>1. p \in Seq(Links) /\ Len(p) \in Nat
  BY DEF Formed
<1>2. R[0] = t /\ \A n \in 1..Len(p) + 1 : R[n] = Freed(R[n - 1], Upto(p, Len(p) + 1 - n))
  BY <1>1, ReturnedMeans
<1> HIDE DEF R
<1>3. wrong = {}
  <2> SUFFICES ASSUME wrong # {} PROVE FALSE
    OBVIOUS
  <2>1. wrong \subseteq Nat
    BY <1>1
  <2>2. m \in wrong /\ \A n \in wrong : m <= n
    <3> HIDE DEF wrong
    <3> QED BY <2>1, MinFacts
  <2> HIDE DEF m
  <2>3. CASE m = 0
    <3>1. \A q \in DOMAIN t : Leaf(t, q) /\ t[q].value = NULL
                                 => 0 <= Len(p) /\ q = Upto(p, Len(p) - 0)
      BY <1>1, UptoEnds
    <3>2. \A i \in 0..Len(p) - 0 : Upto(p, i) \in DOMAIN t
      BY <1>1 DEF Formed
    <3>3. PrunedTo(t, p, 0, t)
      BY <3>1, <3>2 DEF PrunedTo, Formed
    <3> QED BY <1>2, <2>2, <2>3, <3>3
  <2>4. CASE m # 0
    <3> DEFINE n == m - 1
    <3>1. n \in 0..Len(p) /\ n \in 0..Len(p) + 1 /\ ~(m <= n) /\ n + 1 = m
          /\ m \in 1..Len(p) + 1 /\ Len(p) + 1 - m = Len(p) - n
      BY <1>1, <2>2, <2>4
    <3>2. PrunedTo(t, p, n, R[n])
      BY <2>2, <3>1
    <3>3. R[m] = Freed(R[n], Upto(p, Len(p) - n))
      BY <1>2, <3>1
    <3> HIDE DEF n
    <3>4. PrunedTo(t, p, n + 1, Freed(R[n], Upto(p, Len(p) - n)))
      BY <1>1, <3>1, <3>2, FreedFacts
    <3> QED BY <2>2, <3>1, <3>3, <3>4
  <2> QED BY <2>3, <2>4
<1>4. Len(p) + 1 \in 0..Len(p) + 1
  BY <1>1
<1>5. PrunedTo(t, p, Len(p) + 1, R[Len(p) + 1])
  BY <1>3, <1>4
<1> QED BY <1>5 DEF Pruned, R

\* What has changed after a deletion.
DeletedAt(t, u, k, p) ==
    /\ p \in DOMAIN t /\ t[p].key = k
    /\ \A q \in DOMAIN u : /\ q \in DOMAIN t
                           /\ q # p => u[q] = t[q]
                           /\ q = p => u[q].key = k /\ u[q].value = NULL
    /\ \A q \in DOMAIN t : q \notin DOMAIN u /\ q # p => t[q].value = NULL

LEMMA DeletedFacts ==
    ASSUME TreesAssumption, NEW t, Sound(t), Alive(t), NEW k \in TreeKeys, HasNode(t, k)
    PROVE  LET u == Deleted(t, k)
           IN  Sound(u) /\ Alive(u) /\ \E p : DeletedAt(t, u, k, p)
<1> DEFINE u == Deleted(t, k)
           p == co_tree_find_node(t, k)
           s == [t EXCEPT ![p].value = NULL]
<1>1. u = Pruned(s, p)
  BY DEF Deleted
<1>2. p \in DOMAIN t /\ t[p].key = k /\ t[p] \in NodeType
  BY NodeOfKey DEF HasNode, Sound, Formed
<1> HIDE DEF p
<1>3. /\ DOMAIN s = DOMAIN t /\ \A q \in DOMAIN t : q # p => s[q] = t[q]
      /\ s[p] \in NodeType /\ s[p].splitchar = t[p].splitchar /\ s[p].key = k
      /\ s[p].value = NULL
  BY <1>2 DEF NodeType
<1> HIDE DEF s, u
<1>4. Formed(s)
  BY <1>3 DEF Sound, Formed
<1>5. \A q \in DOMAIN s : Leaf(s, q) /\ s[q].value = NULL => q = p
  BY <1>3 DEF Alive, Leaf
<1>6. PrunedTo(s, p, Len(p) + 1, u)
  BY <1>1, <1>2, <1>3, <1>4, <1>5, PrunedFacts
<1>7. p \in Seq(Links) /\ ~(Len(p) + 1 <= Len(p))
  <2>1. p \in Seq(Links) /\ Len(p) \in Nat
    BY <1>2 DEF Sound, Formed
  <2> QED BY <2>1
<1>8. DOMAIN u \subseteq DOMAIN t /\ \A q \in DOMAIN u : u[q] = s[q]
  BY <1>3, <1>6 DEF PrunedTo
<1>9. Formed(u)
  <2>1. IsFiniteSet(DOMAIN u)
    <3>1. IsFiniteSet(DOMAIN t)
      BY DEF Sound, Formed
    <3> QED BY <1>8, <3>1, FS_Subset
  <2> QED BY <1>3, <1>4, <1>6, <1>8, <2>1 DEF PrunedTo, Formed
<1>10. ASSUME NEW q \in DOMAIN u, u[q].key # NULL
       PROVE  EndsAt(u, u[q].key, q)
  <2>1. q \in DOMAIN t /\ u[q].key = t[q].key /\ EndsAt(t, t[q].key, q)
    BY <1>2, <1>3, <1>8, <1>10 DEF Sound
  <2>2. \A i \in 0..Len(q) : Upto(q, i) \in DOMAIN u
    BY <1>9 DEF Formed
  <2>3. \A x \in DOMAIN t : x \in DOMAIN u => u[x].splitchar = t[x].splitchar
    BY <1>3, <1>8
  <2> QED BY <2>1, <2>2, <2>3, EndsFrame
<1>11. \A q \in DOMAIN u : u[q].value # NULL \/ u[q].splitchar = 0 => u[q].key # NULL
  BY <1>2, <1>3, <1>8 DEF Sound
<1>12. Sound(u)
  BY <1>9, <1>10, <1>11 DEF Sound
<1>13. Alive(u)
  BY <1>6, <1>7, <1>8 DEF Alive, PrunedTo
<1>14. \A q \in DOMAIN t : q \notin DOMAIN u /\ q # p => t[q].value = NULL
  BY <1>3, <1>6 DEF PrunedTo
<1>15. DeletedAt(t, u, k, p)
  BY <1>2, <1>3, <1>8, <1>14 DEF DeletedAt
<1> QED BY <1>12, <1>13, <1>15 DEF u

-----------------------------------------------------------------------------
(* The tree as a map.                                                      *)

LEMMA InsertedValues ==
    ASSUME TreesAssumption, NEW t, NEW u, Sound(t), Sound(u),
           NEW k \in TreeKeys, NEW v \in TreeValues,
           NEW e, InsertedAt(t, u, k, v, e), NEW m \in TreeKeys
    PROVE  ValueAt(u, m) = IF m = k THEN v ELSE ValueAt(t, m)
<1>1. m # NULL
  BY DEF TreesAssumption
<1>2. CASE m = k
  BY <1>2, ValueFacts DEF InsertedAt
<1>3. CASE m # k /\ HasNode(t, m)
  <2>1. PICK q \in DOMAIN t : t[q].key = m /\ ValueAt(t, m) = t[q].value
    BY <1>3, ValueFacts
  <2>2. q \in DOMAIN u /\ u[q] = t[q]
    BY <1>3, <2>1 DEF InsertedAt
  <2> QED BY <1>3, <2>1, <2>2, ValueFacts
<1>4. CASE m # k /\ ~HasNode(t, m)
  <2>1. \A q \in DOMAIN t : t[q].key # m
    BY <1>4, ValueFacts
  <2>2. \A q \in DOMAIN u : u[q].key # m
    BY <1>1, <1>4, <2>1 DEF InsertedAt
  <2> QED BY <1>4, <2>2, ValueFacts
<1> QED BY <1>2, <1>3, <1>4

LEMMA DeletedValues ==
    ASSUME TreesAssumption, NEW t, NEW u, Sound(t), Sound(u),
           NEW k \in TreeKeys, NEW p, DeletedAt(t, u, k, p), NEW m \in TreeKeys
    PROVE  ValueAt(u, m) = IF m = k THEN NULL ELSE ValueAt(t, m)
<1>1. \A q \in DOMAIN t : t[q].key = m <=> q = co_tree_find_node(t, m)
  BY NodeOfKey
<1>2. \A q \in DOMAIN u : q \in DOMAIN t /\ u[q].key = t[q].key
  BY DEF DeletedAt
<1>3. CASE HasNode(u, m)
  <2>1. PICK q \in DOMAIN u : u[q].key = m /\ ValueAt(u, m) = u[q].value
    BY <1>3, ValueFacts
  <2>2. q \in DOMAIN t /\ t[q].key = m /\ ValueAt(t, m) = t[q].value
    BY <1>2, <2>1, ValueFacts
  <2>3. m = k => q = p
    BY <1>1, <2>2 DEF DeletedAt
  <2>4. m # k => q # p
    BY <2>2 DEF DeletedAt
  <2> QED BY <2>1, <2>2, <2>3, <2>4 DEF DeletedAt
<1>4. CASE ~HasNode(u, m)
  <2>1. ValueAt(u, m) = NULL
    BY <1>4, ValueFacts
  <2>2. CASE HasNode(t, m) /\ m # k
    <3>1. PICK q \in DOMAIN t : t[q].key = m /\ ValueAt(t, m) = t[q].value
      BY <2>2, ValueFacts
    <3>2. q \notin DOMAIN u
      BY <1>2, <1>4, <3>1, ValueFacts
    <3>3. q # p
      BY <2>2, <3>1 DEF DeletedAt
    <3>4. t[q].value = NULL
      BY <3>2, <3>3 DEF DeletedAt
    <3> QED BY <2>1, <3>1, <3>4
  <2>3. CASE ~HasNode(t, m)
    BY <2>1, <2>3, ValueFacts
  <2> QED BY <2>1, <2>2, <2>3
<1> QED BY <1>3, <1>4

MapOf(t) ==
    LET held == {p \in DOMAIN t : t[p].value # NULL}
    IN  [k \in {t[p].key : p \in held} |-> t[CHOOSE p \in held : t[p].key = k].value]

LEMMA MapNow == map = MapOf(tree)
BY DEF map, MapOf

LEMMA MapNext == map' = MapOf(tree')
BY DEF map, MapOf

\* It gives each key the value that is found for it.
LEMMA MapFacts ==
    ASSUME TreesAssumption, NEW t, Sound(t)
    PROVE  MapOf(t) = [k \in {x \in TreeKeys : ValueAt(t, x) # NULL} |-> ValueAt(t, k)]
<1> DEFINE held == {p \in DOMAIN t : t[p].value # NULL}
           K == {t[p].key : p \in held}
<1>1. \A p \in held : t[p].key \in TreeKeys
  BY DEF Sound, Formed, NodeType
<1>2. K = {x \in TreeKeys : ValueAt(t, x) # NULL}
  <2>1. ASSUME NEW p \in held
        PROVE  t[p].key \in TreeKeys /\ ValueAt(t, t[p].key) # NULL
    BY <1>1, ValueFacts
  <2>2. ASSUME NEW x \in TreeKeys, ValueAt(t, x) # NULL
        PROVE  \E p \in held : t[p].key = x
    BY <2>2, ValueFacts
  <2> QED BY <2>1, <2>2
<1>3. ASSUME NEW k \in K
      PROVE  t[CHOOSE p \in held : t[p].key = k].value = ValueAt(t, k)
  <2> DEFINE q == CHOOSE p \in held : t[p].key = k
  <2>1. q \in held /\ t[q].key = k
    OBVIOUS
  <2> HIDE DEF q
  <2>2. k \in TreeKeys /\ q \in DOMAIN t
    BY <1>1, <2>1
  <2>3. t[q].value = ValueAt(t, k)
    BY <2>1, <2>2, ValueFacts
  <2> QED BY <2>3 DEF q
<1> DEFINE f(k) == t[CHOOSE p \in held : t[p].key = k].value
<1>4. MapOf(t) = [k \in K |-> f(k)] /\ \A k \in K : f(k) = ValueAt(t, k)
  BY <1>3 DEF MapOf
<1> HIDE DEF K, f
<1>5. MapOf(t) = [k \in K |-> ValueAt(t, k)]
  BY <1>4
<1> QED BY <1>2, <1>5

-----------------------------------------------------------------------------
(* The steps.                                                              *)

\* A key without a value is one that was deleted.
Cleared(t, gone) ==
    \A p \in DOMAIN t : t[p].key # NULL /\ t[p].value = NULL => t[p].key \in gone

TreesInv == TreesTypeOK /\ Sound(tree) /\ Alive(tree) /\ Cleared(tree, retired)

LEMMA ModType ==
    ASSUME TreesAssumption, NEW i \in Int
    PROVE  i % LenMod \in 0..(LenMod - 1)
BY DEF TreesAssumption

\* The map after a step.
LEMMA PutMap ==
    ASSUME TreesAssumption, NEW t, NEW u, Sound(t), Sound(u), NEW k \in TreeKeys,
           NEW v \in TreeValues,
           \A m \in TreeKeys : ValueAt(u, m) = IF m = k THEN v ELSE ValueAt(t, m)
    PROVE  MapOf(u) = [x \in DOMAIN MapOf(t) \cup {k} |-> IF x = k THEN v ELSE MapOf(t)[x]]
<1>1. v # NULL
  BY DEF TreesAssumption
<1> DEFINE D(s) == {x \in TreeKeys : ValueAt(s, x) # NULL}
<1>2. /\ MapOf(t) = [x \in D(t) |-> ValueAt(t, x)] /\ MapOf(u) = [x \in D(u) |-> ValueAt(u, x)]
  BY MapFacts
<1>3. D(u) = D(t) \cup {k}
  BY <1>1
<1>4. \A x \in D(u) : x \in TreeKeys
  OBVIOUS
<1>5. DOMAIN MapOf(t) = D(t)
  BY <1>2
<1> HIDE DEF D
<1>6. \A x \in D(u) : ValueAt(u, x) = IF x = k THEN v ELSE MapOf(t)[x]
  BY <1>2, <1>3, <1>4
<1> QED BY <1>2, <1>3, <1>5, <1>6

LEMMA CutMap ==
    ASSUME TreesAssumption, NEW t, NEW u, Sound(t), Sound(u), NEW k \in TreeKeys,
           \A m \in TreeKeys : ValueAt(u, m) = IF m = k THEN NULL ELSE ValueAt(t, m)
    PROVE  MapOf(u) = Restrict(MapOf(t), DOMAIN MapOf(t) \ {k})
<1> DEFINE D(s) == {x \in TreeKeys : ValueAt(s, x) # NULL}
<1>2. /\ MapOf(t) = [x \in D(t) |-> ValueAt(t, x)] /\ MapOf(u) = [x \in D(u) |-> ValueAt(u, x)]
  BY MapFacts
<1>3. D(u) = D(t) \ {k}
  OBVIOUS
<1>4. \A x \in D(u) : x \in TreeKeys /\ x # k
  BY <1>3
<1>5. DOMAIN MapOf(t) = D(t)
  BY <1>2
<1> HIDE DEF D
<1>6. \A x \in D(u) : ValueAt(u, x) = MapOf(t)[x]
  BY <1>2, <1>3, <1>4
<1> QED BY <1>2, <1>3, <1>5, <1>6 DEF Restrict

LEMMA EmptyFacts ==
    Sound(EmptyTree) /\ Alive(EmptyTree) /\ Cleared(EmptyTree, {}) /\ MapOf(EmptyTree) = <<>>
<1>1. DOMAIN EmptyTree = {}
  BY DEF EmptyTree
<1>2. IsFiniteSet({})
  BY FS_EmptySet
<1>3. MapOf(EmptyTree) = <<>>
  <2>1. DOMAIN MapOf(EmptyTree) = {}
    BY <1>1 DEF MapOf
  <2>2. MapOf(EmptyTree) = [k \in {} |-> MapOf(EmptyTree)[k]]
    BY <2>1 DEF MapOf
  <2> QED BY <2>2
<1> QED BY <1>1, <1>2, <1>3 DEF Sound, Formed, Alive, Cleared

LEMMA InitInv == ASSUME TreesAssumption, TreesInit PROVE TreesInv /\ Map!Init
<1>1. LenMod \in Nat \ {0}
  BY DEF TreesAssumption
<1>2. TreesTypeOK
  BY <1>1 DEF TreesInit, TreesTypeOK, EmptyTree
<1>3. Sound(tree) /\ Alive(tree) /\ Cleared(tree, retired) /\ map = <<>>
  BY EmptyFacts, MapNow DEF TreesInit
<1> QED BY <1>2, <1>3 DEF TreesInv, Map!Init, TreesInit

\* A call that changes nothing but its result.
LEMMA SameInv ==
    ASSUME TreesInv, UNCHANGED <<calls, treeState>>
    PROVE  TreesInv' /\ map' = map /\ retired' = retired
<1>1. /\ tree' = tree /\ tlen' = tlen /\ owned' = owned /\ tfreed' = tfreed /\ retired' = retired
  BY DEF treeState
<1>2. map' = map
  BY <1>1, MapNow, MapNext
<1>3. TreesTypeOK'
  BY <1>1 DEF TreesInv, TreesTypeOK
<1> QED BY <1>1, <1>2, <1>3 DEF TreesInv

LEMMA FoundMap ==
    ASSUME TreesAssumption, TreesInv, NEW k \in TreeKeys
    PROVE  /\ k \in DOMAIN map <=> ValueAt(tree, k) # NULL
           /\ k \in DOMAIN map => map[k] = ValueAt(tree, k)
           /\ HasNode(tree, k) => k \in DOMAIN map \/ k \in retired
<1>1. map = [x \in {y \in TreeKeys : ValueAt(tree, y) # NULL} |-> ValueAt(tree, x)]
  BY MapNow, MapFacts DEF TreesInv
<1>2. HasNode(tree, k) => ValueAt(tree, k) # NULL \/ k \in retired
  BY ValueFacts DEF TreesInv, Cleared, TreesAssumption
<1> QED BY <1>1, <1>2

LEMMA InsertionStep ==
    ASSUME TreesAssumption, TreesInv, NEW call, NEW k \in TreeKeys, NEW v \in TreeValues,
           NEW safe \in BOOLEAN, _co_tree_insert(call, k, v, safe), UNCHANGED calls
    PROVE  TreesInv' /\ Map!Put(call, k, v)
<1>1. /\ tree' = Inserted(tree, k, v) /\ retired' = retired \ {k} /\ tret' = <<call, k, 1>>
      /\ tlen' = (tlen + 1) % LenMod
      /\ tfreed' = tfreed \cup ({ValueAt(tree, k)} \ {NULL})
      /\ owned' = (owned \ {ValueAt(tree, k)}) \cup (IF safe THEN {v} ELSE {})
  BY DEF _co_tree_insert, _co_tree_change_length
<1>2. TreesTypeOK /\ Sound(tree) /\ Alive(tree) /\ Cleared(tree, retired) /\ v # NULL
  BY DEF TreesInv, TreesAssumption
<1>3. Sound(tree') /\ Alive(tree') /\ \E e : InsertedAt(tree, tree', k, v, e)
  BY <1>1, <1>2, InsertedFacts
<1>4. PICK e : InsertedAt(tree, tree', k, v, e)
  BY <1>3
<1>5. Cleared(tree', retired')
  <2> SUFFICES ASSUME NEW q \in DOMAIN tree', tree'[q].key # NULL, tree'[q].value = NULL
               PROVE  tree'[q].key \in retired'
    BY DEF Cleared
  <2>1. q # e /\ q \in DOMAIN tree /\ tree'[q] = tree[q]
    BY <1>2, <1>4 DEF InsertedAt
  <2>2. tree[q].key \in retired
    BY <1>2, <2>1 DEF Cleared
  <2>3. tree'[q].key # k
    <3>1. tree'[q].key = k => q = co_tree_find_node(tree', k)
      BY <1>3, NodeOfKey
    <3>2. e = co_tree_find_node(tree', k)
      BY <1>3, <1>4, NodeOfKey DEF InsertedAt
    <3> QED BY <2>1, <3>1, <3>2
  <2> QED BY <1>1, <2>1, <2>2, <2>3
<1>6. TreesTypeOK'
  <2>1. tlen' \in 0..(LenMod - 1)
    <3>1. tlen + 1 \in Int
      BY <1>2 DEF TreesTypeOK
    <3> QED BY <1>1, <3>1, ModType
  <2>2. ValueAt(tree, k) \in TreeValues \cup {NULL}
    BY <1>2, ValueFacts
  <2>3. \A p \in DOMAIN tree' : p \in Seq(Links) /\ tree'[p] \in NodeType
    BY <1>3 DEF Sound, Formed
  <2> QED BY <1>1, <1>2, <2>1, <2>2, <2>3 DEF TreesTypeOK
<1>7. \A m \in TreeKeys : ValueAt(tree', m) = IF m = k THEN v ELSE ValueAt(tree, m)
  BY <1>2, <1>3, <1>4, InsertedValues
<1>8. map' = [x \in DOMAIN map \cup {k} |-> IF x = k THEN v ELSE map[x]]
  <2>1. MapOf(tree') = [x \in DOMAIN MapOf(tree) \cup {k} |->
                           IF x = k THEN v ELSE MapOf(tree)[x]]
    BY <1>2, <1>3, <1>7, PutMap
  <2> QED BY <2>1, MapNow, MapNext
<1>9. TreesInv'
  BY <1>3, <1>5, <1>6 DEF TreesInv
<1> QED BY <1>1, <1>8, <1>9 DEF Map!Put

LEMMA InsertStep ==
    ASSUME TreesAssumption, TreesInv, NEW k \in TreeKeys, NEW v \in TreeValues,
           NEW safe \in BOOLEAN,
           co_tree_insert(k, v, safe), UNCHANGED calls
    PROVE  TreesInv' /\ Map!Insert(k, v)
<1>1. CASE HasNode(tree, k)
  <2>1. tret' = <<"insert", k, 0>> /\ UNCHANGED treeState
    BY <1>1 DEF co_tree_insert
  <2>2. TreesInv' /\ map' = map /\ retired' = retired
    BY <2>1, SameInv
  <2>3. k \in DOMAIN map \cup retired
    BY <1>1, FoundMap
  <2> QED BY <2>1, <2>2, <2>3 DEF Map!Insert
<1>2. CASE ~HasNode(tree, k)
  <2>1. _co_tree_insert("insert", k, v, safe)
    BY <1>2 DEF co_tree_insert
  <2>2. TreesInv' /\ Map!Put("insert", k, v)
    BY <2>1, InsertionStep
  <2>3. k \notin DOMAIN map
    <3>1. ValueAt(tree, k) = NULL
      BY <1>2 DEF ValueAt
    <3> QED BY <3>1, FoundMap
  <2> QED BY <2>2, <2>3 DEF Map!Insert
<1> QED BY <1>1, <1>2

LEMMA ForceStep ==
    ASSUME TreesAssumption, TreesInv, NEW k \in TreeKeys, NEW v \in TreeValues,
           NEW safe \in BOOLEAN,
           co_tree_insert_force(k, v, safe), UNCHANGED calls
    PROVE  TreesInv' /\ Map!Force(k, v)
BY InsertionStep DEF co_tree_insert_force, Map!Force

LEMMA FindStep ==
    ASSUME TreesAssumption, TreesInv, NEW k \in TreeKeys, co_tree_find(k), UNCHANGED calls
    PROVE  TreesInv' /\ Map!Find(k)
<1>1. tret' = <<"find", k, ValueAt(tree, k)>> /\ UNCHANGED treeState
  BY DEF co_tree_find
<1>2. TreesInv' /\ map' = map /\ retired' = retired
  BY <1>1, SameInv
<1>3. ValueAt(tree, k) = IF k \in DOMAIN map THEN map[k] ELSE NULL
  BY FoundMap
<1> QED BY <1>1, <1>2, <1>3 DEF Map!Find

LEMMA DeleteStep ==
    ASSUME TreesAssumption, TreesInv, NEW k \in TreeKeys, co_tree_delete(k), UNCHANGED calls
    PROVE  TreesInv' /\ Map!Delete(k)
<1>1. CASE ValueAt(tree, k) = NULL
  <2>1. \E r \in {NULL, Fault} : tret' = <<"delete", k, r>>
    BY <1>1 DEF co_tree_delete
  <2>2. UNCHANGED treeState
    BY <1>1 DEF co_tree_delete
  <2>3. TreesInv' /\ map' = map /\ retired' = retired
    BY <2>2, SameInv
  <2>4. k \notin DOMAIN map
    BY <1>1, FoundMap
  <2> QED BY <2>1, <2>3, <2>4 DEF Map!Delete
<1>2. CASE ValueAt(tree, k) # NULL
  <2>1. /\ tree' = Deleted(tree, k) /\ owned' = owned \ {ValueAt(tree, k)}
        /\ tlen' = (tlen + (-1)) % LenMod /\ retired' = retired \cup {k}
        /\ tret' = <<"delete", k, ValueAt(tree, k)>> /\ tfreed' = tfreed
    BY <1>2 DEF co_tree_delete, _co_tree_change_length
  <2>2. TreesTypeOK /\ Sound(tree) /\ Alive(tree) /\ Cleared(tree, retired) /\ HasNode(tree, k)
    BY <1>2 DEF TreesInv, ValueAt
  <2>3. Sound(tree') /\ Alive(tree') /\ \E p : DeletedAt(tree, tree', k, p)
    BY <2>1, <2>2, DeletedFacts
  <2>4. PICK p : DeletedAt(tree, tree', k, p)
    BY <2>3
  <2>5. Cleared(tree', retired')
    BY <2>1, <2>2, <2>4 DEF Cleared, DeletedAt
  <2>6. TreesTypeOK'
    <3>1. tlen' \in 0..(LenMod - 1)
      <4>1. tlen + (-1) \in Int
        BY <2>2 DEF TreesTypeOK
      <4> QED BY <2>1, <4>1, ModType
    <3>2. \A q \in DOMAIN tree' : q \in Seq(Links) /\ tree'[q] \in NodeType
      BY <2>3 DEF Sound, Formed
    <3> QED BY <2>1, <2>2, <3>1, <3>2 DEF TreesTypeOK
  <2>7. \A m \in TreeKeys : ValueAt(tree', m) = IF m = k THEN NULL ELSE ValueAt(tree, m)
    BY <2>2, <2>3, <2>4, DeletedValues
  <2>8. map' = Restrict(map, DOMAIN map \ {k})
    <3>1. MapOf(tree') = Restrict(MapOf(tree), DOMAIN MapOf(tree) \ {k})
      BY <2>2, <2>3, <2>7, CutMap
    <3> QED BY <3>1, MapNow, MapNext
  <2>9. k \in DOMAIN map /\ map[k] = ValueAt(tree, k)
    BY <1>2, FoundMap
  <2>10. TreesInv'
    BY <2>3, <2>5, <2>6 DEF TreesInv
  <2>11. tret' = <<"delete", k, map[k]>>
    BY <2>1, <2>9
  <2> QED BY <2>1, <2>8, <2>9, <2>10, <2>11 DEF Map!Delete, Map!Restrict, Restrict
<1> QED BY <1>1, <1>2

LEMMA DestroyStep ==
    ASSUME TreesAssumption, TreesInv, co_tree_destroy, UNCHANGED calls
    PROVE  TreesInv' /\ Map!Destroy
<1>1. /\ tree' = EmptyTree /\ tlen' = 0 /\ tfreed' = tfreed \cup owned /\ owned' = {}
      /\ retired' = {} /\ tret' = <<"destroy", NULL, NULL>>
  BY DEF co_tree_destroy
<1>2. LenMod \in Nat \ {0} /\ TreesTypeOK
  BY DEF TreesAssumption, TreesInv
<1>3. TreesTypeOK'
  BY <1>1, <1>2 DEF TreesTypeOK, EmptyTree
<1>4. Sound(tree') /\ Alive(tree') /\ Cleared(tree', retired') /\ map' = <<>>
  BY <1>1, EmptyFacts, MapNext
<1> QED BY <1>1, <1>3, <1>4 DEF TreesInv, Map!Destroy

LEMMA NextInv ==
    ASSUME TreesAssumption, TreesInv, [TreesNext]_treeVars
    PROVE  TreesInv' /\ [Map!Next]_<<map, retired, tret>>
<1>1. ASSUME NEW k \in TreeKeys, NEW v \in TreeValues, NEW safe \in BOOLEAN,
             co_tree_insert(k, v, safe) \/ co_tree_insert_force(k, v, safe),
             UNCHANGED calls
      PROVE  TreesInv' /\ Map!Next
  BY <1>1, InsertStep, ForceStep DEF Map!Next
<1>2. ASSUME NEW k \in TreeKeys, co_tree_delete(k) \/ co_tree_find(k), UNCHANGED calls
      PROVE  TreesInv' /\ Map!Next
  BY <1>2, DeleteStep, FindStep DEF Map!Next
<1>3. ASSUME co_tree_destroy, UNCHANGED calls
      PROVE  TreesInv' /\ Map!Next
  BY <1>3, DestroyStep DEF Map!Next
<1>4. ASSUME UNCHANGED treeVars
      PROVE  TreesInv' /\ UNCHANGED <<map, retired, tret>>
  BY <1>4, SameInv DEF treeVars
<1> QED BY <1>1, <1>2, <1>3, <1>4 DEF TreesNext

-----------------------------------------------------------------------------
\* The types, that every node with a key is where the search for it ends, and
\* that a key without a value is one the program has deleted.
THEOREM TreesInvariant == ASSUME TreesAssumption PROVE TreesSpec => []TreesInv
<1>1. TreesInit => TreesInv
  BY InitInv
<1>2. TreesInv /\ [TreesNext]_treeVars => TreesInv'
  BY NextInv
<1> QED BY <1>1, <1>2, PTL DEF TreesSpec

\* Every call of src/tree.c keeps the types.
THEOREM TreesType == ASSUME TreesAssumption PROVE TreesSpec => []TreesTypeOK
<1>1. TreesInv => TreesTypeOK
  BY DEF TreesInv
<1> QED BY <1>1, TreesInvariant, PTL

LEMMA InvNoDeadBranches == ASSUME TreesAssumption, TreesInv PROVE NoDeadBranches
<1> SUFFICES ASSUME NEW p \in DOMAIN tree
             PROVE  /\ p # Root => Parent(p) \in DOMAIN tree
                    /\ Leaf(tree, p) => tree[p].value # NULL
                    /\ tree[p].value # NULL => co_tree_find_node(tree, tree[p].key) = p
  BY DEF NoDeadBranches
<1>1. /\ p \in Seq(Links) /\ IsFiniteSet(DOMAIN tree)
      /\ \A i \in 0..Len(p) : Upto(p, i) \in DOMAIN tree
  BY DEF TreesInv, Sound, Formed
<1>2. p # Root => Parent(p) \in DOMAIN tree
  BY <1>1, ParentFacts
<1>3. Leaf(tree, p) => tree[p].value # NULL
  BY DEF TreesInv, Alive
<1>4. tree[p].value # NULL => EndsAt(tree, tree[p].key, p)
  BY DEF TreesInv, Sound
<1> QED BY <1>1, <1>2, <1>3, <1>4, FindFacts

\* _co_tree_delete_r leaves no leaf without a value and cuts no node off, and
\* every key with a value is found where it is kept.
THEOREM AlwaysNoDeadBranches == ASSUME TreesAssumption PROVE TreesSpec => []NoDeadBranches
<1>1. TreesInv => NoDeadBranches
  BY InvNoDeadBranches
<1> QED BY <1>1, TreesInvariant, PTL

\* The tree of src/tree.c is a map: each call does to the keys and values what
\* the call of KeyMap does, and returns what it returns.
THEOREM TreesImplemented == ASSUME TreesAssumption PROVE TreesSpec => ImplementsMap
<1>1. TreesInit => Map!Init
  BY InitInv
<1>2. TreesInv /\ [TreesNext]_treeVars => [Map!Next]_<<map, retired, tret>>
  BY NextInv
<1> QED BY <1>1, <1>2, TreesInvariant, PTL DEF TreesSpec, ImplementsMap, Map!Spec


-----------------------------------------------------------------------------
(* Trees into which keys are only inserted.                                *)

\* No key is deleted, so that each has a value, and no borrowed value is owned.
InsertsInv == TreesInv /\ InsertsCount /\ retired = {} /\ owned \cap BorrowedValues = {}

\* A new key is counted, and there are not too many for the counter.
LEMMA CountNew ==
    ASSUME TreesAssumption, IsFiniteSet(TreeKeys), Cardinality(TreeKeys) < LenMod,
           NEW K, NEW k \in TreeKeys, K \subseteq TreeKeys, k \notin K
    PROVE  (Cardinality(K) + 1) % LenMod = Cardinality(K \cup {k})
<1>1. IsFiniteSet(K) /\ IsFiniteSet(K \cup {k})
  BY FS_Subset, FS_AddElement
<1>2. Cardinality(K \cup {k}) = Cardinality(K) + 1
  BY <1>1, FS_AddElement
<1>3. Cardinality(K \cup {k}) <= Cardinality(TreeKeys)
  <2>1. K \cup {k} \subseteq TreeKeys
    OBVIOUS
  <2> QED BY <2>1, FS_Subset
<1>4. Cardinality(K) \in Nat /\ Cardinality(TreeKeys) \in Nat /\ LenMod \in Nat \ {0}
  BY <1>1, FS_CardinalityType DEF TreesAssumption
<1>5. Cardinality(K) + 1 < LenMod
  BY <1>2, <1>3, <1>4
<1>6. (Cardinality(K) + 1) % LenMod = Cardinality(K) + 1
  BY <1>4, <1>5
<1> QED BY <1>2, <1>6

LEMMA InsertCounted ==
    ASSUME TreesAssumption, IsFiniteSet(TreeKeys), Cardinality(TreeKeys) < LenMod, InsertsInv,
           NEW k \in TreeKeys, NEW v \in TreeValues, NEW safe \in BOOLEAN,
           MayInsertValue(v, safe), co_tree_insert(k, v, safe), UNCHANGED calls
    PROVE  InsertsInv'
<1>1. TreesInv' /\ Map!Insert(k, v)
  BY InsertStep DEF InsertsInv
<1>2. CASE HasNode(tree, k)
  <2>1. tret' = <<"insert", k, 0>> /\ UNCHANGED treeState
    BY <1>2 DEF co_tree_insert
  <2>2. map' = map /\ k \in DOMAIN map
    BY <1>2, <2>1, SameInv, FoundMap DEF InsertsInv
  <2> QED BY <1>1, <2>1, <2>2 DEF InsertsInv, InsertsCount, treeState
<1>3. CASE ~HasNode(tree, k)
  <2>1. ValueAt(tree, k) = NULL /\ k \notin DOMAIN map
    <3>1. ValueAt(tree, k) = NULL
      BY <1>3 DEF ValueAt
    <3> QED BY <3>1, FoundMap DEF InsertsInv
  <2>2. /\ tret' = <<"insert", k, 1>> /\ retired' = retired \ {k} /\ tfreed' = tfreed
        /\ owned' \subseteq owned \cup (IF safe THEN {v} ELSE {})
        /\ tlen' = (tlen + 1) % LenMod
    BY <1>3, <2>1 DEF co_tree_insert, _co_tree_insert, _co_tree_change_length
  <2>3. DOMAIN map' = DOMAIN map \cup {k}
    <3>1. Map!Put("insert", k, v)
      BY <1>3, InsertionStep DEF co_tree_insert, InsertsInv
    <3> QED BY <3>1 DEF Map!Put
  <2>4. DOMAIN map \subseteq TreeKeys
    BY MapNow, MapFacts DEF InsertsInv, TreesInv
  <2>5. tlen' = Cardinality(DOMAIN map')
    <3> DEFINE K == DOMAIN map
    <3>1. tlen = Cardinality(K)
      BY DEF InsertsInv, InsertsCount
    <3>2. K \subseteq TreeKeys /\ k \notin K
      BY <2>1, <2>4
    <3> HIDE DEF K
    <3>3. (Cardinality(K) + 1) % LenMod = Cardinality(K \cup {k})
      BY <3>2, CountNew
    <3> QED BY <2>2, <2>3, <3>1, <3>3 DEF K
  <2>6. owned' \cap BorrowedValues = {}
    BY <2>2 DEF MayInsertValue, InsertsInv
  <2> QED BY <1>1, <2>2, <2>5, <2>6 DEF InsertsInv, InsertsCount
<1> QED BY <1>2, <1>3

LEMMA InsertsStep ==
    ASSUME TreesAssumption, IsFiniteSet(TreeKeys), Cardinality(TreeKeys) < LenMod,
           calls \subseteq {"insert"}, InsertsInv, [TreesNext]_treeVars
    PROVE  InsertsInv'
<1>1. TreesInv'
  BY NextInv DEF InsertsInv
<1>2. ASSUME NEW k \in TreeKeys, NEW v \in TreeValues, NEW safe \in BOOLEAN,
             MayInsertValue(v, safe), co_tree_insert(k, v, safe), UNCHANGED calls
      PROVE  InsertsInv'
  BY <1>2, InsertCounted
<1>3. ASSUME NEW k \in TreeKeys, co_tree_find(k), UNCHANGED calls PROVE InsertsInv'
  <2>1. tret' = <<"find", k, ValueAt(tree, k)>> /\ UNCHANGED treeState
    BY <1>3 DEF co_tree_find
  <2>2. map' = map
    BY <1>3, <2>1, SameInv DEF InsertsInv
  <2> QED BY <1>1, <2>1, <2>2 DEF InsertsInv, InsertsCount, treeState
<1>4. ASSUME co_tree_destroy, UNCHANGED calls PROVE InsertsInv'
  <2>1. /\ tlen' = 0 /\ tfreed' = tfreed \cup owned /\ owned' = {} /\ retired' = {}
        /\ tret' = <<"destroy", NULL, NULL>>
    BY <1>4 DEF co_tree_destroy
  <2>2. map' = <<>>
    BY <1>4, DestroyStep DEF InsertsInv, Map!Destroy
  <2>3. tlen' = Cardinality(DOMAIN map')
    BY <2>1, <2>2, FS_EmptySet
  <2> QED BY <1>1, <2>1, <2>3 DEF InsertsInv, InsertsCount
<1>5. ASSUME UNCHANGED treeVars PROVE InsertsInv'
  <2>1. map' = map
    BY <1>5, SameInv DEF InsertsInv, treeVars
  <2> QED BY <1>1, <1>5, <2>1 DEF InsertsInv, InsertsCount, treeVars, treeState
<1>6. "force" \notin calls /\ "delete" \notin calls
  OBVIOUS
<1> QED BY <1>2, <1>3, <1>4, <1>5, <1>6 DEF TreesNext

\* As long as keys are only inserted.
THEOREM InsertsInvariant ==
    ASSUME TreesAssumption, IsFiniteSet(TreeKeys), Cardinality(TreeKeys) < LenMod
    PROVE  TreesSpec => [](calls \subseteq {"insert"} => InsertsInv)
<1> DEFINE Inv == calls \subseteq {"insert"} => InsertsInv
<1>1. TreesInit => Inv
  <2> SUFFICES ASSUME TreesInit PROVE InsertsInv
    OBVIOUS
  <2>1. TreesInv /\ map = <<>>
    BY InitInv DEF Map!Init
  <2>2. tlen = Cardinality(DOMAIN map)
    BY <2>1, FS_EmptySet DEF TreesInit
  <2> QED BY <2>1, <2>2 DEF TreesInit, InsertsInv, InsertsCount
<1>2. Inv /\ [TreesNext]_treeVars => Inv'
  <2> SUFFICES ASSUME Inv, [TreesNext]_treeVars, calls' \subseteq {"insert"}
               PROVE  InsertsInv'
    OBVIOUS
  <2>1. calls' = calls
    BY DEF TreesNext, treeVars
  <2> QED BY <2>1, InsertsStep
<1> HIDE DEF Inv
<1>3. TreesSpec => []Inv
  BY <1>1, <1>2, PTL DEF TreesSpec
<1> QED BY <1>3 DEF Inv

\* As long as keys are only inserted, co_tree_length is the number of pairs,
\* co_tree_insert refuses only a key that is there, and no value that was
\* inserted as not tied to the tree is freed with it.
THEOREM InsertsAlwaysCount ==
    ASSUME TreesAssumption, IsFiniteSet(TreeKeys), Cardinality(TreeKeys) < LenMod
    PROVE  TreesSpec => [](calls \subseteq {"insert"} => InsertsCount)
<1>1. (calls \subseteq {"insert"} => InsertsInv) => (calls \subseteq {"insert"} => InsertsCount)
  BY DEF InsertsInv
<1> QED BY <1>1, InsertsInvariant, PTL

-----------------------------------------------------------------------------
(* The walk to the next key.                                               *)

\* The order in which it takes the links of a node.
Rank(link) == IF link = "low" THEN 1 ELSE IF link = "equal" THEN 2 ELSE 3

\* The nodes that are to come at node p when its links ranked up to f are done:
\* those below its other links, and those that come when p is left.
Beyond(t, p, f) ==
    {q \in DOMAIN t : Len(p) < Len(q) /\ Upto(q, Len(p)) = p /\ Rank(q[Len(p) + 1]) > f}
Later(t, p) ==
    {q \in DOMAIN t : \E i \in 1..Len(p) :
        i <= Len(q) /\ Upto(q, i - 1) = Upto(p, i - 1) /\ Rank(q[i]) > Rank(p[i])}
ToCome(t, p, f) == Beyond(t, p, f) \cup Later(t, p)

LEMMA RankFacts ==
    /\ \A link \in Links : Rank(link) \in 1..3
    /\ \A a, b \in Links : Rank(a) = Rank(b) => a = b
BY DEF Rank, Links

LEMMA ThroughChild ==
    ASSUME NEW p \in Seq(Links), NEW link \in Links, NEW q \in Seq(Links)
    PROVE  LET c == Child(p, link)
           IN  /\ Len(p) < Len(q) /\ Upto(q, Len(p)) = p /\ q[Len(p) + 1] = link
                  <=> Len(c) <= Len(q) /\ Upto(q, Len(c)) = c
               /\ Len(p) < Len(q) => Len(p) + 1 \in 0..Len(q)
<1> DEFINE c == Child(p, link)
<1>1. /\ c \in Seq(Links) /\ Len(c) = Len(p) + 1 /\ c[Len(p) + 1] = link /\ Upto(c, Len(p)) = p
      /\ \A i \in 1..Len(p) : c[i] = p[i]
      /\ Len(p) \in Nat /\ Len(q) \in Nat
  <2>1. /\ c \in Seq(Links) /\ Len(c) = Len(p) + 1 /\ c[Len(p) + 1] = link /\ Upto(c, Len(p)) = p
    BY ChildFacts
  <2>2. \A i \in 1..Len(p) : c[i] = p[i]
    BY AppendProperties DEF Child
  <2> QED BY <2>1, <2>2
<1> HIDE DEF c
<1>2. ASSUME Len(p) < Len(q), Upto(q, Len(p)) = p, q[Len(p) + 1] = link
      PROVE  Len(c) <= Len(q) /\ Upto(q, Len(c)) = c
  <2>1. Len(c) \in 0..Len(q) /\ Len(p) \in 0..Len(q) /\ Len(c) <= Len(q)
    BY <1>1, <1>2
  <2>2. /\ Upto(q, Len(c)) \in Seq(Links) /\ Len(Upto(q, Len(c))) = Len(c)
        /\ \A j \in 1..Len(c) : Upto(q, Len(c))[j] = q[j]
    BY <2>1, UptoFacts
  <2>3. \A j \in 1..Len(p) : p[j] = q[j]
    BY <1>2, <2>1, UptoFacts
  <2>4. \A j \in 1..Len(c) : Upto(q, Len(c))[j] = c[j]
    <3> SUFFICES ASSUME NEW j \in 1..Len(c) PROVE Upto(q, Len(c))[j] = c[j]
      OBVIOUS
    <3>1. j \in 1..Len(p) \/ j = Len(p) + 1
      BY <1>1
    <3> QED BY <1>1, <1>2, <2>2, <2>3, <3>1
  <2> QED BY <1>1, <2>1, <2>2, <2>4, SamePosition
<1>3. ASSUME Len(c) <= Len(q), Upto(q, Len(c)) = c
      PROVE  Len(p) < Len(q) /\ Upto(q, Len(p)) = p /\ q[Len(p) + 1] = link
  <2>1. /\ Len(c) \in 0..Len(q) /\ Len(p) \in 0..Len(c) /\ Len(p) < Len(q)
        /\ Len(p) + 1 \in 1..Len(c)
    BY <1>1, <1>3
  <2>2. Upto(q, Len(p)) = p
    BY <1>1, <1>3, <2>1, UptoUpto
  <2>3. q[Len(p) + 1] = link
    BY <1>1, <1>3, <2>1, UptoFacts
  <2> QED BY <2>1, <2>2, <2>3
<1>4. Len(p) < Len(q) => Len(p) + 1 \in 0..Len(q)
  BY <1>1
<1> QED BY <1>2, <1>3, <1>4 DEF c

\* What comes when a child is left.
LEMMA LaterChild ==
    ASSUME NEW t, Shaped(t), NEW p \in Seq(Links), NEW link \in Links
    PROVE  Later(t, Child(p, link)) = ToCome(t, p, Rank(link))
<1> DEFINE c == Child(p, link)
<1>1. /\ Len(c) = Len(p) + 1 /\ c[Len(p) + 1] = link /\ Upto(c, Len(p)) = p
      /\ \A i \in 1..Len(p) : c[i] = p[i] /\ Upto(c, i - 1) = Upto(p, i - 1)
      /\ Len(p) \in Nat
  <2>1. /\ Len(c) = Len(p) + 1 /\ c[Len(p) + 1] = link /\ Upto(c, Len(p)) = p
        /\ \A i \in 0..Len(p) : Upto(c, i) = Upto(p, i)
    BY ChildFacts
  <2>2. \A i \in 1..Len(p) : c[i] = p[i] /\ i - 1 \in 0..Len(p)
    BY AppendProperties DEF Child
  <2> QED BY <2>1, <2>2
<1> HIDE DEF c
<1>2. Len(p) + 1 - 1 = Len(p) /\ \A i : i \in 1..Len(c) <=> i \in 1..Len(p) \/ i = Len(p) + 1
  BY <1>1
<1>3. ASSUME NEW q \in DOMAIN t PROVE q \in Later(t, c) <=> q \in ToCome(t, p, Rank(link))
  <2>1. q \in Seq(Links) /\ Len(q) \in Nat
    BY DEF Shaped
  <2>2. Len(p) + 1 <= Len(q) <=> Len(p) < Len(q)
    BY <1>1, <2>1
  <2> DEFINE P(i) == i <= Len(q) /\ Upto(q, i - 1) = Upto(c, i - 1) /\ Rank(q[i]) > Rank(c[i])
             Q(i) == i <= Len(q) /\ Upto(q, i - 1) = Upto(p, i - 1) /\ Rank(q[i]) > Rank(p[i])
  <2>3. \A i \in 1..Len(p) : P(i) <=> Q(i)
    BY <1>1
  <2>4. P(Len(p) + 1) <=> q \in Beyond(t, p, Rank(link))
    BY <1>1, <1>2, <2>2 DEF Beyond
  <2>5. q \in Later(t, c) <=> \E i \in 1..Len(c) : P(i)
    BY DEF Later
  <2>6. q \in Later(t, p) <=> \E i \in 1..Len(p) : Q(i)
    BY DEF Later
  <2> HIDE DEF P, Q
  <2> QED BY <1>2, <2>3, <2>4, <2>5, <2>6 DEF ToCome
<1>4. Later(t, c) \subseteq DOMAIN t /\ ToCome(t, p, Rank(link)) \subseteq DOMAIN t
  BY DEF Later, ToCome, Beyond
<1> QED BY <1>3, <1>4 DEF c

\* No node is below a link that leads to none.
LEMMA BeyondChild ==
    ASSUME NEW t, Shaped(t), NEW p \in DOMAIN t, NEW f, NEW q \in Beyond(t, p, f)
    PROVE  /\ q[Len(p) + 1] \in Links /\ Child(p, q[Len(p) + 1]) \in DOMAIN t
           /\ Rank(q[Len(p) + 1]) > f
<1>1. /\ p \in Seq(Links) /\ q \in Seq(Links) /\ q \in DOMAIN t /\ Len(p) < Len(q)
      /\ Upto(q, Len(p)) = p /\ Rank(q[Len(p) + 1]) > f
  BY DEF Beyond, Shaped
<1> DEFINE link == q[Len(p) + 1]
           c == Child(p, link)
<1>2. link \in Links /\ Len(p) + 1 \in 0..Len(q)
  BY <1>1
<1>3. Len(c) = Len(p) + 1 /\ Upto(q, Len(c)) = c
  BY <1>1, <1>2, ChildFacts, ThroughChild
<1> HIDE DEF link, c
<1>4. Upto(q, Len(p) + 1) \in DOMAIN t
  BY <1>1, <1>2 DEF Shaped
<1> QED BY <1>1, <1>2, <1>3, <1>4 DEF link, c

\* Down to the first child that is left, which is not to come any more.
LEMMA ToComeDown ==
    ASSUME NEW t, Shaped(t), NEW p \in DOMAIN t, NEW f \in 0..3, NEW link \in Links, Rank(link) > f,
           Child(p, link) \in DOMAIN t,
           \A m \in Links : f < Rank(m) /\ Rank(m) < Rank(link) => Child(p, m) \notin DOMAIN t
    PROVE  LET c == Child(p, link)
           IN  ToCome(t, p, f) = {c} \cup ToCome(t, c, 0)
<1> DEFINE c == Child(p, link)
<1>1. p \in Seq(Links) /\ Len(p) \in Nat /\ c \in Seq(Links) /\ Len(c) = Len(p) + 1
  <2>1. p \in Seq(Links)
    BY DEF Shaped
  <2> QED BY <2>1, ChildFacts
<1>2. Later(t, c) = Beyond(t, p, Rank(link)) \cup Later(t, p)
  BY <1>1, LaterChild DEF ToCome
<1>3. ASSUME NEW q \in DOMAIN t
      PROVE  q \in Beyond(t, p, f) <=> q = c \/ q \in Beyond(t, c, 0)
                                    \/ q \in Beyond(t, p, Rank(link))
  <2> DEFINE through == Len(p) < Len(q) /\ Upto(q, Len(p)) = p /\ q[Len(p) + 1] = link
  <2>1. q \in Seq(Links) /\ Len(q) \in Nat
    BY DEF Shaped
  <2>2. through <=> Len(c) <= Len(q) /\ Upto(q, Len(c)) = c
    BY <1>1, <2>1, ThroughChild
  <2>3. q = c \/ q \in Beyond(t, c, 0) <=> Len(c) <= Len(q) /\ Upto(q, Len(c)) = c
    <3> HIDE DEF c
    <3>1. ASSUME Len(c) <= Len(q), Upto(q, Len(c)) = c, q # c PROVE q \in Beyond(t, c, 0)
      <4>1. Len(c) # Len(q)
        BY <2>1, <3>1, UptoEnds
      <4>2. Len(c) < Len(q) /\ Len(c) + 1 \in 1..Len(q)
        BY <1>1, <2>1, <3>1, <4>1
      <4>3. Rank(q[Len(c) + 1]) > 0
        <5>1. q[Len(c) + 1] \in Links
          BY <2>1, <4>2
        <5> QED BY <5>1 DEF Rank
      <4> QED BY <3>1, <4>2, <4>3 DEF Beyond
    <3>2. Upto(c, Len(c)) = c /\ Len(c) <= Len(c)
      BY <1>1, UptoEnds
    <3>3. q \in Beyond(t, c, 0) => Len(c) <= Len(q) /\ Upto(q, Len(c)) = c
      BY <1>1, <2>1 DEF Beyond
    <3> QED BY <3>1, <3>2, <3>3
  <2>4. through => q \in Beyond(t, p, f)
    BY DEF Beyond
  <2>5. q \in Beyond(t, p, Rank(link)) => q \in Beyond(t, p, f)
    <3> SUFFICES ASSUME q \in Beyond(t, p, Rank(link)) PROVE q \in Beyond(t, p, f)
      OBVIOUS
    <3>1. q[Len(p) + 1] \in Links /\ Rank(q[Len(p) + 1]) > Rank(link)
      BY BeyondChild
    <3>2. Rank(q[Len(p) + 1]) > f
      BY <3>1, RankFacts
    <3> QED BY <3>2 DEF Beyond
  <2>6. q \in Beyond(t, p, f) => through \/ q \in Beyond(t, p, Rank(link))
    <3> SUFFICES ASSUME q \in Beyond(t, p, f), ~(q \in Beyond(t, p, Rank(link))) PROVE through
      OBVIOUS
    <3> DEFINE m == q[Len(p) + 1]
    <3>1. m \in Links /\ Child(p, m) \in DOMAIN t /\ Rank(m) > f
      BY BeyondChild
    <3>2. Len(p) < Len(q) /\ Upto(q, Len(p)) = p /\ ~(Rank(m) > Rank(link))
      BY DEF Beyond
    <3> HIDE DEF m
    <3>3. ~(Rank(m) < Rank(link))
      BY <3>1, RankFacts
    <3>4. Rank(m) = Rank(link)
      BY <3>1, <3>2, <3>3, RankFacts
    <3> QED BY <3>1, <3>2, <3>4, RankFacts DEF m
  <2> HIDE DEF through
  <2> QED BY <2>2, <2>3, <2>4, <2>5, <2>6
<1>4. /\ Beyond(t, p, f) \subseteq DOMAIN t /\ Beyond(t, c, 0) \subseteq DOMAIN t
      /\ Beyond(t, p, Rank(link)) \subseteq DOMAIN t /\ c \in DOMAIN t
  BY DEF Beyond
<1> HIDE DEF c
<1>5. Beyond(t, p, f) = {c} \cup Beyond(t, c, 0) \cup Beyond(t, p, Rank(link))
  BY <1>3, <1>4
<1> QED BY <1>2, <1>5 DEF ToCome, c

\* A node is not to come once it is reached, nor are those above it.
LEMMA PassedNodes ==
    ASSUME NEW t, Shaped(t), NEW p \in DOMAIN t, NEW f, NEW i \in 0..Len(p)
    PROVE  Upto(p, i) \notin ToCome(t, p, f)
<1>1. p \in Seq(Links) /\ Len(p) \in Nat /\ Len(Upto(p, i)) = i /\ Upto(p, i) \in Seq(Links)
  BY UptoFacts DEF Shaped
<1>2. Upto(p, i) \notin Beyond(t, p, f)
  BY <1>1 DEF Beyond
<1>3. Upto(p, i) \notin Later(t, p)
  <2> SUFFICES ASSUME NEW j \in 1..Len(p), j <= i, Rank(Upto(p, i)[j]) > Rank(p[j]) PROVE FALSE
    BY <1>1 DEF Later
  <2>1. Upto(p, i)[j] = p[j] /\ p[j] \in Links
    BY <1>1, UptoFacts
  <2> QED BY <2>1, RankFacts
<1> QED BY <1>2, <1>3 DEF ToCome

\* When no link is left, the walk goes on where the parent's next link is.
LEMMA ToComeUp ==
    ASSUME NEW t, Shaped(t), NEW p \in DOMAIN t, NEW f,
           \A m \in Links : Rank(m) > f => Child(p, m) \notin DOMAIN t
    PROVE  /\ p = Root => ToCome(t, p, f) = {}
           /\ p # Root => ToCome(t, p, f) = ToCome(t, Parent(p), Rank(p[Len(p)]))
<1>1. p \in Seq(Links)
  BY DEF Shaped
<1>2. Beyond(t, p, f) = {}
  BY BeyondChild
<1>3. ASSUME p = Root PROVE Later(t, p) = {}
  BY <1>3 DEF Later, Root
<1>4. ASSUME p # Root PROVE Later(t, p) = ToCome(t, Parent(p), Rank(p[Len(p)]))
  <2>1. Parent(p) \in Seq(Links) /\ p[Len(p)] \in Links /\ p = Child(Parent(p), p[Len(p)])
    BY <1>1, <1>4, ParentFacts
  <2> QED BY <2>1, LaterChild
<1> QED BY <1>2, <1>3, <1>4 DEF ToCome

\* The walk has come to node p from prev, and is done with its links ranked up
\* to f.
Reached(p, prev, f) ==
    \/ f = 0 /\ (prev = NULL \/ (p # Root /\ prev = Parent(p)))
    \/ \E link \in Links : prev = Child(p, link) /\ f = Rank(link)

Entered(p, prev) == prev # NULL /\ p # Root /\ prev = Parent(p)

Keyed(t) == {q \in DOMAIN t : t[q].key # NULL}

\* Keyed nodes are not the root, nor its children.
Long(t) == \A p \in Keyed(t) : Len(p) > 1

\* The three ways a call ends: with a key, one link down, and one up.
NextStops(t, p, prev, n) == p \in Keyed(t) /\ Entered(p, prev) /\ n = p
NextDown(t, p, prev, f, n) ==
    /\ ~(p \in Keyed(t) /\ Entered(p, prev))
    /\ \E link \in Links :
           /\ Rank(link) > f /\ Child(p, link) \in DOMAIN t /\ n = Child(p, link)
           /\ \A m \in Links : f < Rank(m) /\ Rank(m) < Rank(link) => Child(p, m) \notin DOMAIN t
NextUp(t, p, prev, f, n) ==
    /\ ~(p \in Keyed(t) /\ Entered(p, prev))
    /\ \A m \in Links : Rank(m) > f => Child(p, m) \notin DOMAIN t
    /\ n = IF p # Root THEN Parent(p) ELSE p

LEMMA NextFacts ==
    ASSUME NULL \notin Seq(Links), NEW t, Shaped(t), Long(t), NEW p \in DOMAIN t, NEW prev, NEW f,
           Reached(p, prev, f)
    PROVE  \/ NextStops(t, p, prev, NextNode(t, p, prev))
           \/ NextDown(t, p, prev, f, NextNode(t, p, prev))
           \/ NextUp(t, p, prev, f, NextNode(t, p, prev))
<1> DEFINE has(link) == Child(p, link) \in DOMAIN t
           from(link) == prev # NULL /\ prev = Child(p, link)
           above == prev # NULL /\ p # Root /\ prev = Parent(p)
           fresh == prev = NULL \/ above
           atRoot == p # Root /\ Parent(p) = Root
           here == above \/ (atRoot /\ (from("low") \/ (prev = NULL /\ ~ has("low"))))
           n == NextNode(t, p, prev)
           low == Child(p, "low")
           equal == Child(p, "equal")
           high == Child(p, "high")
<1> SUFFICES \/ NextStops(t, p, prev, n)
             \/ NextDown(t, p, prev, f, n)
             \/ NextUp(t, p, prev, f, n)
  OBVIOUS
<1>1. /\ p \in Seq(Links) /\ Len(p) \in Nat
      /\ \A link \in Links : /\ Child(p, link) \in Seq(Links) /\ Len(Child(p, link)) = Len(p) + 1
                             /\ Child(p, link)[Len(p) + 1] = link /\ Child(p, link) # NULL
      /\ p # Root => /\ Parent(p) \in Seq(Links) /\ Len(Parent(p)) = Len(p) - 1
                     /\ Parent(p) # NULL
  <2>1. p \in Seq(Links)
    BY DEF Shaped
  <2> QED BY <2>1, ChildFacts, ParentFacts
<1>2. /\ Rank("low") = 1 /\ Rank("equal") = 2 /\ Rank("high") = 3
      /\ Links = {"low", "equal", "high"}
  BY DEF Rank, Links
<1>3. /\ \A a, b \in Links : Child(p, a) = Child(p, b) => a = b
      /\ p # Root => \A a \in Links : Parent(p) # Child(p, a)
  <2>1. p # Root => \A a \in Links : Len(Parent(p)) # Len(Child(p, a))
    BY <1>1
  <2> QED BY <1>1, <2>1
<1>4. atRoot => p \notin Keyed(t)
  <2> DEFINE l == Len(p)
  <2>1. l \in Nat /\ (p \in Keyed(t) => l > 1)
    BY <1>1 DEF Long
  <2>2. atRoot => l - 1 = 0
    BY <1>1 DEF Root
  <2> HIDE DEF l, atRoot
  <2> QED BY <2>1, <2>2
<1>5. p \in Keyed(t) <=> t[p].key # NULL
  BY DEF Keyed
<1>6. n = IF t[p].key # NULL /\ here THEN p
          ELSE IF has("low") /\ fresh THEN low
          ELSE IF has("equal") /\ (fresh \/ from("low")) THEN equal
          ELSE IF has("high") /\ (fresh \/ from("low") \/ from("equal")) THEN high
          ELSE IF p # Root THEN Parent(p)
          ELSE p
  BY DEF NextNode
<1>7. above <=> Entered(p, prev)
  BY DEF Entered
<1>8. t[p].key # NULL /\ here <=> p \in Keyed(t) /\ Entered(p, prev)
  BY <1>4, <1>5, <1>7
<1>9. CASE f = 0 /\ fresh
  <2>1. CASE p \in Keyed(t) /\ Entered(p, prev)
    BY <1>6, <1>8, <2>1 DEF NextStops
  <2>2. CASE ~(p \in Keyed(t) /\ Entered(p, prev))
    <3>1. n = IF has("low") THEN low ELSE IF has("equal") THEN equal ELSE IF has("high") THEN high
              ELSE IF p # Root THEN Parent(p) ELSE p
      BY <1>6, <1>8, <1>9, <2>2
    <3>2. \A m \in Links : f < Rank(m)
      BY <1>2, <1>9
    <3> HIDE DEF n, here, from, fresh, above, atRoot
    <3>3. CASE has("low")
      <4>1. n = low
        BY <3>1, <3>3
      <4> QED BY <1>2, <2>2, <3>2, <3>3, <4>1 DEF NextDown
    <3>4. CASE ~has("low") /\ has("equal")
      <4>1. n = equal
        BY <3>1, <3>4
      <4> QED BY <1>2, <2>2, <3>2, <3>4, <4>1 DEF NextDown
    <3>5. CASE ~has("low") /\ ~has("equal") /\ has("high")
      <4>1. n = high
        BY <3>1, <3>5
      <4> QED BY <1>2, <2>2, <3>2, <3>5, <4>1 DEF NextDown
    <3>6. CASE ~has("low") /\ ~has("equal") /\ ~has("high")
      BY <1>2, <2>2, <3>1, <3>6 DEF NextUp
    <3> QED BY <3>3, <3>4, <3>5, <3>6
  <2> QED BY <2>1, <2>2
<1>10. CASE \E link \in Links : prev = Child(p, link) /\ f = Rank(link)
  <2>1. PICK link \in Links : prev = Child(p, link) /\ f = Rank(link)
    BY <1>10
  <2>2. /\ ~fresh /\ ~Entered(p, prev) /\ \A a \in Links : from(a) <=> a = link
    BY <1>1, <1>3, <2>1 DEF Entered
  <2>3. n = IF has("equal") /\ link = "low" THEN equal
            ELSE IF has("high") /\ (link = "low" \/ link = "equal") THEN high
            ELSE IF p # Root THEN Parent(p) ELSE p
    BY <1>2, <1>6, <1>8, <2>2
  <2> HIDE DEF n, here, from, fresh, above, atRoot
  <2>4. CASE has("equal") /\ link = "low"
    <3>1. n = equal
      BY <2>3, <2>4
    <3> QED BY <1>2, <2>1, <2>2, <2>4, <3>1 DEF NextDown
  <2>5. CASE ~(has("equal") /\ link = "low") /\ has("high") /\ link # "high"
    <3>1. n = high
      BY <1>2, <2>3, <2>5
    <3> QED BY <1>2, <2>1, <2>2, <2>5, <3>1 DEF NextDown
  <2>6. CASE ~(has("equal") /\ link = "low") /\ ~(has("high") /\ link # "high")
    <3>1. n = IF p # Root THEN Parent(p) ELSE p
      BY <1>2, <2>3, <2>6
    <3> QED BY <1>2, <2>1, <2>2, <2>6, <3>1 DEF NextUp
  <2> QED BY <2>4, <2>5, <2>6
<1> QED BY <1>9, <1>10, <1>1 DEF Reached, Entered

\* The nodes with a key from where the walk stands, this one if it was just
\* entered.
KeysToCome(t, p, prev, f) ==
    Keyed(t) \cap (ToCome(t, p, f) \cup IF Entered(p, prev) THEN {p} ELSE {})

\* The nodes that can come number at most as many as there are, less those on
\* the way down to p and p itself.
LEMMA FewToCome ==
    ASSUME NEW t, Shaped(t), NEW p \in DOMAIN t, NEW f
    PROVE  /\ IsFiniteSet(ToCome(t, p, f)) /\ Cardinality(ToCome(t, p, f)) \in Nat
           /\ Cardinality(DOMAIN t) \in Nat /\ p \in Seq(Links) /\ Len(p) \in Nat
           /\ Cardinality(ToCome(t, p, f)) + Len(p) + 1 <= Cardinality(DOMAIN t)
<1> DEFINE C == ToCome(t, p, f)
           I == 0..Len(p)
           W == {Upto(p, i) : i \in I}
           g == [i \in I |-> Upto(p, i)]
<1>1. IsFiniteSet(DOMAIN t) /\ p \in Seq(Links) /\ Len(p) \in Nat
  BY DEF Shaped
<1>2. C \subseteq DOMAIN t /\ W \subseteq DOMAIN t
  BY DEF ToCome, Beyond, Later, Shaped
<1>3. C \cap W = {}
  BY PassedNodes
<1>4. IsFiniteSet(I) /\ Cardinality(I) = Len(p) + 1
  <2>1. /\ IsFiniteSet(0..Len(p))
        /\ Cardinality(0..Len(p)) = IF 0 > Len(p) THEN 0 ELSE Len(p) - 0 + 1
    BY <1>1, FS_Interval
  <2> QED BY <1>1, <2>1
<1>5. \A i, j \in I : g[i] = g[j] => i = j
  <2> SUFFICES ASSUME NEW i \in I, NEW j \in I, Upto(p, i) = Upto(p, j) PROVE i = j
    OBVIOUS
  <2>1. Len(Upto(p, i)) = i /\ Len(Upto(p, j)) = j
    BY <1>1, UptoFacts
  <2> QED BY <2>1
<1>6. g \in Surjection(I, W)
  <2>1. g \in [I -> W] /\ \A w \in W : \E i \in I : g[i] = w
    OBVIOUS
  <2> HIDE DEF g, I, W
  <2> QED BY <2>1, Zenon DEF Surjection
<1>7. g \in Injection(I, W)
  <2>1. g \in [I -> W]
    OBVIOUS
  <2> HIDE DEF g, I, W
  <2>2. \A i, j \in I : g[i] = g[j] => i = j
    BY <1>5
  <2>3. IsInjective(g)
    BY <2>1, <2>2 DEF IsInjective
  <2> QED BY <2>1, <2>3, Zenon DEF Injection
<1> HIDE DEF C, W, g, I
<1>8. IsFiniteSet(W) /\ Cardinality(W) = Len(p) + 1
  BY <1>4, <1>6, <1>7, FS_Surjection
<1>9. IsFiniteSet(C) /\ Cardinality(C) \in Nat /\ Cardinality(DOMAIN t) \in Nat
  BY <1>1, <1>2, FS_Subset, FS_CardinalityType
<1>10. Cardinality(C \cup W) = Cardinality(C) + Cardinality(W)
  <2>1. Cardinality(C \cup W) = Cardinality(C) + Cardinality(W) - Cardinality(C \cap W)
    BY <1>8, <1>9, FS_Union
  <2>2. Cardinality(C \cap W) = 0
    BY <1>3, FS_EmptySet
  <2> QED BY <1>1, <1>8, <1>9, <2>1, <2>2
<1>11. Cardinality(C \cup W) <= Cardinality(DOMAIN t)
  BY <1>1, <1>2, FS_Subset
<1> QED BY <1>1, <1>8, <1>9, <1>10, <1>11 DEF C

\* One call of _co_tree_next_r, and the first N of them.
WalkStep(t, call) ==
    LET next == NextNode(t, call[1], call[2])
    IN  IF next = call[1] THEN call ELSE <<next, call[1]>>
Walked(w, t, s, N) == w = [n \in 0..N |-> IF n = 0 THEN <<s, NULL>> ELSE WalkStep(t, w[n - 1])]

LEMMA WalkMeans ==
    ASSUME NEW t, NEW s, NEW N \in Nat
    PROVE  \E w : Walked(w, t, s, N)
<1> DEFINE Run(w, m) == w = [n \in 0..m |-> IF n = 0 THEN <<s, NULL>> ELSE WalkStep(t, w[n - 1])]
           hard == {m \in 0..N : ~ \E w : Run(w, m)}
           least == Min(hard)
<1>1. \A w, m : Run(w, m) <=> Walked(w, t, s, m)
  BY DEF Walked
<1>2. hard = {}
  <2> SUFFICES ASSUME hard # {} PROVE FALSE
    OBVIOUS
  <2>1. hard \subseteq Nat
    OBVIOUS
  <2>2. least \in hard /\ \A m \in hard : least <= m
    <3> HIDE DEF hard
    <3> QED BY <2>1, MinFacts
  <2> HIDE DEF least
  <2>3. CASE least = 0
    <3> DEFINE w == [n \in 0..0 |-> <<s, NULL>>]
    <3>1. Run(w, 0)
      OBVIOUS
    <3> QED BY <2>2, <2>3, <3>1
  <2>4. CASE least # 0
    <3>1. least \in 0..N /\ least - 1 \in 0..N /\ ~(least <= least - 1)
      BY <2>2, <2>4
    <3>2. PICK w : Run(w, least - 1)
      BY <2>2, <3>1
    <3> DEFINE x == [n \in 0..least |-> IF n = least THEN WalkStep(t, w[least - 1]) ELSE w[n]]
    <3>3. \A n \in 0..least : x[n] = IF n = 0 THEN <<s, NULL>> ELSE WalkStep(t, x[n - 1])
      <4> SUFFICES ASSUME NEW n \in 0..least
                   PROVE  x[n] = IF n = 0 THEN <<s, NULL>> ELSE WalkStep(t, x[n - 1])
        OBVIOUS
      <4>1. CASE n = least
        <5>1. x[n] = WalkStep(t, w[least - 1]) /\ n # 0 /\ n - 1 = least - 1
          BY <2>4, <4>1
        <5>2. x[n - 1] = w[least - 1]
          BY <3>1, <4>1
        <5> HIDE DEF x
        <5> QED BY <4>1, <5>1, <5>2
      <4>2. CASE n # least
        <5>1. n \in 0..least - 1 /\ (n # 0 => n - 1 \in 0..least /\ n - 1 # least)
          BY <3>1, <4>2
        <5>2. x[n] = w[n] /\ (n # 0 => x[n - 1] = w[n - 1])
          BY <4>2, <5>1
        <5> HIDE DEF x
        <5> QED BY <3>2, <5>1, <5>2
      <4> QED BY <4>1, <4>2
    <3>4. Run(x, least)
      BY <3>3
    <3> HIDE DEF x, Run
    <3> QED BY <2>2, <3>4
  <2> QED BY <2>3, <2>4
<1>3. N \in 0..N
  OBVIOUS
<1>4. \E w : Run(w, N)
  <2> HIDE DEF Run
  <2> QED BY <1>2, <1>3
<1> HIDE DEF Run
<1> QED BY <1>1, <1>4

\* A call that goes on keeps the keys that are to come, and has fewer links
\* left to follow.
LEMMA StepFacts ==
    ASSUME NULL \notin Seq(Links), NEW t, Shaped(t), Long(t), NEW p \in DOMAIN t, NEW prev,
           NEW f \in 0..3, Reached(p, prev, f), NextNode(t, p, prev) # p
    PROVE  LET n == NextNode(t, p, prev)
           IN  /\ n \in DOMAIN t
               /\ \E g \in 0..3 :
                     /\ Reached(n, p, g)
                     /\ KeysToCome(t, n, p, g) = KeysToCome(t, p, prev, f)
                     /\ 2 * Cardinality(ToCome(t, n, g)) + Len(n) + 1
                           <= 2 * Cardinality(ToCome(t, p, f)) + Len(p)
<1> DEFINE n == NextNode(t, p, prev)
<1>1. p \in Seq(Links) /\ Len(p) \in Nat /\ p # NULL
  <2>1. p \in Seq(Links)
    BY DEF Shaped
  <2> QED BY <2>1
<1>2. ~(p \in Keyed(t) /\ Entered(p, prev))
     /\ (NextDown(t, p, prev, f, n) \/ NextUp(t, p, prev, f, n))
  <2>1. \/ NextStops(t, p, prev, n) \/ NextDown(t, p, prev, f, n) \/ NextUp(t, p, prev, f, n)
    BY NextFacts
  <2>2. ~NextStops(t, p, prev, n)
    BY DEF NextStops
  <2> QED BY <2>1, <2>2 DEF NextDown, NextUp
<1> HIDE DEF n
<1>3. KeysToCome(t, p, prev, f) = Keyed(t) \cap ToCome(t, p, f)
  BY <1>2 DEF KeysToCome
<1>4. CASE NextDown(t, p, prev, f, n)
  <2>1. PICK link \in Links :
           /\ Rank(link) > f /\ Child(p, link) \in DOMAIN t /\ n = Child(p, link)
           /\ \A m \in Links : f < Rank(m) /\ Rank(m) < Rank(link) => Child(p, m) \notin DOMAIN t
    BY <1>4 DEF NextDown
  <2>2. /\ n \in Seq(Links) /\ n # Root /\ Len(n) = Len(p) + 1 /\ Parent(n) = p
    <3>1. /\ n \in Seq(Links) /\ n # Root /\ Len(n) = Len(p) + 1 /\ Upto(n, Len(p)) = p
      BY <1>1, <2>1, ChildFacts
    <3>2. Parent(n) = Upto(n, Len(n) - 1)
      BY <3>1, ParentFacts
    <3>3. Len(n) - 1 = Len(p)
      BY <1>1, <3>1
    <3> QED BY <3>1, <3>2, <3>3
  <2>3. ToCome(t, p, f) = {n} \cup ToCome(t, n, 0)
    BY <2>1, ToComeDown
  <2>4. n \notin ToCome(t, n, 0)
    <3>1. Len(n) \in 0..Len(n) /\ Upto(n, Len(n)) = n
      BY <2>2, UptoEnds
    <3> QED BY <2>1, <3>1, PassedNodes
  <2>5. IsFiniteSet(ToCome(t, n, 0)) /\ Cardinality(ToCome(t, n, 0)) \in Nat
    BY <2>1, FewToCome
  <2>6. Cardinality(ToCome(t, p, f)) = Cardinality(ToCome(t, n, 0)) + 1
    <3>1. ToCome(t, p, f) = ToCome(t, n, 0) \cup {n}
      BY <2>3
    <3> QED BY <2>4, <2>5, <3>1, FS_AddElement
  <2>7. 2 * Cardinality(ToCome(t, n, 0)) + Len(n) + 1
           <= 2 * Cardinality(ToCome(t, p, f)) + Len(p)
    BY <1>1, <2>2, <2>5, <2>6
  <2>8. Entered(n, p) /\ Reached(n, p, 0)
    BY <1>1, <2>2 DEF Entered, Reached
  <2>9. KeysToCome(t, n, p, 0) = KeysToCome(t, p, prev, f)
    BY <1>3, <2>3, <2>8 DEF KeysToCome
  <2>10. n \in DOMAIN t /\ 0 \in 0..3
    BY <2>1
  <2> QED BY <2>7, <2>8, <2>9, <2>10 DEF n
<1>5. CASE NextUp(t, p, prev, f, n)
  <2>1. /\ \A m \in Links : Rank(m) > f => Child(p, m) \notin DOMAIN t
        /\ p # Root /\ n = Parent(p)
    BY <1>5 DEF NextUp, n
  <2>2. /\ Len(p) - 1 \in 0..Len(p) /\ Len(p) \in Nat \ {0}
        /\ n = Upto(p, Len(p) - 1)
        /\ n \in Seq(Links) /\ Len(n) = Len(p) - 1
        /\ p[Len(p)] \in Links /\ p = Child(n, p[Len(p)])
    BY <1>1, <2>1, ParentFacts
  <2> DEFINE g == Rank(p[Len(p)])
  <2>3. g \in 0..3
    BY <2>2 DEF Rank
  <2>4. n \in DOMAIN t
    BY <2>2 DEF Shaped
  <2>5. ToCome(t, p, f) = ToCome(t, n, g)
    BY <2>1, ToComeUp
  <2>6. Reached(n, p, g)
    BY <2>2 DEF Reached
  <2>7. ~Entered(n, p)
    <3> SUFFICES ASSUME n # Root, p = Parent(n) PROVE FALSE
      BY DEF Entered
    <3>1. Len(Parent(n)) = Len(n) - 1
      BY <2>2, ParentFacts
    <3> QED BY <2>2, <3>1
  <2>8. KeysToCome(t, n, p, g) = KeysToCome(t, p, prev, f)
    BY <1>3, <2>5, <2>7 DEF KeysToCome
  <2>9. Cardinality(ToCome(t, p, f)) \in Nat
    BY FewToCome
  <2> HIDE DEF g
  <2>10. 2 * Cardinality(ToCome(t, n, g)) + Len(n) + 1
           <= 2 * Cardinality(ToCome(t, p, f)) + Len(p)
    BY <1>1, <2>2, <2>5, <2>9
  <2> QED BY <2>3, <2>4, <2>6, <2>8, <2>10 DEF n
<1> QED BY <1>2, <1>4, <1>5

\* The walk from s ends at the next node with a key, if one is to come.
LEMMA WalkFacts ==
    ASSUME NULL \notin Seq(Links), NEW t, Shaped(t), Long(t), NEW s \in DOMAIN t
    PROVE  LET x == NextWalk(t, s)[2 * Cardinality(DOMAIN t)][1]
               left == Keyed(t) \cap ToCome(t, s, 0)
           IN  /\ x \in DOMAIN t
               /\ \/ x \in Keyed(t) /\ left = {x} \cup (Keyed(t) \cap ToCome(t, x, 0))
                  \/ t[x].key = NULL /\ left = {}
<1> DEFINE N == Cardinality(DOMAIN t)
           w == NextWalk(t, s)
           left == Keyed(t) \cap ToCome(t, s, 0)
           M(p, f) == 2 * Cardinality(ToCome(t, p, f)) + Len(p)
           J(n, p, prev, f) ==
               /\ p \in DOMAIN t /\ f \in 0..3 /\ Reached(p, prev, f)
               /\ left = KeysToCome(t, p, prev, f)
               /\ NextNode(t, p, prev) = p \/ M(p, f) + n <= M(s, 0)
           Good(n) == \E f : J(n, w[n][1], w[n][2], f)
           bad == {n \in 0..2 * N : ~Good(n)}
           least == Min(bad)
<1>1. N \in Nat /\ 2 * N \in Nat /\ s # NULL
  BY FewToCome
<1>2. Walked(w, t, s, 2 * N)
  <2>1. \E v : Walked(v, t, s, 2 * N)
    BY <1>1, WalkMeans
  <2>2. w = CHOOSE v : Walked(v, t, s, 2 * N)
    BY DEF NextWalk, Walked, WalkStep
  <2> HIDE DEF w, N
  <2> QED BY <2>1, <2>2, Zenon
<1>3. /\ w[0] = <<s, NULL>>
      /\ \A n \in 1..2 * N : w[n] = WalkStep(t, w[n - 1])
  <2> HIDE DEF w, N
  <2>1. 0 \in 0..2 * N /\ \A n \in 1..2 * N : n \in 0..2 * N /\ n # 0
    BY <1>1
  <2> QED BY <1>2, <2>1 DEF Walked
<1>4. M(s, 0) <= 2 * N - 2 /\ M(s, 0) \in Nat
  <2>1. /\ Cardinality(ToCome(t, s, 0)) \in Nat /\ Len(s) \in Nat
        /\ Cardinality(ToCome(t, s, 0)) + Len(s) + 1 <= N
    BY FewToCome
  <2> HIDE DEF N
  <2> QED BY <1>1, <2>1
<1>5. \A p \in DOMAIN t, f \in 0..3 : M(p, f) \in Nat
  <2> SUFFICES ASSUME NEW p \in DOMAIN t, NEW f \in 0..3 PROVE M(p, f) \in Nat
    OBVIOUS
  <2>1. Cardinality(ToCome(t, p, f)) \in Nat /\ Len(p) \in Nat
    BY FewToCome
  <2> QED BY <2>1
<1> HIDE DEF w, N
<1>6. Good(0)
  <2>1. ~Entered(s, NULL) /\ Reached(s, NULL, 0) /\ 0 \in 0..3
    BY DEF Entered, Reached
  <2>2. left = KeysToCome(t, s, NULL, 0)
    BY <2>1 DEF KeysToCome
  <2>3. M(s, 0) + 0 <= M(s, 0)
    <3> HIDE DEF M
    <3> QED BY <1>4
  <2> HIDE DEF left, M
  <2>4. J(0, s, NULL, 0)
    BY <2>1, <2>2, <2>3
  <2> HIDE DEF J
  <2> QED BY <1>3, <2>4
<1>7. ASSUME NEW n \in 1..2 * N, Good(n - 1) PROVE Good(n)
  <2> DEFINE p == w[n - 1][1]
             prev == w[n - 1][2]
             m == NextNode(t, p, prev)
  <2>1. PICK f : J(n - 1, p, prev, f)
    BY <1>7
  <2>2. w[n] = IF m = p THEN w[n - 1] ELSE <<m, p>>
    BY <1>3 DEF WalkStep
  <2>3. CASE m = p
    <3>1. w[n][1] = p /\ w[n][2] = prev
      BY <2>2, <2>3
    <3> HIDE DEF p, prev, M, left
    <3>2. J(n, p, prev, f)
      BY <2>1, <2>3
    <3> HIDE DEF J
    <3> QED BY <3>1, <3>2
  <2>4. CASE m # p
    <3>1. w[n][1] = m /\ w[n][2] = p
      BY <2>2, <2>4
    <3> HIDE DEF p, prev, left
    <3>2. /\ p \in DOMAIN t /\ f \in 0..3 /\ Reached(p, prev, f)
          /\ left = KeysToCome(t, p, prev, f)
          /\ M(p, f) + (n - 1) <= M(s, 0)
      BY <2>1, <2>4
    <3>3. PICK g \in 0..3 :
             /\ Reached(m, p, g)
             /\ KeysToCome(t, m, p, g) = KeysToCome(t, p, prev, f)
             /\ 2 * Cardinality(ToCome(t, m, g)) + Len(m) + 1
                   <= 2 * Cardinality(ToCome(t, p, f)) + Len(p)
      BY <2>4, <3>2, StepFacts
    <3>4. m \in DOMAIN t
      BY <2>4, <3>2, StepFacts
    <3>5. M(m, g) + 1 <= M(p, f)
      BY <3>3
    <3>6. M(m, g) \in Nat /\ M(p, f) \in Nat
      BY <1>5, <3>2, <3>4
    <3>7. left = KeysToCome(t, m, p, g)
      BY <3>2, <3>3
    <3> HIDE DEF m, M
    <3>8. M(m, g) + n <= M(s, 0)
      BY <1>4, <3>2, <3>5, <3>6
    <3>9. J(n, m, p, g)
      BY <3>3, <3>4, <3>7, <3>8
    <3> HIDE DEF J
    <3> QED BY <3>1, <3>9
  <2> QED BY <2>3, <2>4
<1> HIDE DEF J
<1>8. bad = {}
  <2> SUFFICES ASSUME bad # {} PROVE FALSE
    OBVIOUS
  <2> HIDE DEF Good
  <2>1. bad \subseteq Nat
    BY <1>1
  <2>2. least \in bad /\ \A n \in bad : least <= n
    <3> HIDE DEF bad
    <3> QED BY <2>1, MinFacts
  <2> HIDE DEF least
  <2>3. least \in 1..2 * N /\ least - 1 \in 0..2 * N /\ ~(least <= least - 1)
    BY <1>1, <1>6, <2>2
  <2>4. Good(least - 1)
    BY <2>2, <2>3
  <2> QED BY <1>7, <2>2, <2>3, <2>4
<1> DEFINE x == w[2 * N][1]
           from == w[2 * N][2]
<1>9. PICK f : J(2 * N, x, from, f)
  <2>1. 2 * N \in 0..2 * N
    BY <1>1
  <2>2. Good(2 * N)
    <3> HIDE DEF Good
    <3> QED BY <1>8, <2>1
  <2> QED BY <2>2
<1> HIDE DEF x, from
<1>10. /\ x \in DOMAIN t /\ f \in 0..3 /\ Reached(x, from, f)
       /\ left = KeysToCome(t, x, from, f)
       /\ NextNode(t, x, from) = x \/ M(x, f) + 2 * N <= M(s, 0)
  <2> HIDE DEF M, left
  <2> QED BY <1>9 DEF J
<1>11. NextNode(t, x, from) = x
  <2>1. M(x, f) \in Nat
    BY <1>5, <1>10
  <2> HIDE DEF M, left
  <2> QED BY <1>1, <1>4, <1>10, <2>1
<1> HIDE DEF left
<1>12. x \in Seq(Links) /\ Len(x) \in Nat /\ Len(Root) = 0
  <2>1. x \in Seq(Links)
    BY <1>10 DEF Shaped
  <2> QED BY <2>1 DEF Root
<1>13. CASE NextStops(t, x, from, x)
  <2>1. x \in Keyed(t) /\ Entered(x, from) /\ x # Root /\ from = Parent(x)
    BY <1>13 DEF NextStops, Entered
  <2>2. \A link \in Links : from # Child(x, link)
    <3> SUFFICES ASSUME NEW link \in Links, from = Child(x, link) PROVE FALSE
      OBVIOUS
    <3>1. Len(from) = Len(x) + 1 /\ Len(from) = Len(x) - 1
      BY <1>12, <2>1, ChildFacts, ParentFacts
    <3> QED BY <1>12, <3>1
  <2>3. f = 0
    BY <1>10, <2>2 DEF Reached
  <2>4. left = {x} \cup (Keyed(t) \cap ToCome(t, x, 0))
    BY <1>10, <2>1, <2>3 DEF KeysToCome
  <2> QED BY <1>10, <2>1, <2>4 DEF x, w, N, left
<1>14. ~NextDown(t, x, from, f, x)
  <2> SUFFICES ASSUME NEW link \in Links, x = Child(x, link) PROVE FALSE
    BY DEF NextDown
  <2>1. Len(x) = Len(x) + 1
    BY <1>12, ChildFacts
  <2> QED BY <1>12, <2>1
<1>15. CASE NextUp(t, x, from, f, x)
  <2>1. x = Root
    <3> SUFFICES ASSUME x # Root, x = Parent(x) PROVE FALSE
      BY <1>15 DEF NextUp
    <3>1. Len(x) = Len(x) - 1
      BY <1>12, ParentFacts
    <3> QED BY <1>12, <3>1
  <2>2. ToCome(t, x, f) = {}
    BY <1>10, <1>15, <2>1, ToComeUp DEF NextUp
  <2>3. ~Entered(x, from)
    BY <2>1 DEF Entered
  <2>4. left = {}
    BY <1>10, <2>2, <2>3 DEF KeysToCome
  <2>5. t[x].key = NULL
    <3> SUFFICES ASSUME t[x].key # NULL PROVE FALSE
      OBVIOUS
    <3>1. x \in Keyed(t)
      BY <1>10 DEF Keyed
    <3>2. Len(x) > 1
      BY <3>1 DEF Long
    <3> QED BY <1>12, <2>1, <3>2
  <2> QED BY <1>10, <2>4, <2>5 DEF x, w, N, left
<1>16. NextStops(t, x, from, x) \/ NextDown(t, x, from, f, x) \/ NextUp(t, x, from, f, x)
  <2>1. \/ NextStops(t, x, from, NextNode(t, x, from))
        \/ NextDown(t, x, from, f, NextNode(t, x, from))
        \/ NextUp(t, x, from, f, NextNode(t, x, from))
    BY <1>10, NextFacts
  <2> QED BY <1>11, <2>1
<1> QED BY <1>13, <1>14, <1>15, <1>16

-----------------------------------------------------------------------------
(* The order of the keys.                                                  *)

\* Keys are ordered as where their ways part.
LEMMA WaysPart ==
    ASSUME NEW t, \A q \in DOMAIN t : t[q].splitchar \in Nat,
           NEW j, NEW k, IsString(j), IsString(k), NEW d, OnWay(t, j, d), OnWay(t, k, d),
           j[IndexAt(d)] < k[IndexAt(d)]
    PROVE  Smaller(j, k)
<1> DEFINE I == IndexAt(d)
<1>1. I \in DOMAIN j \cap DOMAIN k /\ I \in Nat /\ d \in Seq(Links)
  <2>1. I \in 1..Len(j) /\ I \in 1..Len(k)
    BY IndexOnWay
  <2>2. j \in Seq(Nat) /\ k \in Seq(Nat) /\ d \in Seq(Links)
    BY DEF IsString, OnWay
  <2> HIDE DEF I
  <2> QED BY <2>1, <2>2
<1>2. ASSUME NEW h \in 1..(I - 1) PROVE j[h] = k[h]
  <2>1. PICK l \in 1..Len(d) : d[l] = "equal" /\ IndexAt(Upto(d, l - 1)) = h
    BY <1>1, IndexPassed
  <2>2. LinkAt(t, j, Upto(d, l - 1)) = "equal" /\ LinkAt(t, k, Upto(d, l - 1)) = "equal"
    BY <2>1 DEF OnWay
  <2> QED BY <2>1, <2>2 DEF LinkAt, Branch
<1> QED BY <1>1, <1>2 DEF Smaller

\* A key whose node is to come is greater.
LEMMA KeysInOrder ==
    ASSUME TreesAssumption, NEW t, Sound(t), NEW p \in Keyed(t), NEW q \in Keyed(t),
           q \in ToCome(t, p, 0)
    PROVE  Smaller(t[p].key, t[q].key)
<1> DEFINE j == t[p].key
           k == t[q].key
<1>1. /\ IsKey(j) /\ IsKey(k) /\ EndsAt(t, j, p) /\ EndsAt(t, k, q)
      /\ \A n \in DOMAIN t : t[n].splitchar \in Nat
  <2>1. j \in TreeKeys /\ k \in TreeKeys /\ EndsAt(t, j, p) /\ EndsAt(t, k, q)
    BY DEF Keyed, Sound, Formed, NodeType
  <2>2. \A n \in DOMAIN t : t[n].splitchar \in Nat
    BY DEF Sound, Formed, NodeType
  <2> QED BY <2>1, <2>2 DEF TreesAssumption, IsKey, IsString
<1> HIDE DEF j, k
<1>2. /\ IsString(j) /\ IsString(k) /\ j \in Seq(Nat) /\ k \in Seq(Nat)
      /\ p \in Seq(Links) /\ q \in Seq(Links) /\ p \in DOMAIN t /\ q \in DOMAIN t
  BY <1>1 DEF IsKey, IsString, EndsAt, OnWay, Keyed
<1>3. ASSUME NEW d, OnWay(t, j, d), OnWay(t, k, d), d \in DOMAIN t
      PROVE  j[IndexAt(d)] \in Nat /\ k[IndexAt(d)] \in Nat /\ t[d].splitchar \in Nat
  <2>1. IndexAt(d) \in 1..Len(j) /\ IndexAt(d) \in 1..Len(k)
    BY <1>1, <1>2, <1>3, IndexOnWay
  <2> QED BY <1>1, <1>2, <1>3, <2>1
<1>4. CASE q \in Beyond(t, p, 0)
  <2>1. Len(p) < Len(q) /\ Upto(q, Len(p)) = p
    BY <1>4 DEF Beyond
  <2>2. Len(p) + 1 \in 1..Len(q) /\ Len(p) \in 0..Len(q) /\ Len(p) + 1 - 1 = Len(p)
    BY <1>2, <2>1
  <2>3. OnWay(t, j, p) /\ OnWay(t, k, p) /\ ~Ends(t, k, p)
    <3>1. OnWay(t, k, p)
      BY <1>1, <2>1, <2>2, UptoOnWay DEF EndsAt
    <3>2. ~Ends(t, k, Upto(q, Len(p) + 1 - 1))
      BY <1>1, <2>2 DEF EndsAt, OnWay
    <3> QED BY <1>1, <2>1, <2>2, <3>1, <3>2 DEF EndsAt
  <2>4. IndexAt(p) = Len(j) /\ LinkAt(t, j, p) = "equal"
    BY <1>1, <1>2 DEF EndsAt, Ends
  <2>5. j[IndexAt(p)] = 0
    <3>1. Len(j) \in DOMAIN j
      BY <1>2, EmptySeq DEF IsString
    <3> QED BY <1>1, <2>4, <3>1 DEF IsKey
  <2>6. t[p].splitchar = 0
    BY <2>4, <2>5 DEF LinkAt, Branch
  <2>7. IndexAt(p) \in DOMAIN k /\ k[IndexAt(p)] \in Nat
    <3>1. IndexAt(p) \in 1..Len(k)
      BY <1>1, <1>2, <2>3, IndexOnWay
    <3> QED BY <1>2, <3>1
  <2>8. k[IndexAt(p)] # 0
    <3> SUFFICES ASSUME k[IndexAt(p)] = 0 PROVE FALSE
      OBVIOUS
    <3>1. IndexAt(p) = Len(k)
      BY <1>1, <2>7 DEF IsKey
    <3>2. LinkAt(t, k, p) = "equal"
      BY <2>6 DEF LinkAt, Branch
    <3> QED BY <2>3, <3>1, <3>2 DEF Ends
  <2>9. j[IndexAt(p)] < k[IndexAt(p)]
    BY <2>5, <2>7, <2>8
  <2> QED BY <1>1, <1>2, <2>3, <2>9, WaysPart DEF j, k
<1>5. CASE q \in Later(t, p)
  <2>1. PICK i \in 1..Len(p) :
           i <= Len(q) /\ Upto(q, i - 1) = Upto(p, i - 1) /\ Rank(q[i]) > Rank(p[i])
    BY <1>5 DEF Later
  <2> DEFINE d == Upto(p, i - 1)
  <2>2. i \in 1..Len(q) /\ i - 1 \in 0..Len(p) /\ i - 1 \in 0..Len(q)
    BY <1>2, <2>1
  <2>3. /\ OnWay(t, j, d) /\ OnWay(t, k, d) /\ d \in DOMAIN t
        /\ p[i] = LinkAt(t, j, d) /\ q[i] = LinkAt(t, k, d)
    <3>1. OnWay(t, j, d) /\ OnWay(t, k, Upto(q, i - 1))
      BY <1>1, <2>2, UptoOnWay DEF EndsAt
    <3>2. d \in DOMAIN t /\ p[i] = LinkAt(t, j, d)
      BY <1>1 DEF EndsAt, OnWay
    <3>3. q[i] = LinkAt(t, k, Upto(q, i - 1))
      BY <1>1, <2>2 DEF EndsAt, OnWay
    <3> QED BY <2>1, <3>1, <3>2, <3>3
  <2> HIDE DEF d
  <2> DEFINE a == j[IndexAt(d)]
             b == k[IndexAt(d)]
             c == t[d].splitchar
  <2>4. a \in Nat /\ b \in Nat /\ c \in Nat
    BY <1>3, <2>3
  <2>5. Rank(Branch(b, c)) > Rank(Branch(a, c))
    BY <2>1, <2>3 DEF LinkAt
  <2> HIDE DEF a, b, c
  <2>6. a < b
    BY <2>4, <2>5 DEF Rank, Branch
  <2> QED BY <1>1, <1>2, <2>3, <2>6, WaysPart DEF a, b, j, k
<1> QED BY <1>4, <1>5 DEF ToCome

-----------------------------------------------------------------------------
(* The next key.                                                           *)

\* The nodes with a key that are to come at a node.
Ahead(t, p) == Keyed(t) \cap ToCome(t, p, 0)

LEMMA AheadFacts ==
    ASSUME NEW t, Shaped(t), NEW p \in DOMAIN t
    PROVE  p \notin Ahead(t, p) /\ Ahead(t, p) \subseteq Keyed(t) /\ Keyed(t) \subseteq DOMAIN t
<1>1. p \in Seq(Links)
  BY DEF Shaped
<1>2. Len(p) \in 0..Len(p) /\ Upto(p, Len(p)) = p
  BY <1>1, UptoEnds
<1>3. p \notin ToCome(t, p, 0)
  BY <1>2, PassedNodes
<1> QED BY <1>3 DEF Ahead, Keyed

LEMMA FirstKey ==
    ASSUME TreesAssumption, NEW t, Sound(t), Long(t)
    PROVE  \/ Keyed(t) = {} /\ co_tree_next(t, NULL) = NULL
           \/ \E x \in Keyed(t) : /\ co_tree_next(t, NULL) = t[x].key
                                  /\ Keyed(t) = {x} \cup Ahead(t, x)
<1>1. Shaped(t) /\ NULL \notin Seq(Links)
  BY FormedIsShaped DEF Sound, TreesAssumption
<1>2. CASE Root \notin DOMAIN t
  <2>1. DOMAIN t = {}
    <3> SUFFICES ASSUME NEW p \in DOMAIN t PROVE FALSE
      OBVIOUS
    <3>1. p \in Seq(Links) /\ 0 \in 0..Len(p)
      BY <1>1 DEF Shaped
    <3> QED BY <1>1, <1>2, <3>1, UptoEnds DEF Shaped
  <2> QED BY <1>2, <2>1 DEF Keyed, co_tree_next
<1>3. CASE Root \in DOMAIN t
  <2> DEFINE x == NextWalk(t, Root)[2 * Cardinality(DOMAIN t)][1]
  <2>1. /\ x \in DOMAIN t
        /\ \/ x \in Keyed(t) /\ Ahead(t, Root) = {x} \cup Ahead(t, x)
           \/ t[x].key = NULL /\ Ahead(t, Root) = {}
    BY <1>1, <1>3, WalkFacts DEF Ahead
  <2>2. co_tree_next(t, NULL) = t[x].key
    BY <1>3 DEF co_tree_next, _co_tree_next_r
  <2>3. Keyed(t) = Ahead(t, Root)
    <3> SUFFICES ASSUME NEW q \in Keyed(t) PROVE q \in Ahead(t, Root)
      BY DEF Ahead
    <3>1. q \in DOMAIN t /\ q \in Seq(Links) /\ Len(q) > 1 /\ Len(q) \in Nat
      BY <1>1 DEF Keyed, Shaped, Long
    <3>2. Len(Root) = 0
      BY DEF Root
    <3>3. Len(Root) < Len(q) /\ Upto(q, Len(Root)) = Root /\ Len(Root) + 1 \in 1..Len(q)
      BY <3>1, <3>2, UptoEnds
    <3>4. Rank(q[Len(Root) + 1]) > 0
      <4>1. q[Len(Root) + 1] \in Links
        BY <3>1, <3>3
      <4> QED BY <4>1 DEF Rank
    <3>5. q \in Beyond(t, Root, 0)
      BY <3>1, <3>3, <3>4 DEF Beyond
    <3> QED BY <3>5 DEF Ahead, ToCome
  <2> HIDE DEF x
  <2> QED BY <2>1, <2>2, <2>3
<1> QED BY <1>2, <1>3

LEMMA NextKey ==
    ASSUME TreesAssumption, NEW t, Sound(t), Long(t), NEW p \in Keyed(t)
    PROVE  \/ Ahead(t, p) = {} /\ co_tree_next(t, t[p].key) = NULL
           \/ \E x \in Keyed(t) : /\ co_tree_next(t, t[p].key) = t[x].key
                                  /\ Ahead(t, p) = {x} \cup Ahead(t, x)
<1> DEFINE k == t[p].key
           x == NextWalk(t, p)[2 * Cardinality(DOMAIN t)][1]
<1>1. Shaped(t) /\ NULL \notin Seq(Links) /\ p \in DOMAIN t /\ k \in TreeKeys /\ k # NULL
  BY FormedIsShaped DEF Sound, TreesAssumption, Formed, NodeType, Keyed
<1>2. co_tree_find_node(t, k) = p /\ \A q \in DOMAIN t : t[q].key = k => q = p
  BY <1>1, NodeOfKey
<1>3. /\ x \in DOMAIN t
      /\ \/ x \in Keyed(t) /\ Ahead(t, p) = {x} \cup Ahead(t, x)
         \/ t[x].key = NULL /\ Ahead(t, p) = {}
  BY <1>1, WalkFacts DEF Ahead
<1>4. co_tree_next(t, k) = IF t[x].key = k THEN NULL ELSE t[x].key
  BY <1>1, <1>2 DEF co_tree_next, _co_tree_next_r
<1> HIDE DEF x
<1>5. p \notin Ahead(t, p)
  BY <1>1, AheadFacts
<1>6. CASE x \in Keyed(t) /\ Ahead(t, p) = {x} \cup Ahead(t, x)
  <2>1. x # p
    BY <1>5, <1>6
  <2> QED BY <1>2, <1>3, <1>4, <1>6, <2>1
<1>7. CASE t[x].key = NULL /\ Ahead(t, p) = {}
  BY <1>1, <1>4, <1>7
<1> QED BY <1>3, <1>6, <1>7

-----------------------------------------------------------------------------
(* The enumeration.                                                        *)

\* The keys that are returned up to call N.
ListNext(t, before) == IF before = NULL THEN NULL ELSE co_tree_next(t, before)
ListedTo(w, t, N) ==
    w = [n \in 0..N |-> IF n = 0 THEN co_tree_next(t, NULL) ELSE ListNext(t, w[n - 1])]

LEMMA ListedMeans ==
    ASSUME NEW t, NEW N \in Nat
    PROVE  \E w : ListedTo(w, t, N)
<1> DEFINE Run(w, m) ==
             w = [n \in 0..m |-> IF n = 0 THEN co_tree_next(t, NULL) ELSE ListNext(t, w[n - 1])]
           hard == {m \in 0..N : ~ \E w : Run(w, m)}
           least == Min(hard)
<1>1. \A w, m : Run(w, m) <=> ListedTo(w, t, m)
  BY DEF ListedTo
<1>2. hard = {}
  <2> SUFFICES ASSUME hard # {} PROVE FALSE
    OBVIOUS
  <2>1. hard \subseteq Nat
    OBVIOUS
  <2>2. least \in hard /\ \A m \in hard : least <= m
    <3> HIDE DEF hard
    <3> QED BY <2>1, MinFacts
  <2> HIDE DEF least
  <2>3. CASE least = 0
    <3> DEFINE w == [n \in 0..0 |-> co_tree_next(t, NULL)]
    <3>1. Run(w, 0)
      OBVIOUS
    <3> QED BY <2>2, <2>3, <3>1
  <2>4. CASE least # 0
    <3>1. least \in 0..N /\ least - 1 \in 0..N /\ ~(least <= least - 1)
      BY <2>2, <2>4
    <3>2. PICK w : Run(w, least - 1)
      BY <2>2, <3>1
    <3> DEFINE x == [n \in 0..least |-> IF n = least THEN ListNext(t, w[least - 1]) ELSE w[n]]
    <3>3. \A n \in 0..least : x[n] = IF n = 0 THEN co_tree_next(t, NULL) ELSE ListNext(t, x[n - 1])
      <4> SUFFICES ASSUME NEW n \in 0..least
                   PROVE  x[n] = IF n = 0 THEN co_tree_next(t, NULL) ELSE ListNext(t, x[n - 1])
        OBVIOUS
      <4>1. CASE n = least
        <5>1. x[n] = ListNext(t, w[least - 1]) /\ n # 0 /\ n - 1 = least - 1
          BY <2>4, <4>1
        <5>2. x[n - 1] = w[least - 1]
          BY <3>1, <4>1
        <5> HIDE DEF x
        <5> QED BY <4>1, <5>1, <5>2
      <4>2. CASE n # least
        <5>1. n \in 0..least - 1 /\ (n # 0 => n - 1 \in 0..least /\ n - 1 # least)
          BY <3>1, <4>2
        <5>2. x[n] = w[n] /\ (n # 0 => x[n - 1] = w[n - 1])
          BY <4>2, <5>1
        <5> HIDE DEF x
        <5> QED BY <3>2, <5>1, <5>2
      <4> QED BY <4>1, <4>2
    <3>4. Run(x, least)
      BY <3>3
    <3> HIDE DEF x, Run
    <3> QED BY <2>2, <3>4
  <2> QED BY <2>3, <2>4
<1>3. N \in 0..N
  OBVIOUS
<1>4. \E w : Run(w, N)
  <2> HIDE DEF Run
  <2> QED BY <1>2, <1>3
<1> HIDE DEF Run
<1> QED BY <1>1, <1>4

\* It returns every key once, in order, and ends.
LEMMA ListedFacts ==
    ASSUME TreesAssumption, NEW t, Sound(t), Long(t)
    PROVE  LET size == Cardinality(Keyed(t))
               nth == Listed(t, size)
           IN  /\ nth[size] = NULL
               /\ {nth[n] : n \in 0..(size - 1)} = {t[p].key : p \in Keyed(t)}
               /\ \A n \in 1..(size - 1) : Smaller(nth[n - 1], nth[n])
<1> DEFINE N == Cardinality(Keyed(t))
           w == Listed(t, N)
           Told(n) == {w[h] : h \in 0..n}
           At(n, x) == /\ x \in Keyed(t) /\ w[n] = t[x].key
                       /\ Cardinality(Ahead(t, x)) = N - 1 - n
                       /\ Told(n) = {t[y].key : y \in Keyed(t) \ Ahead(t, x)}
           Good(n) == /\ n = N => w[n] = NULL
                      /\ n < N => \E x : At(n, x)
                      /\ n \in 1..(N - 1) => Smaller(w[n - 1], w[n])
           bad == {n \in 0..N : ~Good(n)}
           least == Min(bad)
<1>1. Shaped(t) /\ IsFiniteSet(Keyed(t)) /\ N \in Nat
  <2>1. Shaped(t)
    BY FormedIsShaped DEF Sound
  <2>2. IsFiniteSet(Keyed(t))
    <3>1. IsFiniteSet(DOMAIN t) /\ Keyed(t) \subseteq DOMAIN t
      BY <2>1 DEF Shaped, Keyed
    <3> QED BY <3>1, FS_Subset
  <2> QED BY <2>1, <2>2, FS_CardinalityType
<1>2. \A x \in Keyed(t) : /\ IsFiniteSet(Ahead(t, x)) /\ Cardinality(Ahead(t, x)) \in Nat
                          /\ x \notin Ahead(t, x) /\ Ahead(t, x) \subseteq Keyed(t)
                          /\ t[x].key # NULL
  <2> SUFFICES ASSUME NEW x \in Keyed(t)
               PROVE  /\ IsFiniteSet(Ahead(t, x)) /\ Cardinality(Ahead(t, x)) \in Nat
                      /\ x \notin Ahead(t, x) /\ Ahead(t, x) \subseteq Keyed(t)
                      /\ t[x].key # NULL
    OBVIOUS
  <2>1. x \in DOMAIN t /\ t[x].key # NULL
    BY DEF Keyed
  <2>2. x \notin Ahead(t, x) /\ Ahead(t, x) \subseteq Keyed(t)
    BY <1>1, <2>1, AheadFacts
  <2> QED BY <1>1, <2>1, <2>2, FS_Subset, FS_CardinalityType
<1>3. ListedTo(w, t, N)
  <2>1. \E v : ListedTo(v, t, N)
    BY <1>1, ListedMeans
  <2>2. w = CHOOSE v : ListedTo(v, t, N)
    BY DEF Listed, ListedTo, ListNext
  <2> HIDE DEF w, N
  <2> QED BY <2>1, <2>2, Zenon
<1>4. /\ w[0] = co_tree_next(t, NULL)
      /\ \A n \in 1..N : w[n] = ListNext(t, w[n - 1])
  <2> HIDE DEF w, N
  <2>1. 0 \in 0..N /\ \A n \in 1..N : n \in 0..N /\ n # 0
    BY <1>1
  <2> QED BY <1>3, <2>1 DEF ListedTo
<1> HIDE DEF w
<1>5. Good(0)
  <2>1. CASE Keyed(t) = {} /\ co_tree_next(t, NULL) = NULL
    <3>1. N = 0 /\ w[0] = NULL
      BY <1>4, <2>1, FS_EmptySet
    <3> HIDE DEF N
    <3> QED BY <3>1
  <2>2. ASSUME NEW x \in Keyed(t), co_tree_next(t, NULL) = t[x].key, Keyed(t) = {x} \cup Ahead(t, x)
        PROVE  Good(0)
    <3>1. Keyed(t) = Ahead(t, x) \cup {x} /\ x \notin Ahead(t, x) /\ IsFiniteSet(Ahead(t, x))
      BY <1>2, <2>2
    <3>2. N = Cardinality(Ahead(t, x)) + 1
      BY <3>1, FS_AddElement
    <3>3. Told(0) = {t[x].key} /\ Keyed(t) \ Ahead(t, x) = {x}
      BY <1>4, <2>2, <3>1
    <3>4. Told(0) = {t[y].key : y \in Keyed(t) \ Ahead(t, x)}
      BY <3>3
    <3> HIDE DEF N, Told
    <3>5. Cardinality(Ahead(t, x)) = N - 1 - 0 /\ N # 0
      BY <1>2, <3>2
    <3>6. At(0, x)
      BY <1>4, <2>2, <3>4, <3>5
    <3> HIDE DEF At
    <3> QED BY <3>5, <3>6
  <2>3. \/ Keyed(t) = {} /\ co_tree_next(t, NULL) = NULL
        \/ \E x \in Keyed(t) : /\ co_tree_next(t, NULL) = t[x].key
                               /\ Keyed(t) = {x} \cup Ahead(t, x)
    BY FirstKey
  <2> HIDE DEF Good
  <2> QED BY <2>1, <2>2, <2>3
<1> HIDE DEF N
<1>6. ASSUME NEW n \in 1..N, Good(n - 1) PROVE Good(n)
  <2>1. n - 1 \in 0..N /\ n - 1 < N /\ n \in 0..N /\ n - 1 # N
    BY <1>1
  <2>2. PICK x : At(n - 1, x)
    <3> HIDE DEF At
    <3> QED BY <1>6, <2>1
  <2>3. /\ x \in Keyed(t) /\ w[n - 1] = t[x].key
        /\ Cardinality(Ahead(t, x)) = N - 1 - (n - 1)
        /\ Told(n - 1) = {t[y].key : y \in Keyed(t) \ Ahead(t, x)}
    <3> HIDE DEF Told
    <3> QED BY <2>2
  <2>4. w[n] = co_tree_next(t, t[x].key)
    BY <1>2, <1>4, <2>3 DEF ListNext
  <2>5. CASE Ahead(t, x) = {} /\ co_tree_next(t, t[x].key) = NULL
    <3>1. Cardinality(Ahead(t, x)) = 0
      BY <2>5, FS_EmptySet
    <3>2. n = N
      BY <1>1, <2>3, <3>1
    <3> HIDE DEF At
    <3> QED BY <1>1, <2>4, <2>5, <3>2
  <2>6. ASSUME NEW z \in Keyed(t), co_tree_next(t, t[x].key) = t[z].key,
               Ahead(t, x) = {z} \cup Ahead(t, z)
        PROVE  Good(n)
    <3>1. Ahead(t, x) = Ahead(t, z) \cup {z} /\ z \notin Ahead(t, z) /\ IsFiniteSet(Ahead(t, z))
      BY <1>2, <2>6
    <3>2. Cardinality(Ahead(t, x)) = Cardinality(Ahead(t, z)) + 1
      BY <3>1, FS_AddElement
    <3>3. Cardinality(Ahead(t, z)) = N - 1 - n /\ n < N
      BY <1>1, <1>2, <2>3, <3>2
    <3>4. Keyed(t) \ Ahead(t, z) = (Keyed(t) \ Ahead(t, x)) \cup {z}
      BY <3>1
    <3>5. Told(n) = Told(n - 1) \cup {w[n]}
      <4>1. \A h : h \in 0..n <=> h \in 0..(n - 1) \/ h = n
        BY <1>1
      <4> QED BY <4>1
    <3>6. Told(n) = {t[y].key : y \in Keyed(t) \ Ahead(t, z)}
      <4> HIDE DEF Told
      <4> QED BY <2>3, <2>4, <2>6, <3>4, <3>5
    <3>7. z \in ToCome(t, x, 0)
      BY <3>1 DEF Ahead
    <3>8. Smaller(w[n - 1], w[n])
      BY <2>3, <2>4, <2>6, <3>7, KeysInOrder
    <3> HIDE DEF Told
    <3>9. At(n, z)
      BY <2>4, <2>6, <3>3, <3>6
    <3> HIDE DEF At
    <3> QED BY <1>1, <3>3, <3>8, <3>9
  <2>7. \/ Ahead(t, x) = {} /\ co_tree_next(t, t[x].key) = NULL
        \/ \E z \in Keyed(t) : /\ co_tree_next(t, t[x].key) = t[z].key
                               /\ Ahead(t, x) = {z} \cup Ahead(t, z)
    BY <2>3, NextKey
  <2> HIDE DEF Good
  <2> QED BY <2>5, <2>6, <2>7
<1>7. bad = {}
  <2> SUFFICES ASSUME bad # {} PROVE FALSE
    OBVIOUS
  <2> HIDE DEF Good
  <2>1. bad \subseteq Nat
    BY <1>1
  <2>2. least \in bad /\ \A n \in bad : least <= n
    <3> HIDE DEF bad
    <3> QED BY <2>1, MinFacts
  <2> HIDE DEF least
  <2>3. least \in 1..N /\ least - 1 \in 0..N /\ ~(least <= least - 1)
    BY <1>1, <1>5, <2>2
  <2>4. Good(least - 1)
    BY <2>2, <2>3
  <2> QED BY <1>6, <2>2, <2>3, <2>4
<1>8. \A n \in 0..N : Good(n)
  <2> HIDE DEF Good
  <2> QED BY <1>7
<1>9. w[N] = NULL
  <2>1. N \in 0..N
    BY <1>1
  <2> HIDE DEF At
  <2> QED BY <1>8, <2>1
<1>10. \A n \in 1..(N - 1) : Smaller(w[n - 1], w[n])
  <2> SUFFICES ASSUME NEW n \in 1..(N - 1) PROVE Smaller(w[n - 1], w[n])
    OBVIOUS
  <2>1. n \in 0..N
    BY <1>1
  <2> HIDE DEF At
  <2> QED BY <1>8, <2>1
<1>11. Told(N - 1) = {t[p].key : p \in Keyed(t)}
  <2>1. CASE N = 0
    <3>1. Keyed(t) = {}
      BY <1>1, <2>1, FS_EmptySet DEF N
    <3>2. 0..(N - 1) = {}
      BY <2>1
    <3> QED BY <3>1, <3>2
  <2>2. CASE N # 0
    <3>1. N - 1 \in 0..N /\ N - 1 < N
      BY <1>1, <2>2
    <3>2. PICK x : At(N - 1, x)
      <4> HIDE DEF At
      <4> QED BY <1>8, <3>1
    <3>3. /\ x \in Keyed(t) /\ Cardinality(Ahead(t, x)) = N - 1 - (N - 1)
          /\ Told(N - 1) = {t[y].key : y \in Keyed(t) \ Ahead(t, x)}
      <4> HIDE DEF Told
      <4> QED BY <3>2
    <3>4. Ahead(t, x) = {}
      <4>1. Cardinality(Ahead(t, x)) = 0
        BY <1>1, <3>3
      <4> QED BY <1>2, <3>3, <4>1, FS_EmptySet
    <3> HIDE DEF Told
    <3> QED BY <3>3, <3>4
  <2> QED BY <2>1, <2>2
<1> QED BY <1>9, <1>10, <1>11 DEF w, N

\* Keys of two letters or more keep away from the root and its children.
LEMMA KeysAreLong ==
    ASSUME TreesAssumption, \A k \in TreeKeys : Len(k) > 2, NEW t, Sound(t)
    PROVE  Long(t)
<1> SUFFICES ASSUME NEW p \in Keyed(t) PROVE Len(p) > 1
  BY DEF Long
<1>1. t[p].key \in TreeKeys /\ EndsAt(t, t[p].key, p) /\ p \in DOMAIN t
  BY DEF Keyed, Sound, Formed, NodeType
<1>2. IndexAt(p) = Len(t[p].key) /\ p \in Seq(Links)
  BY <1>1 DEF EndsAt, Ends, OnWay
<1> DEFINE E == {j \in DOMAIN p : p[j] = "equal"}
           e == Cardinality(E)
           l == Len(p)
<1>3. IndexAt(p) = 1 + e
  BY DEF IndexAt
<1>4. E \subseteq 1..Len(p) /\ Len(p) \in Nat
  BY <1>2
<1>5. IsFiniteSet(1..l) /\ Cardinality(1..l) = l
  <2>1. /\ IsFiniteSet(1..Len(p))
        /\ Cardinality(1..Len(p)) = IF 1 > Len(p) THEN 0 ELSE Len(p) - 1 + 1
    BY <1>4, FS_Interval
  <2> QED BY <1>4, <2>1
<1>6. e <= l /\ e \in Nat
  <2> HIDE DEF E
  <2> QED BY <1>4, <1>5, FS_Subset, FS_CardinalityType
<1>7. IndexAt(p) > 2
  BY <1>1, <1>2
<1> HIDE DEF e, E
<1>8. l \in Nat
  BY <1>4
<1> HIDE DEF l
<1>9. l > 1
  BY <1>3, <1>6, <1>7, <1>8
<1> QED BY <1>9 DEF l

\* Each node with a key has a value, and none has the key of another.
LEMMA KeysOfMap ==
    ASSUME TreesAssumption, NEW t, Sound(t), Cleared(t, {})
    PROVE  /\ DOMAIN MapOf(t) = {t[p].key : p \in Keyed(t)}
           /\ Cardinality(DOMAIN MapOf(t)) = Cardinality(Keyed(t))
<1> DEFINE K == {t[p].key : p \in Keyed(t)}
           g == [p \in Keyed(t) |-> t[p].key]
<1>1. {p \in DOMAIN t : t[p].value # NULL} = Keyed(t)
  BY DEF Keyed, Sound, Cleared
<1>2. DOMAIN MapOf(t) = K
  BY <1>1 DEF MapOf
<1>3. IsFiniteSet(Keyed(t))
  <2>1. IsFiniteSet(DOMAIN t) /\ Keyed(t) \subseteq DOMAIN t
    BY DEF Sound, Formed, Keyed
  <2> QED BY <2>1, FS_Subset
<1>4. \A p, q \in Keyed(t) : g[p] = g[q] => p = q
  <2> SUFFICES ASSUME NEW p \in Keyed(t), NEW q \in Keyed(t), t[p].key = t[q].key PROVE p = q
    OBVIOUS
  <2>1. p \in DOMAIN t /\ q \in DOMAIN t /\ t[p].key \in TreeKeys
    BY DEF Keyed, Sound, Formed, NodeType
  <2> QED BY <2>1, NodeOfKey
<1>5. g \in [Keyed(t) -> K] /\ \A k \in K : \E p \in Keyed(t) : g[p] = k
  OBVIOUS
<1> HIDE DEF g, K
<1>6. g \in Surjection(Keyed(t), K)
  BY <1>5, Zenon DEF Surjection
<1>7. g \in Injection(Keyed(t), K)
  <2>1. IsInjective(g)
    BY <1>4, <1>5 DEF IsInjective
  <2> QED BY <1>5, <2>1, Zenon DEF Injection
<1>8. Cardinality(K) = Cardinality(Keyed(t))
  BY <1>3, <1>6, <1>7, FS_Surjection
<1> QED BY <1>2, <1>8 DEF K

LEMMA InsertsEnumerate ==
    ASSUME TreesAssumption, \A k \in TreeKeys : Len(k) > 2, InsertsInv
    PROVE  NextEnumerates
<1>1. Sound(tree) /\ Cleared(tree, {}) /\ Long(tree)
  BY KeysAreLong DEF InsertsInv, TreesInv
<1>2. /\ DOMAIN map = {tree[p].key : p \in Keyed(tree)}
      /\ Cardinality(DOMAIN map) = Cardinality(Keyed(tree))
  BY <1>1, KeysOfMap, MapNow
<1> DEFINE size == Cardinality(Keyed(tree))
           nth == Listed(tree, size)
<1>3. /\ nth[size] = NULL
      /\ {nth[n] : n \in 0..(size - 1)} = {tree[p].key : p \in Keyed(tree)}
      /\ \A n \in 1..(size - 1) : Smaller(nth[n - 1], nth[n])
  BY <1>1, ListedFacts
<1> QED BY <1>2, <1>3 DEF NextEnumerates

\* As long as keys of two letters or more are only inserted, co_tree_next lists
\* the keys of the tree in alphabetical order, each once, and ends, in addition
\* to what InsertsAlwaysCount says.
THEOREM InsertsAlwaysExact ==
    ASSUME TreesAssumption, IsFiniteSet(TreeKeys), Cardinality(TreeKeys) < LenMod,
           \A k \in TreeKeys : Len(k) > 2
    PROVE  TreesSpec => []InsertsAreExact
<1>1. (calls \subseteq {"insert"} => InsertsInv) => InsertsAreExact
  BY InsertsEnumerate DEF InsertsAreExact, InsertsInv
<1> QED BY <1>1, InsertsInvariant, PTL

-----------------------------------------------------------------------------
(* The registry of commands.                                               *)

\* The names are where their ways end.
Named(t) ==
    /\ Shaped(t)
    /\ \A p \in DOMAIN t : t[p] \in CommandNode /\ t[p].key = t[p].value
    /\ \A p \in DOMAIN t : t[p].value # NULL => EndsAt(t, t[p].value, p)

LEMMA NamesAreStrings ==
    ASSUME RegistryAssumption
    PROVE  /\ \A n \in Asked : n # <<>> => IsString(n)
           /\ \A n \in Names : IsString(n) /\ n # NULL /\ n # <<>>
BY DEF RegistryAssumption, IsString

\* The tree after a registration: only its own node gets a name.
NamedAt(t, u, n, e) ==
    /\ e \in DOMAIN u /\ e \notin DOMAIN t /\ u[e].value = n
    /\ \A q \in DOMAIN t : q \in DOMAIN u /\ u[q] = t[q]
    /\ \A q \in DOMAIN u : q # e /\ q \notin DOMAIN t => u[q].value = NULL

LEMMA RegisterFacts ==
    ASSUME RegistryAssumption, NEW t, Named(t), NEW n \in Names, ~HasNode(t, n)
    PROVE  LET u == Inserted(t, n, n) IN Named(u) /\ \E e : NamedAt(t, u, n, e)
<1> DEFINE u == Inserted(t, n, n)
           g == Grown(t, n)
           p == co_tree_find_node(t, n)
           e == co_tree_find_node(g, n)
           L == Len(n) - IndexAt(p)
           D == {Below(p, m) : m \in 0..L}
           x == Below(p, L)
<1>1. /\ IsString(n) /\ n # NULL /\ Shaped(t) /\ EndsAt(t, n, p)
      /\ p \notin DOMAIN t
  BY NamesAreStrings, FindEnds DEF Named, Shaped, HasNode
<1>2. u = Filled(g, e, n, n)
  BY InsertedFills
<1>3. GrownAt(t, g, n, p, L)
  <2>1. co_tree_find_node(t, n) = p
    OBVIOUS
  <2> HIDE DEF p, g
  <2> QED BY <1>1, <2>1, GrownFacts DEF g
<1> HIDE DEF p
<1>4. /\ L \in Nat /\ IndexAt(p) \in Nat \ {0}
      /\ x \notin DOMAIN t /\ x \in DOMAIN g /\ EndsAt(g, n, x)
      /\ DOMAIN g = DOMAIN t \cup D
      /\ \A q \in DOMAIN t : g[q] = t[q]
      /\ \A m \in 0..L : g[Below(p, m)] = [splitchar |-> n[IndexAt(p) + m],
                                           key |-> NULL, value |-> NULL]
      /\ IsFiniteSet(DOMAIN g)
      /\ \A q \in DOMAIN g : q \in Seq(Links)
      /\ \A q \in DOMAIN g : \A i \in 0..Len(q) : Upto(q, i) \in DOMAIN g
  <2> HIDE DEF g, L
  <2> QED BY <1>3, Zenon DEF GrownAt
<1>5. e = x
  <2> HIDE DEF g, x
  <2> QED BY <1>4, FindFacts
<1>6. \A q \in D : g[q] \in CommandNode /\ g[q].key = NULL /\ g[q].value = NULL
  <2> HIDE DEF g
  <2> SUFFICES ASSUME NEW m \in 0..L
               PROVE  /\ g[Below(p, m)] \in CommandNode
                      /\ g[Below(p, m)].key = NULL /\ g[Below(p, m)].value = NULL
    OBVIOUS
  <2>1. g[Below(p, m)] = [splitchar |-> n[IndexAt(p) + m], key |-> NULL, value |-> NULL]
    BY <1>4
  <2>2. n[IndexAt(p) + m] \in Nat
    <3>1. Len(n) \in Nat /\ IndexAt(p) + m \in 1..Len(n)
      <4>1. Len(n) \in Nat /\ L = Len(n) - IndexAt(p)
        BY <1>1 DEF IsString
      <4>2. L \in Nat /\ IndexAt(p) \in Nat \ {0}
        <5> HIDE DEF L, D, x
        <5> QED BY <1>4, Zenon
      <4> HIDE DEF L, p
      <4> QED BY <4>1, <4>2
    <3> QED BY <1>1, <3>1 DEF IsString
  <2> QED BY <2>1, <2>2 DEF CommandNode
<1> HIDE DEF u, g, e, x, L, D
<1>7. \A q \in DOMAIN g : q \in DOMAIN t \/ q \in D
  BY <1>4
<1>8. \A q \in DOMAIN g : g[q] \in CommandNode /\ g[q].key = g[q].value
  BY <1>4, <1>6, <1>7 DEF Named
<1>9. /\ DOMAIN u = DOMAIN g
      /\ u[x] \in CommandNode /\ u[x].key = n /\ u[x].value = n
      /\ u[x].splitchar = g[x].splitchar
      /\ \A q \in DOMAIN g : q # x => u[q] = g[q]
  <2>1. u = [g EXCEPT ![x].key = n, ![x].value = n]
    BY <1>2, <1>5 DEF Filled
  <2> QED BY <1>4, <1>8, <2>1 DEF CommandNode
<1>10. \A q \in DOMAIN g : u[q].splitchar = g[q].splitchar
  BY <1>9
<1>11. \A m : \A q \in DOMAIN g : EndsAt(g, m, q) => EndsAt(u, m, q)
  <2> SUFFICES ASSUME NEW m, NEW q \in DOMAIN g, EndsAt(g, m, q) PROVE EndsAt(u, m, q)
    OBVIOUS
  <2>1. \A i \in 0..Len(q) : Upto(q, i) \in DOMAIN u
    BY <1>4, <1>9
  <2> QED BY <1>9, <1>10, <2>1, EndsFrame
<1>12. \A q \in DOMAIN t : t[q].value # NULL => EndsAt(g, t[q].value, q)
  <2> SUFFICES ASSUME NEW q \in DOMAIN t, t[q].value # NULL PROVE EndsAt(g, t[q].value, q)
    OBVIOUS
  <2>1. EndsAt(t, t[q].value, q) /\ q \in DOMAIN g
    BY <1>4 DEF Named
  <2>2. \A i \in 0..Len(q) : Upto(q, i) \in DOMAIN g
    BY <1>4, <2>1
  <2>3. \A y \in DOMAIN t : g[y].splitchar = t[y].splitchar
    BY <1>4
  <2> QED BY <2>1, <2>2, <2>3, EndsFrame
<1>13. \A q \in DOMAIN u : u[q].value # NULL => EndsAt(u, u[q].value, q)
  <2> SUFFICES ASSUME NEW q \in DOMAIN g, u[q].value # NULL PROVE EndsAt(u, u[q].value, q)
    BY <1>9
  <2>1. CASE q = x
    BY <1>4, <1>9, <1>11, <2>1
  <2>2. CASE q # x
    <3>1. q \in DOMAIN t /\ u[q].value = t[q].value
      BY <1>4, <1>6, <1>7, <1>9, <2>2
    <3> QED BY <1>11, <1>12, <3>1
  <2> QED BY <2>1, <2>2
<1>14. Shaped(u)
  BY <1>4, <1>8, <1>9, <1>10 DEF Shaped, CommandNode
<1>15. Named(u)
  BY <1>8, <1>9, <1>13, <1>14 DEF Named
<1>16. NamedAt(t, u, n, x)
  BY <1>4, <1>6, <1>7, <1>9 DEF NamedAt
<1> QED BY <1>15, <1>16 DEF u

\* A search finds the command of exactly the key it is made with.
LEMMA LookupFacts ==
    ASSUME RegistryAssumption, NEW n \in Asked, Named(_cmds),
           registered = {_cmds[p].value : p \in DOMAIN _cmds} \ {NULL}
    PROVE  Lookup(n) = IF n \in registered THEN n ELSE NULL
<1>1. /\ \A p \in DOMAIN _cmds : _cmds[p].value \in Names \cup {NULL}
      /\ \A p \in DOMAIN _cmds : _cmds[p].value # NULL => EndsAt(_cmds, _cmds[p].value, p)
      /\ IsFiniteSet(DOMAIN _cmds)
  BY DEF Named, CommandNode, Shaped
<1>2. CASE n = <<>>
  <2>1. n \notin registered
    BY <1>1, <1>2, NamesAreStrings
  <2>2. Root \in DOMAIN _cmds => _cmds[Root].value = NULL
    <3> SUFFICES ASSUME Root \in DOMAIN _cmds, _cmds[Root].value # NULL PROVE FALSE
      OBVIOUS
    <3>1. Ends(_cmds, _cmds[Root].value, Root) /\ _cmds[Root].value \in Names
      BY <1>1 DEF EndsAt
    <3>2. Len(_cmds[Root].value) = 1
      BY <3>1, IndexRoot DEF Ends
    <3>3. Len(_cmds[Root].value) > 1
      BY <3>1, Zenon DEF RegistryAssumption
    <3> QED
      <4> DEFINE l == Len(_cmds[Root].value)
      <4>1. l = 1 /\ l > 1
        BY <3>2, <3>3
      <4> HIDE DEF l
      <4> QED BY <4>1
  <2> QED BY <1>2, <2>1, <2>2 DEF Lookup
<1>3. CASE n # <<>>
  <2> DEFINE p == co_tree_find_node(_cmds, n)
  <2>1. EndsAt(_cmds, n, p) /\ IsString(n)
    BY <1>1, <1>3, FindEnds, NamesAreStrings
  <2>2. Lookup(n) = IF p \in DOMAIN _cmds THEN _cmds[p].value ELSE NULL
    BY <1>3 DEF Lookup, ValueAt, HasNode
  <2>3. ASSUME n \in registered PROVE Lookup(n) = n
    <3>1. PICK q \in DOMAIN _cmds : _cmds[q].value = n /\ n # NULL
      BY <2>3
    <3>2. EndsAt(_cmds, n, q)
      BY <1>1, <3>1
    <3>3. p = q
      BY <1>1, <3>2, FindFacts
    <3> QED BY <2>2, <3>1, <3>3
  <2>4. ASSUME n \notin registered PROVE Lookup(n) = NULL
    <3> SUFFICES ASSUME p \in DOMAIN _cmds, _cmds[p].value # NULL PROVE FALSE
      BY <2>2
    <3> HIDE DEF p
    <3>1. EndsAt(_cmds, _cmds[p].value, p) /\ _cmds[p].value \in Names
      BY <1>1
    <3>2. IsString(_cmds[p].value)
      BY <3>1, NamesAreStrings
    <3>3. _cmds[p].value = n
      BY <2>1, <3>1, <3>2, SameKey
    <3> QED BY <2>4, <3>3
  <2> QED BY <2>3, <2>4
<1> QED BY <1>2, <1>3

RegistryInv ==
    /\ RegistryType /\ Named(_cmds) /\ ExecRunsNamed
    /\ registered = {_cmds[p].value : p \in DOMAIN _cmds} \ {NULL}

LEMMA RegisterInv ==
    ASSUME RegistryAssumption, RegistryInv, NEW n \in Names, co_cmd_register(n)
    PROVE  RegistryInv'
<1>1. CASE HasNode(_cmds, n)
  BY <1>1 DEF co_cmd_register, RegistryInv, RegistryType, ExecRunsNamed
<1>2. CASE ~HasNode(_cmds, n)
  <2>1. /\ _cmds' = Inserted(_cmds, n, n) /\ registered' = registered \cup {n}
        /\ outcome' = <<"register", n, 1>>
    BY <1>2 DEF co_cmd_register
  <2>2. Named(_cmds') /\ \E e : NamedAt(_cmds, _cmds', n, e)
    BY <1>2, <2>1, RegisterFacts DEF RegistryInv
  <2>3. PICK e : NamedAt(_cmds, _cmds', n, e)
    BY <2>2
  <2>4. registered' = {_cmds'[p].value : p \in DOMAIN _cmds'} \ {NULL}
    <3>1. /\ registered = {_cmds[p].value : p \in DOMAIN _cmds} \ {NULL}
          /\ n # NULL
      BY NamesAreStrings DEF RegistryInv
    <3> QED BY <2>1, <2>3, <3>1 DEF NamedAt
  <2>5. ExecRunsNamed'
    BY <2>1 DEF ExecRunsNamed
  <2>6. RegistryType'
    BY <2>1, <2>2 DEF RegistryInv, RegistryType, Named
  <2> QED BY <2>2, <2>4, <2>5, <2>6 DEF RegistryInv
<1> QED BY <1>1, <1>2

LEMMA RegistryStep ==
    ASSUME RegistryAssumption, RegistryInv, [RegistryNext]_registryVars
    PROVE  RegistryInv'
<1>1. ASSUME NEW n \in Names, co_cmd_register(n) PROVE RegistryInv'
  BY <1>1, RegisterInv
<1>2. ASSUME NEW n \in Names, NEW b \in BOOLEAN, co_cmd_hook(n, b) PROVE RegistryInv'
  BY <1>2 DEF co_cmd_hook, RegistryInv, RegistryType, ExecRunsNamed
<1>3. ASSUME NEW n \in Asked, co_cmd_exec(n) PROVE RegistryInv'
  <2>1. outcome' = <<"exec", n, Lookup(n)>> /\ UNCHANGED <<_cmds, registered>>
    BY <1>3 DEF co_cmd_exec
  <2>2. Lookup(n) = IF n \in registered THEN n ELSE NULL
    BY LookupFacts DEF RegistryInv
  <2>3. ExecRunsNamed'
    BY <2>1, <2>2 DEF ExecRunsNamed
  <2> QED BY <2>1, <2>3 DEF RegistryInv, RegistryType
<1>4. CASE UNCHANGED registryVars
  BY <1>4 DEF registryVars, RegistryInv, RegistryType, ExecRunsNamed
<1> QED BY <1>1, <1>2, <1>3, <1>4 DEF RegistryNext

LEMMA RegistryStarts == ASSUME RegistryAssumption, RegistryInit PROVE RegistryInv
<1>1. DOMAIN _cmds = {}
  BY DEF RegistryInit, EmptyTree
<1>2. Named(_cmds)
  BY <1>1, FS_EmptySet DEF Named, Shaped
<1> QED BY <1>1, <1>2 DEF RegistryInit, RegistryInv, RegistryType, ExecRunsNamed

\* The registry finds under a key the command registered under exactly this
\* key, after any registrations, of any names of two characters or more.
THEOREM RegistryInvariant == ASSUME RegistryAssumption PROVE RegistrySpec => []RegistryInv
<1>1. RegistryInit => RegistryInv
  BY RegistryStarts
<1>2. RegistryInv /\ [RegistryNext]_registryVars => RegistryInv'
  BY RegistryStep
<1> QED BY <1>1, <1>2, PTL DEF RegistrySpec

\* co_cmd_exec runs the command that was registered under the request's key,
\* or none.
THEOREM ExecAlwaysNamed == ASSUME RegistryAssumption PROVE RegistrySpec => []ExecRunsNamed
<1>1. RegistryInv => ExecRunsNamed
  BY DEF RegistryInv
<1> QED BY <1>1, RegistryInvariant, PTL

-----------------------------------------------------------------------------
(* The walk through a whole tree.                                          *)

LEMMA JoinFacts ==
    ASSUME NEW S, NEW a \in Seq(S), NEW b \in Seq(S), IsInjective(a), IsInjective(b),
           ToSet(a) \cap ToSet(b) = {}
    PROVE  /\ a \o b \in Seq(S) /\ IsInjective(a \o b)
           /\ ToSet(a \o b) = ToSet(a) \cup ToSet(b)
<1> DEFINE c == a \o b
<1>1. /\ c \in Seq(S) /\ Len(c) = Len(a) + Len(b) /\ Len(a) \in Nat /\ Len(b) \in Nat
      /\ \A i \in 1..Len(a) + Len(b) : c[i] = IF i <= Len(a) THEN a[i] ELSE b[i - Len(a)]
  BY ConcatProperties
<1> HIDE DEF c
<1>2. \A i \in 1..Len(c) :
         \/ i \in 1..Len(a) /\ c[i] = a[i]
         \/ i - Len(a) \in 1..Len(b) /\ c[i] = b[i - Len(a)] /\ ~(i <= Len(a))
  BY <1>1
<1>3. /\ \A i \in 1..Len(a) : i \in 1..Len(c) /\ c[i] = a[i]
      /\ \A i \in 1..Len(b) : i + Len(a) \in 1..Len(c) /\ c[i + Len(a)] = b[i]
  <2>1. ASSUME NEW i \in 1..Len(a) PROVE i \in 1..Len(c) /\ c[i] = a[i]
    BY <1>1
  <2>2. ASSUME NEW i \in 1..Len(b) PROVE i + Len(a) \in 1..Len(c) /\ c[i + Len(a)] = b[i]
    <3>1. /\ i + Len(a) \in 1..Len(a) + Len(b) /\ ~(i + Len(a) <= Len(a))
          /\ i + Len(a) - Len(a) = i
      BY <1>1
    <3> QED BY <1>1, <3>1
  <2> QED BY <2>1, <2>2
<1>4. /\ ToSet(a) = {a[i] : i \in 1..Len(a)} /\ ToSet(b) = {b[i] : i \in 1..Len(b)}
      /\ ToSet(c) = {c[i] : i \in 1..Len(c)}
      /\ DOMAIN a = 1..Len(a) /\ DOMAIN b = 1..Len(b) /\ DOMAIN c = 1..Len(c)
  BY <1>1 DEF ToSet
<1>5. ToSet(c) = ToSet(a) \cup ToSet(b)
  <2>1. ASSUME NEW x \in ToSet(c) PROVE x \in ToSet(a) \cup ToSet(b)
    BY <1>2, <1>4
  <2>2. ASSUME NEW x \in ToSet(a) PROVE x \in ToSet(c)
    BY <1>3, <1>4
  <2>3. ASSUME NEW x \in ToSet(b) PROVE x \in ToSet(c)
    BY <1>3, <1>4
  <2> QED BY <2>1, <2>2, <2>3
<1>6. \A i, j \in 1..Len(c) : c[i] = c[j] => i = j
  <2> SUFFICES ASSUME NEW i \in 1..Len(c), NEW j \in 1..Len(c), c[i] = c[j] PROVE i = j
    OBVIOUS
  <2>1. \A k \in 1..Len(a), l \in 1..Len(b) : a[k] # b[l]
    BY <1>4
  <2>2. /\ \A k, l \in 1..Len(a) : a[k] = a[l] => k = l
        /\ \A k, l \in 1..Len(b) : b[k] = b[l] => k = l
    BY <1>4 DEF IsInjective
  <2>3. CASE i <= Len(a) /\ j <= Len(a)
    <3>1. i \in 1..Len(a) /\ j \in 1..Len(a) /\ c[i] = a[i] /\ c[j] = a[j]
      BY <1>1, <1>3, <2>3
    <3> QED BY <2>2, <3>1
  <2>4. CASE ~(i <= Len(a)) /\ ~(j <= Len(a))
    <3>1. /\ i - Len(a) \in 1..Len(b) /\ j - Len(a) \in 1..Len(b)
          /\ c[i] = b[i - Len(a)] /\ c[j] = b[j - Len(a)]
      BY <1>1, <2>4
    <3>2. i - Len(a) = j - Len(a)
      BY <2>2, <3>1
    <3> QED BY <1>1, <3>2
  <2>5. CASE i <= Len(a) /\ ~(j <= Len(a))
    <3>1. i \in 1..Len(a) /\ c[i] = a[i] /\ j - Len(a) \in 1..Len(b) /\ c[j] = b[j - Len(a)]
      BY <1>1, <1>3, <2>5
    <3> QED BY <2>1, <3>1
  <2>6. CASE ~(i <= Len(a)) /\ j <= Len(a)
    <3>1. j \in 1..Len(a) /\ c[j] = a[j] /\ i - Len(a) \in 1..Len(b) /\ c[i] = b[i - Len(a)]
      BY <1>1, <1>3, <2>6
    <3> QED BY <2>1, <3>1
  <2> QED BY <2>3, <2>4, <2>5, <2>6
<1>7. IsInjective(c)
  BY <1>4, <1>6 DEF IsInjective
<1> QED BY <1>1, <1>5, <1>7 DEF c

\* A sequence without repetitions counts its elements.
LEMMA InjectiveCounts ==
    ASSUME NEW S, NEW s \in Seq(S), IsInjective(s)
    PROVE  IsFiniteSet(ToSet(s)) /\ Cardinality(ToSet(s)) = Len(s)
<1>1. Len(s) \in Nat /\ DOMAIN s = 1..Len(s) /\ s \in [1..Len(s) -> ToSet(s)]
  BY DEF ToSet
<1>2. ToSet(s) = {s[i] : i \in 1..Len(s)}
  BY <1>1 DEF ToSet
<1>3. IsFiniteSet(1..Len(s)) /\ Cardinality(1..Len(s)) = Len(s)
  <2>1. /\ IsFiniteSet(1..Len(s))
        /\ Cardinality(1..Len(s)) = IF 1 > Len(s) THEN 0 ELSE Len(s) - 1 + 1
    BY <1>1, FS_Interval
  <2> QED BY <1>1, <2>1
<1>4. s \in Injection(1..Len(s), ToSet(s))
  BY <1>1, Zenon DEF Injection, IsInjective
<1>5. s \in Surjection(1..Len(s), ToSet(s))
  BY <1>1, <1>2, Zenon DEF Surjection
<1>6. IsFiniteSet(ToSet(s)) /\ (Cardinality(ToSet(s)) = Cardinality(1..Len(s)))
  BY <1>3, <1>4, <1>5, FS_Surjection
<1> QED BY <1>3, <1>6

\* The nodes with a value, those of them at or below position p, and those
\* below one of its links.
Valued(t) == {q \in DOMAIN t : t[q].value # NULL}
Under(t, p) == {q \in Valued(t) : Len(p) <= Len(q) /\ Upto(q, Len(p)) = p}
UnderLink(t, p, link) ==
    {q \in Valued(t) : Len(p) < Len(q) /\ Upto(q, Len(p)) = p /\ q[Len(p) + 1] = link}

LEMMA NodesAreShallow ==
    ASSUME NEW t, Shaped(t), NEW p \in DOMAIN t
    PROVE  p \in Seq(Links) /\ Len(p) \in Nat /\ Len(p) <= Cardinality(DOMAIN t)
<1>1. p \in Seq(Links) /\ Len(p) \in Nat /\ IsFiniteSet(DOMAIN t)
  BY DEF Shaped
<1>2. ASSUME NEW i \in 1..Len(p) PROVE Upto(p, i - 1) \in DOMAIN t
  <2>1. i - 1 \in 0..Len(p)
    BY <1>1
  <2> QED BY <2>1 DEF Shaped
<1> QED BY <1>1, <1>2, PathIsShort

\* What is at or below a node: the node itself and what is below its links.
LEMMA UnderParts ==
    ASSUME NEW t, Shaped(t), NEW p \in DOMAIN t
    PROVE  /\ Under(t, p) = (IF t[p].value = NULL THEN {} ELSE {p})
                            \cup UnderLink(t, p, "low") \cup UnderLink(t, p, "equal")
                            \cup UnderLink(t, p, "high")
           /\ \A link \in Links : p \notin UnderLink(t, p, link)
<1>1. p \in Seq(Links) /\ Len(p) \in Nat
  BY DEF Shaped
<1>2. p \in Valued(t) <=> t[p].value # NULL
  BY DEF Valued
<1>3. Upto(p, Len(p)) = p
  BY <1>1, UptoEnds
<1>4. \A link \in Links : p \notin UnderLink(t, p, link)
                           /\ UnderLink(t, p, link) \subseteq Under(t, p)
  BY <1>1 DEF UnderLink, Under, Valued, Shaped
<1>5. ASSUME NEW q \in Under(t, p), q # p PROVE \E link \in Links : q \in UnderLink(t, p, link)
  <2>1. q \in Valued(t) /\ q \in Seq(Links) /\ Len(p) <= Len(q) /\ Upto(q, Len(p)) = p
    BY DEF Under, Valued, Shaped
  <2>2. Len(q) # Len(p)
    BY <1>5, <2>1, UptoEnds
  <2>3. Len(p) < Len(q) /\ Len(p) + 1 \in 1..Len(q)
    BY <1>1, <2>1, <2>2
  <2>4. q[Len(p) + 1] \in Links
    BY <2>1, <2>3
  <2> QED BY <2>1, <2>3, <2>4 DEF UnderLink
<1>6. p \in Under(t, p) <=> t[p].value # NULL
  BY <1>1, <1>2, <1>3 DEF Under
<1> HIDE DEF Under, UnderLink
<1> QED BY <1>4, <1>5, <1>6 DEF Links

LEMMA UnderChild ==
    ASSUME NEW t, Shaped(t), NEW p \in DOMAIN t, NEW link \in Links
    PROVE  UnderLink(t, p, link) =
               IF Child(p, link) \in DOMAIN t THEN Under(t, Child(p, link)) ELSE {}
<1> DEFINE c == Child(p, link)
<1>1. p \in Seq(Links) /\ Len(p) \in Nat
  BY DEF Shaped
<1>2. /\ c \in Seq(Links) /\ Len(c) = Len(p) + 1 /\ c[Len(p) + 1] = link
      /\ \A i \in 1..Len(p) : c[i] = p[i]
      /\ Upto(c, Len(p)) = p
  <2>1. /\ c \in Seq(Links) /\ Len(c) = Len(p) + 1 /\ c[Len(p) + 1] = link /\ Upto(c, Len(p)) = p
    BY <1>1, ChildFacts
  <2>2. \A i \in 1..Len(p) : c[i] = p[i]
    BY <1>1, AppendProperties DEF Child
  <2> QED BY <2>1, <2>2
<1> HIDE DEF c
<1>3. \A q \in Valued(t) : q \in DOMAIN t /\ q \in Seq(Links) /\ Len(q) \in Nat
  BY DEF Valued, Shaped
<1>4. ASSUME NEW q \in UnderLink(t, p, link) PROVE c \in DOMAIN t /\ q \in Under(t, c)
  <2>1. q \in Valued(t) /\ Len(p) < Len(q) /\ Upto(q, Len(p)) = p /\ q[Len(p) + 1] = link
    BY DEF UnderLink
  <2>2. Len(p) + 1 \in 0..Len(q) /\ Len(p) \in 0..Len(q) /\ Len(c) <= Len(q)
        /\ Len(p) + 1 \in 1..Len(q)
    BY <1>1, <1>2, <1>3, <2>1
  <2>3. /\ Upto(q, Len(c)) \in Seq(Links) /\ Len(Upto(q, Len(c))) = Len(c)
        /\ \A j \in 1..Len(c) : Upto(q, Len(c))[j] = q[j]
    BY <1>2, <1>3, <2>1, <2>2, UptoFacts
  <2>4. \A j \in 1..Len(p) : p[j] = q[j]
    BY <1>3, <2>1, <2>2, UptoFacts
  <2>5. \A j \in 1..Len(c) : Upto(q, Len(c))[j] = c[j]
    <3> SUFFICES ASSUME NEW j \in 1..Len(c) PROVE Upto(q, Len(c))[j] = c[j]
      OBVIOUS
    <3>1. j \in 1..Len(p) \/ j = Len(p) + 1
      BY <1>1, <1>2
    <3> QED BY <1>2, <2>1, <2>3, <2>4, <3>1
  <2>6. Upto(q, Len(c)) = c
    BY <1>2, <2>3, <2>5, SamePosition
  <2>7. c \in DOMAIN t
    BY <1>2, <1>3, <2>1, <2>2, <2>6 DEF Shaped
  <2> QED BY <2>1, <2>2, <2>6, <2>7 DEF Under
<1>5. ASSUME c \in DOMAIN t, NEW q \in Under(t, c) PROVE q \in UnderLink(t, p, link)
  <2>1. q \in Valued(t) /\ Len(c) <= Len(q) /\ Upto(q, Len(c)) = c
    BY DEF Under
  <2>2. /\ Len(c) \in 0..Len(q) /\ Len(p) \in 0..Len(c) /\ Len(p) < Len(q)
        /\ Len(p) + 1 \in 1..Len(c)
    BY <1>1, <1>2, <1>3, <2>1
  <2>3. Upto(q, Len(p)) = p
    BY <1>2, <1>3, <2>1, <2>2, UptoUpto
  <2>4. q[Len(p) + 1] = link
    BY <1>2, <1>3, <2>1, <2>2, UptoFacts
  <2> QED BY <2>1, <2>2, <2>3, <2>4 DEF UnderLink
<1> QED BY <1>4, <1>5 DEF c

\* What a call of _co_tree_process_r comes to, w telling it of the calls it
\* makes.
Below1(t, w, p, link) == IF Child(p, link) \in DOMAIN t THEN w[Child(p, link)] ELSE <<>>
Visited(t, w, p) ==
    (IF t[p].value = NULL THEN <<>> ELSE <<p>>)
    \o Below1(t, w, p, "low") \o Below1(t, w, p, "equal") \o Below1(t, w, p, "high")

LEMMA VisitedFrame ==
    ASSUME NEW t, NEW w, NEW x, NEW p,
           \A link \in Links : Child(p, link) \in DOMAIN t => w[Child(p, link)] = x[Child(p, link)]
    PROVE  Visited(t, w, p) = Visited(t, x, p)
<1>1. \A link \in Links : Below1(t, w, p, link) = Below1(t, x, p, link)
  BY DEF Below1
<1> QED BY <1>1 DEF Visited, Links

\* The recursion ends: the calls for the lowest nodes make no other.
LEMMA VisitsMeans ==
    ASSUME NEW t, Shaped(t)
    PROVE  Visits(t) = [p \in DOMAIN t |-> Visited(t, Visits(t), p)]
<1> DEFINE H == Cardinality(DOMAIN t) + 1
           D(m) == {p \in DOMAIN t : Len(p) + m >= H}
           Run(w, m) == w = [p \in D(m) |-> Visited(t, w, p)]
           hard == {m \in 0..H : ~ \E w : Run(w, m)}
           least == Min(hard)
           R == Visits(t)
<1>1. /\ H \in Nat
      /\ \A p \in DOMAIN t : p \in Seq(Links) /\ Len(p) \in Nat /\ Len(p) < H
  <2>1. IsFiniteSet(DOMAIN t)
    BY DEF Shaped
  <2>2. Cardinality(DOMAIN t) \in Nat
    BY <2>1, FS_CardinalityType
  <2> QED BY <2>2, NodesAreShallow
<1>2. R = CHOOSE w : w = [p \in DOMAIN t |-> Visited(t, w, p)]
  BY DEF Visits, Visited, Below1
<1> HIDE DEF H, R
<1>3. D(H) = DOMAIN t /\ D(0) = {}
  <2>1. \A p \in DOMAIN t : Len(p) + H >= H /\ ~(Len(p) + 0 >= H)
    <3> SUFFICES ASSUME NEW p \in DOMAIN t PROVE Len(p) + H >= H /\ ~(Len(p) + 0 >= H)
      OBVIOUS
    <3>1. H \in Nat /\ Len(p) \in Nat /\ Len(p) < H
      BY <1>1
    <3> QED BY <3>1
  <2> QED BY <2>1, Zenon
<1>4. \A m \in Nat : \A p \in D(m + 1) : \A link \in Links :
          Child(p, link) \in DOMAIN t => Child(p, link) \in D(m)
  <2> SUFFICES ASSUME NEW m \in Nat, NEW p \in D(m + 1), NEW link \in Links,
                      Child(p, link) \in DOMAIN t
               PROVE  Len(Child(p, link)) + m >= H
    OBVIOUS
  <2>1. p \in Seq(Links) /\ Len(p) + (m + 1) >= H
    BY <1>1
  <2>2. Len(Child(p, link)) = Len(p) + 1
    BY <2>1, ChildFacts
  <2> QED BY <1>1, <2>1, <2>2
<1>5. \A m \in Nat : D(m) \subseteq D(m + 1)
  BY <1>1
<1> HIDE DEF D
<1>6. hard = {}
  <2> SUFFICES ASSUME hard # {} PROVE FALSE
    OBVIOUS
  <2>1. hard \subseteq Nat
    BY <1>1
  <2>2. least \in hard /\ \A m \in hard : least <= m
    <3> HIDE DEF hard
    <3> QED BY <2>1, MinFacts
  <2> HIDE DEF least
  <2>3. CASE least = 0
    <3> DEFINE w == [p \in {} |-> NULL]
    <3>1. Run(w, 0)
      <4>1. D(0) = {}
        BY <1>3
      <4> QED BY <4>1
    <3> QED BY <2>2, <2>3, <3>1
  <2>4. CASE least # 0
    <3> DEFINE b == least - 1
    <3>1. least \in 0..H /\ b \in 0..H /\ b \in Nat /\ ~(least <= b) /\ b + 1 = least
      BY <1>1, <2>2, <2>4
    <3> HIDE DEF b
    <3>2. PICK w : Run(w, b)
      BY <2>2, <3>1
    <3> DEFINE x == [p \in D(least) |-> Visited(t, w, p)]
    <3>3. DOMAIN w = D(b) /\ D(b) \subseteq D(least)
      BY <1>5, <3>1, <3>2
    <3>4. \A p \in D(b) : x[p] = w[p]
      BY <3>2, <3>3
    <3>5. \A p \in D(least) : Visited(t, w, p) = Visited(t, x, p)
      <4> SUFFICES ASSUME NEW p \in D(least) PROVE Visited(t, w, p) = Visited(t, x, p)
        OBVIOUS
      <4>1. \A link \in Links : Child(p, link) \in DOMAIN t => Child(p, link) \in D(b)
        BY <1>4, <3>1
      <4> HIDE DEF x
      <4>2. \A link \in Links :
               Child(p, link) \in DOMAIN t => w[Child(p, link)] = x[Child(p, link)]
        BY <3>4, <4>1
      <4> QED BY <4>2, VisitedFrame
    <3>6. Run(x, least)
      <4>1. x = [p \in D(least) |-> Visited(t, x, p)]
        BY <3>5
      <4> QED BY <4>1
    <3> HIDE DEF x, Run
    <3> QED BY <2>2, <3>6
  <2> QED BY <2>3, <2>4
<1>7. H \in 0..H
  BY <1>1
<1>8. \E w : Run(w, H)
  <2> HIDE DEF Run
  <2> QED BY <1>6, <1>7
<1>9. \E w : w = [p \in DOMAIN t |-> Visited(t, w, p)]
  BY <1>3, <1>8
<1>10. R = [p \in DOMAIN t |-> Visited(t, R, p)]
  BY <1>2, <1>9, Zenon
<1> QED BY <1>10 DEF R

\* The call for a node comes to the nodes with a value at and below it, to each
\* once.
LEMMA VisitsFacts ==
    ASSUME NEW t, Shaped(t)
    PROVE  \A p \in DOMAIN t : /\ Visits(t)[p] \in Seq(DOMAIN t) /\ IsInjective(Visits(t)[p])
                               /\ ToSet(Visits(t)[p]) = Under(t, p)
<1> DEFINE H == Cardinality(DOMAIN t)
           v == Visits(t)
           Good(p) == v[p] \in Seq(DOMAIN t) /\ IsInjective(v[p]) /\ ToSet(v[p]) = Under(t, p)
           wrong == {n \in 0..H : \E p \in DOMAIN t : Len(p) = H - n /\ ~Good(p)}
           n == Min(wrong)
<1>1. /\ H \in Nat
      /\ \A p \in DOMAIN t : p \in Seq(Links) /\ Len(p) \in Nat /\ Len(p) <= H
  <2>1. IsFiniteSet(DOMAIN t)
    BY DEF Shaped
  <2> QED BY <2>1, FS_CardinalityType, NodesAreShallow
<1> HIDE DEF H
<1>2. v = [p \in DOMAIN t |-> Visited(t, v, p)]
  BY VisitsMeans
<1> HIDE DEF v
<1>3. wrong = {}
  <2> SUFFICES ASSUME wrong # {} PROVE FALSE
    OBVIOUS
  <2>1. wrong \subseteq Nat
    BY <1>1
  <2>2. n \in wrong /\ \A m \in wrong : n <= m
    <3> HIDE DEF wrong
    <3> QED BY <2>1, MinFacts
  <2> HIDE DEF n
  <2>3. PICK p \in DOMAIN t : Len(p) = H - n /\ ~Good(p)
    BY <2>2
  <2>4. n \in 0..H /\ p \in Seq(Links) /\ Len(p) \in Nat
    BY <1>1, <2>2
  <2>5. ASSUME NEW link \in Links
        PROVE  LET a == Below1(t, v, p, link)
               IN  /\ a \in Seq(DOMAIN t) /\ IsInjective(a)
                   /\ ToSet(a) = UnderLink(t, p, link)
    <3>1. CASE Child(p, link) \in DOMAIN t
      <4> DEFINE c == Child(p, link)
      <4>1. Len(c) = Len(p) + 1 /\ Len(c) <= H
        BY <1>1, <2>4, <3>1, ChildFacts
      <4> HIDE DEF c
      <4>2. n - 1 \in 0..H /\ Len(c) = H - (n - 1) /\ ~(n <= n - 1)
        BY <1>1, <2>3, <2>4, <4>1
      <4>3. n - 1 \notin wrong
        <5> HIDE DEF wrong
        <5> QED BY <2>2, <4>2
      <4>4. Good(c)
        BY <3>1, <4>2, <4>3 DEF c
      <4>5. UnderLink(t, p, link) = Under(t, c)
        BY <3>1, UnderChild DEF c
      <4>6. Below1(t, v, p, link) = v[c]
        BY <3>1 DEF Below1, c
      <4> QED BY <4>4, <4>5, <4>6
    <3>2. CASE Child(p, link) \notin DOMAIN t
      <4>1. Below1(t, v, p, link) = <<>> /\ UnderLink(t, p, link) = {}
        BY <3>2, UnderChild DEF Below1
      <4>2. <<>> \in Seq(DOMAIN t) /\ IsInjective(<<>>) /\ ToSet(<<>>) = {}
        BY DEF IsInjective, ToSet
      <4> QED BY <4>1, <4>2
    <3> QED BY <3>1, <3>2
  <2> DEFINE s == IF t[p].value = NULL THEN <<>> ELSE <<p>>
             own == IF t[p].value = NULL THEN {} ELSE {p}
             Low == Below1(t, v, p, "low")
             Equal == Below1(t, v, p, "equal")
             High == Below1(t, v, p, "high")
  <2>6. s \in Seq(DOMAIN t) /\ IsInjective(s) /\ ToSet(s) = own
    <3>1. <<>> \in Seq(DOMAIN t) /\ IsInjective(<<>>) /\ ToSet(<<>>) = {}
      BY DEF IsInjective, ToSet
    <3>2. <<p>> \in Seq(DOMAIN t) /\ IsInjective(<<p>>) /\ ToSet(<<p>>) = {p}
      BY DEF IsInjective, ToSet
    <3>3. CASE t[p].value = NULL
      BY <3>1, <3>3
    <3>4. CASE t[p].value # NULL
      BY <3>2, <3>4
    <3> QED BY <3>3, <3>4
  <2>7. /\ Low \in Seq(DOMAIN t) /\ IsInjective(Low) /\ ToSet(Low) = UnderLink(t, p, "low")
        /\ Equal \in Seq(DOMAIN t) /\ IsInjective(Equal)
        /\ ToSet(Equal) = UnderLink(t, p, "equal")
        /\ High \in Seq(DOMAIN t) /\ IsInjective(High) /\ ToSet(High) = UnderLink(t, p, "high")
    BY <2>5 DEF Links
  <2>8. /\ Under(t, p) = own \cup UnderLink(t, p, "low") \cup UnderLink(t, p, "equal")
                         \cup UnderLink(t, p, "high")
        /\ own \cap UnderLink(t, p, "low") = {}
        /\ (own \cup UnderLink(t, p, "low")) \cap UnderLink(t, p, "equal") = {}
        /\ (own \cup UnderLink(t, p, "low") \cup UnderLink(t, p, "equal"))
              \cap UnderLink(t, p, "high") = {}
    <3>1. \A a, b \in Links : a # b => UnderLink(t, p, a) \cap UnderLink(t, p, b) = {}
      BY DEF UnderLink
    <3>2. UnderLink(t, p, "low") \cap UnderLink(t, p, "equal") = {}
      BY <3>1 DEF Links
    <3>3. UnderLink(t, p, "low") \cap UnderLink(t, p, "high") = {}
      BY <3>1 DEF Links
    <3>4. UnderLink(t, p, "equal") \cap UnderLink(t, p, "high") = {}
      BY <3>1 DEF Links
    <3>5. p \notin UnderLink(t, p, "low") /\ p \notin UnderLink(t, p, "equal")
          /\ p \notin UnderLink(t, p, "high")
      BY UnderParts DEF Links
    <3>6. Under(t, p) = own \cup UnderLink(t, p, "low") \cup UnderLink(t, p, "equal")
                         \cup UnderLink(t, p, "high")
      BY UnderParts
    <3> QED BY <3>2, <3>3, <3>4, <3>5, <3>6
  <2>9. v[p] = ((s \o Low) \o Equal) \o High
    BY <1>2 DEF Visited
  <2> HIDE DEF s, own, Low, Equal, High
  <2> DEFINE a == s \o Low
             b == a \o Equal
  <2>10. a \in Seq(DOMAIN t) /\ IsInjective(a) /\ ToSet(a) = own \cup UnderLink(t, p, "low")
    BY <2>6, <2>7, <2>8, JoinFacts
  <2> HIDE DEF a
  <2>11. /\ b \in Seq(DOMAIN t) /\ IsInjective(b)
         /\ ToSet(b) = own \cup UnderLink(t, p, "low") \cup UnderLink(t, p, "equal")
    BY <2>7, <2>8, <2>10, JoinFacts
  <2>12. v[p] = b \o High
    BY <2>9 DEF a
  <2> HIDE DEF b
  <2>13. Good(p)
    <3>1. ToSet(b) \cap ToSet(High) = {}
      BY <2>7, <2>8, <2>11
    <3>2. /\ b \o High \in Seq(DOMAIN t) /\ IsInjective(b \o High)
          /\ ToSet(b \o High) = ToSet(b) \cup ToSet(High)
      BY <2>7, <2>11, <3>1, JoinFacts
    <3> QED BY <2>7, <2>8, <2>11, <2>12, <3>2
  <2> QED BY <2>3, <2>13
<1> SUFFICES ASSUME NEW p \in DOMAIN t PROVE Good(p)
  BY DEF v
<1>4. H - Len(p) \in 0..H /\ Len(p) = H - (H - Len(p))
  BY <1>1
<1>5. H - Len(p) \notin wrong
  BY <1>3, Zenon
<1> QED BY <1>4, <1>5

\* co_tree_process comes to every node with a value, once.
LEMMA PreorderFacts ==
    ASSUME NEW t, Shaped(t)
    PROVE  /\ Preorder(t) \in Seq(DOMAIN t) /\ IsInjective(Preorder(t))
           /\ ToSet(Preorder(t)) = Valued(t)
<1>1. CASE Root \in DOMAIN t
  <2>1. Under(t, Root) = Valued(t)
    <3> SUFFICES ASSUME NEW q \in Valued(t) PROVE Len(Root) <= Len(q) /\ Upto(q, Len(Root)) = Root
      BY DEF Under
    <3>1. q \in Seq(Links) /\ Len(q) \in Nat /\ Len(Root) = 0
      BY DEF Valued, Shaped, Root
    <3> QED BY <3>1, UptoEnds
  <2> QED BY <1>1, <2>1, VisitsFacts DEF Preorder
<1>2. CASE Root \notin DOMAIN t
  <2>1. Valued(t) = {}
    <3> SUFFICES ASSUME NEW q \in DOMAIN t PROVE FALSE
      BY DEF Valued
    <3>1. q \in Seq(Links) /\ 0 \in 0..Len(q)
      BY DEF Shaped
    <3>2. Upto(q, 0) = Root
      BY <3>1, UptoEnds
    <3> QED BY <1>2, <3>1, <3>2 DEF Shaped
  <2>2. Preorder(t) = <<>>
    BY <1>2 DEF Preorder
  <2>3. <<>> \in Seq(DOMAIN t) /\ IsInjective(<<>>) /\ ToSet(<<>>) = {}
    BY DEF IsInjective, ToSet
  <2> QED BY <2>1, <2>2, <2>3
<1> QED BY <1>1, <1>2

-----------------------------------------------------------------------------
(* Responses.                                                              *)

\* What an insertion of a new key adds to a tree: the nodes new, one of them e
\* with the key and the value.
AddedAt(t, u, k, v, e) ==
    /\ e \in DOMAIN u /\ e \notin DOMAIN t /\ u[e].key = k /\ u[e].value = v
    /\ \A q \in DOMAIN t : q \in DOMAIN u /\ u[q] = t[q]
    /\ \A q \in DOMAIN u : q # e /\ q \notin DOMAIN t =>
           u[q].splitchar # 0 /\ u[q].key = NULL /\ u[q].value = NULL
    /\ EndsAt(u, k, e)
    /\ \A m : \A q \in DOMAIN t : EndsAt(t, m, q) => EndsAt(u, m, q)

LEMMA AddedFacts ==
    ASSUME NEW t, Shaped(t), NEW k, IsKey(k), ~HasNode(t, k), NEW v
    PROVE  LET u == Inserted(t, k, v) IN Shaped(u) /\ \E e : AddedAt(t, u, k, v, e)
<1> DEFINE u == Inserted(t, k, v)
           g == Grown(t, k)
           p == co_tree_find_node(t, k)
           e == co_tree_find_node(g, k)
           L == Len(k) - IndexAt(p)
           x == Below(p, L)
<1>1. /\ IsString(k) /\ k \in Seq(Nat) /\ Len(k) \in Nat /\ EndsAt(t, k, p)
      /\ p \notin DOMAIN t
      /\ \A i \in 1..Len(k) : k[i] \in Nat /\ (k[i] = 0 <=> i = Len(k))
  <2>1. IsString(k) /\ k \in Seq(Nat)
    BY DEF IsKey, IsString
  <2>2. EndsAt(t, k, p)
    BY <2>1, FindEnds DEF Shaped
  <2>3. \A i \in 1..Len(k) : k[i] \in Nat /\ (k[i] = 0 <=> i = Len(k))
    BY <2>1 DEF IsKey
  <2> QED BY <2>1, <2>2, <2>3 DEF HasNode
<1>2. u = Filled(g, e, k, v)
  BY InsertedFills
<1>3. GrownAt(t, g, k, p, L)
  <2>1. co_tree_find_node(t, k) = p
    OBVIOUS
  <2> HIDE DEF p, g
  <2> QED BY <1>1, <2>1, GrownFacts DEF g
<1> HIDE DEF p
<1>4. /\ L \in Nat /\ IndexAt(p) \in Nat \ {0} /\ p \in Seq(Links)
      /\ x \notin DOMAIN t /\ x \in DOMAIN g /\ EndsAt(g, k, x)
      /\ DOMAIN g = DOMAIN t \cup {Below(p, m) : m \in 0..L}
      /\ \A q \in DOMAIN t : g[q] = t[q]
      /\ \A m \in 0..L : g[Below(p, m)] = [splitchar |-> k[IndexAt(p) + m],
                                           key |-> NULL, value |-> NULL]
      /\ IsFiniteSet(DOMAIN g)
      /\ \A q \in DOMAIN g : q \in Seq(Links)
      /\ \A q \in DOMAIN g : \A i \in 0..Len(q) : Upto(q, i) \in DOMAIN g
  <2> HIDE DEF g, L
  <2> QED BY <1>3, Zenon DEF GrownAt
<1>5. e = x
  <2> HIDE DEF g, x
  <2> QED BY <1>4, FindFacts
<1>6. \A m \in 0..L : /\ g[Below(p, m)].key = NULL /\ g[Below(p, m)].value = NULL
                      /\ g[Below(p, m)].splitchar \in Nat
                      /\ Below(p, m) # x => g[Below(p, m)].splitchar # 0
  <2> SUFFICES ASSUME NEW m \in 0..L
               PROVE  /\ g[Below(p, m)].key = NULL /\ g[Below(p, m)].value = NULL
                      /\ g[Below(p, m)].splitchar \in Nat
                      /\ Below(p, m) # x => g[Below(p, m)].splitchar # 0
    OBVIOUS
  <2>1. g[Below(p, m)] = [splitchar |-> k[IndexAt(p) + m], key |-> NULL, value |-> NULL]
    BY <1>4
  <2>2. IndexAt(p) + m \in 1..Len(k) /\ (m # L => IndexAt(p) + m # Len(k))
    <3>1. L = Len(k) - IndexAt(p)
      OBVIOUS
    <3>2. L \in Nat /\ IndexAt(p) \in Nat \ {0} /\ Len(k) \in Nat
      <4> HIDE DEF L, x
      <4> QED BY <1>1, <1>4, Zenon
    <3> HIDE DEF L
    <3> QED BY <3>1, <3>2
  <2>3. k[IndexAt(p) + m] \in Nat /\ (m # L => k[IndexAt(p) + m] # 0)
    <3> HIDE DEF L
    <3> QED BY <1>1, <2>2
  <2>4. m = L => Below(p, m) = x
    OBVIOUS
  <2> HIDE DEF L, x, g
  <2> QED BY <2>1, <2>3, <2>4
<1> DEFINE D == {Below(p, m) : m \in 0..L}
<1>7. \A q \in DOMAIN g : q \in DOMAIN t \/ q \in D
  <2> HIDE DEF g, L
  <2> QED BY <1>4
<1>8. \A q \in D : /\ g[q].key = NULL /\ g[q].value = NULL /\ g[q].splitchar \in Nat
                   /\ q # x => g[q].splitchar # 0
  <2> HIDE DEF g, L, x
  <2> QED BY <1>6
<1>9. x \in D /\ g[x] = [splitchar |-> g[x].splitchar, key |-> NULL, value |-> NULL]
  <2>1. L \in 0..L
    <3>1. L \in Nat
      <4> HIDE DEF L, x
      <4> QED BY <1>4, Zenon
    <3> HIDE DEF L
    <3> QED BY <3>1
  <2>2. g[Below(p, L)] = [splitchar |-> k[IndexAt(p) + L], key |-> NULL, value |-> NULL]
    <3> HIDE DEF L, g
    <3> QED BY <1>4, <2>1
  <2> HIDE DEF L, g
  <2> QED BY <2>1, <2>2
<1>10. /\ DOMAIN u = DOMAIN g /\ u[x].key = k /\ u[x].value = v
       /\ u[x].splitchar = g[x].splitchar
       /\ \A q \in DOMAIN g : q # x => u[q] = g[q]
  <2>1. u = [g EXCEPT ![x].key = k, ![x].value = v]
    BY <1>2, <1>5 DEF Filled
  <2> HIDE DEF x, g, u
  <2> QED BY <1>4, <1>9, <2>1
<1> HIDE DEF u, g, e, x, L, D
<1>11. \A q \in DOMAIN g : u[q].splitchar = g[q].splitchar
  BY <1>10
<1>12. \A m : \A q \in DOMAIN g : EndsAt(g, m, q) => EndsAt(u, m, q)
  <2> SUFFICES ASSUME NEW m, NEW q \in DOMAIN g, EndsAt(g, m, q) PROVE EndsAt(u, m, q)
    OBVIOUS
  <2>1. \A i \in 0..Len(q) : Upto(q, i) \in DOMAIN u
    BY <1>4, <1>10
  <2> QED BY <1>10, <1>11, <2>1, EndsFrame
<1>13. \A m : \A q \in DOMAIN t : EndsAt(t, m, q) => EndsAt(u, m, q)
  <2> SUFFICES ASSUME NEW m, NEW q \in DOMAIN t, EndsAt(t, m, q) PROVE EndsAt(u, m, q)
    OBVIOUS
  <2>1. q \in DOMAIN g
    BY <1>4
  <2>2. \A i \in 0..Len(q) : Upto(q, i) \in DOMAIN g
    BY <1>4, <2>1
  <2>3. \A y \in DOMAIN t : g[y].splitchar = t[y].splitchar
    BY <1>4
  <2>4. EndsAt(g, m, q)
    BY <2>1, <2>2, <2>3, EndsFrame
  <2> QED BY <1>12, <2>1, <2>4
<1>14. Shaped(u)
  <2>1. \A q \in DOMAIN g : g[q].splitchar \in Nat
    BY <1>4, <1>7, <1>8 DEF Shaped
  <2> QED BY <1>4, <1>10, <1>11, <2>1 DEF Shaped
<1>15. AddedAt(t, u, k, v, x)
  <2>1. \A q \in DOMAIN t : q \in DOMAIN u /\ u[q] = t[q]
    BY <1>4, <1>10
  <2>2. \A q \in DOMAIN u : q # x /\ q \notin DOMAIN t =>
           u[q].splitchar # 0 /\ u[q].key = NULL /\ u[q].value = NULL
    BY <1>7, <1>8, <1>10
  <2> QED BY <1>4, <1>10, <1>12, <1>13, <2>1, <2>2 DEF AddedAt
<1> QED BY <1>14, <1>15 DEF u

\* A response: the key of a node is the one whose way ends there, and its
\* length is the number of its values.
Kept(t) ==
    /\ Shaped(t)
    /\ \A p \in DOMAIN t : /\ t[p].key # NULL <=> t[p].value # NULL
                           /\ t[p].key # NULL => IsKey(t[p].key) /\ EndsAt(t, t[p].key, p)
                           /\ t[p].splitchar = 0 => t[p].key # NULL

Whole(r) == Kept(r.tree) /\ r.len = Cardinality(Valued(r.tree))

HeldKeys(t) == {t[p].key : p \in Valued(t)}
HeldValues(t) == {t[p].value : p \in Valued(t)}

LEMMA KeyIsNew ==
    ASSUME NEW t, Kept(t), NEW k, IsKey(k), k \notin HeldKeys(t)
    PROVE  ~HasNode(t, k)
<1> DEFINE p == co_tree_find_node(t, k)
<1> SUFFICES ASSUME p \in DOMAIN t PROVE FALSE
  BY DEF HasNode
<1>1. EndsAt(t, k, p)
  BY FindEnds DEF Kept, Shaped, IsKey
<1> HIDE DEF p
<1>2. LinkAt(t, k, p) = "equal" /\ IndexAt(p) = Len(k)
  BY <1>1 DEF EndsAt, Ends
<1>3. k[Len(k)] = 0
  <2>1. Len(k) \in DOMAIN k
    BY EmptySeq DEF IsKey, IsString
  <2> QED BY <2>1 DEF IsKey
<1>4. t[p].splitchar = 0
  BY <1>2, <1>3 DEF LinkAt, Branch
<1>5. t[p].key # NULL /\ IsKey(t[p].key) /\ EndsAt(t, t[p].key, p) /\ p \in Valued(t)
  BY <1>4 DEF Kept, Valued
<1>6. t[p].key = k
  BY <1>1, <1>5, SameKey DEF IsKey
<1> QED BY <1>5, <1>6 DEF HeldKeys

LEMMA NothingHeld == Whole(EmptyReply) /\ HeldKeys(EmptyTree) = {} /\ HeldValues(EmptyTree) = {}
<1>1. EmptyReply.tree = EmptyTree /\ EmptyReply.len = 0 /\ DOMAIN EmptyTree = {}
  BY DEF EmptyReply, EmptyTree
<1>2. Valued(EmptyTree) = {} /\ Kept(EmptyTree)
  BY <1>1, FS_EmptySet DEF Valued, Kept, Shaped
<1>3. Cardinality({}) = 0
  BY FS_EmptySet
<1> QED BY <1>1, <1>2, <1>3 DEF Whole, HeldKeys, HeldValues

\* One pair more in a response.
LEMMA ReplyGrows ==
    ASSUME NEW r, Whole(r), NEW k, IsKey(k), k # NULL, k \notin HeldKeys(r.tree), NEW v, v # NULL,
           LenMod \in Nat, r.len + 1 < LenMod
    PROVE  LET s == ReplyWith(r, k, v)
           IN  /\ Whole(s) /\ s.len = r.len + 1
               /\ HeldKeys(s.tree) = HeldKeys(r.tree) \cup {k}
               /\ HeldValues(s.tree) = HeldValues(r.tree) \cup {v}
<1> DEFINE t == r.tree
           u == Inserted(t, k, v)
           s == ReplyWith(r, k, v)
<1>1. ~HasNode(t, k) /\ Kept(t) /\ Shaped(t) /\ r.len = Cardinality(Valued(t))
  BY KeyIsNew DEF Whole, Kept
<1>2. s.tree = u /\ s.len = (r.len + 1) % LenMod
  BY <1>1 DEF ReplyWith
<1>3. Shaped(u) /\ \E e : AddedAt(t, u, k, v, e)
  <2> HIDE DEF t
  <2> QED BY <1>1, AddedFacts
<1>4. PICK e : AddedAt(t, u, k, v, e)
  BY <1>3
<1> HIDE DEF t, u, s
<1>5. /\ e \in DOMAIN u /\ e \notin DOMAIN t /\ u[e].key = k /\ u[e].value = v
      /\ \A q \in DOMAIN t : q \in DOMAIN u /\ u[q] = t[q]
      /\ \A q \in DOMAIN u : q # e /\ q \notin DOMAIN t =>
             u[q].splitchar # 0 /\ u[q].key = NULL /\ u[q].value = NULL
      /\ EndsAt(u, k, e)
      /\ \A m : \A q \in DOMAIN t : EndsAt(t, m, q) => EndsAt(u, m, q)
  BY <1>4 DEF AddedAt
<1>6. Kept(u)
  <2> SUFFICES ASSUME NEW p \in DOMAIN u
               PROVE  /\ u[p].key # NULL <=> u[p].value # NULL
                      /\ u[p].key # NULL => IsKey(u[p].key) /\ EndsAt(u, u[p].key, p)
                      /\ u[p].splitchar = 0 => u[p].key # NULL
    BY <1>3 DEF Kept
  <2>1. CASE p = e
    BY <1>5, <2>1
  <2>2. CASE p \in DOMAIN t
    BY <1>1, <1>5, <2>2 DEF Kept
  <2>3. CASE p # e /\ p \notin DOMAIN t
    BY <1>5, <2>3
  <2> QED BY <2>1, <2>2, <2>3
<1>7. Valued(u) = Valued(t) \cup {e} /\ e \notin Valued(t)
  BY <1>5 DEF Valued
<1>8. IsFiniteSet(Valued(t))
  BY <1>1, FS_Subset DEF Valued, Shaped
<1>9. Cardinality(Valued(t)) \in Nat /\ Cardinality(Valued(u)) = Cardinality(Valued(t)) + 1
  BY <1>7, <1>8, FS_AddElement, FS_CardinalityType
<1>10. s.len = r.len + 1
  <2>1. r.len + 1 \in 0..(LenMod - 1)
    BY <1>1, <1>9
  <2> QED BY <1>1, <1>2, <1>9, <2>1
<1>11. /\ HeldKeys(u) = HeldKeys(t) \cup {k}
       /\ HeldValues(u) = HeldValues(t) \cup {v}
  <2>1. \A p \in Valued(t) : u[p] = t[p]
    BY <1>5 DEF Valued
  <2> QED BY <1>5, <1>7, <2>1 DEF HeldKeys, HeldValues
<1>12. Whole(s)
  BY <1>1, <1>2, <1>6, <1>9, <1>10 DEF Whole
<1> QED BY <1>2, <1>10, <1>11, <1>12 DEF t, s

\* co_tree_process hands out each value of a tree as often as there are nodes
\* with it.
LEMMA ProcessFacts ==
    ASSUME NEW t, Shaped(t)
    PROVE  LET l == co_tree_process(t)
           IN  /\ DOMAIN l = 1..Len(l) /\ Len(l) = Cardinality(Valued(t))
               /\ l = [i \in 1..Len(l) |-> t[Preorder(t)[i]].value]
               /\ Preorder(t) \in Seq(DOMAIN t) /\ Len(Preorder(t)) = Len(l)
               /\ IsInjective(Preorder(t)) /\ ToSet(l) = HeldValues(t)
<1> DEFINE o == Preorder(t)
           l == co_tree_process(t)
<1>1. /\ o \in Seq(DOMAIN t) /\ IsInjective(o) /\ ToSet(o) = Valued(t)
  BY PreorderFacts
<1>2. Cardinality(Valued(t)) = Len(o)
  BY <1>1, InjectiveCounts
<1>3. DOMAIN o = 1..Len(o) /\ Len(o) \in Nat
  BY <1>1
<1>4. l = [i \in 1..Len(o) |-> t[o[i]].value]
  BY <1>3 DEF co_tree_process
<1>5. Len(l) = Len(o)
  <2> HIDE DEF o, l
  <2> QED BY <1>3, <1>4
<1>6. ToSet(l) = {t[o[i]].value : i \in 1..Len(o)}
  BY <1>3, <1>4 DEF ToSet
<1>7. Valued(t) = {o[i] : i \in 1..Len(o)}
  BY <1>1, <1>3 DEF ToSet
<1> HIDE DEF o, l
<1>8. ToSet(l) = HeldValues(t)
  BY <1>6, <1>7 DEF HeldValues
<1> QED BY <1>1, <1>2, <1>3, <1>4, <1>5, <1>8 DEF o, l

\* What a response with these pairs has to be.
TellsAll(r, names) ==
    /\ Whole(r) /\ r.len = Cardinality(names)
    /\ HeldValues(r.tree) = {co_cmd_usage(n) : n \in names}

\* The commands that co_cmd_process comes to.
LEMMA NamesFacts ==
    ASSUME RegistryAssumption, Named(_cmds),
           registered = {_cmds[p].value : p \in DOMAIN _cmds} \ {NULL}
    PROVE  LET l == co_tree_process(_cmds)
           IN  /\ l \in Seq(Names) /\ IsInjective(l) /\ ToSet(l) = registered
               /\ Len(l) = Cardinality(registered)
<1> DEFINE l == co_tree_process(_cmds)
           o == Preorder(_cmds)
<1>1. /\ DOMAIN l = 1..Len(l) /\ Len(l) = Cardinality(Valued(_cmds))
      /\ l = [i \in 1..Len(l) |-> _cmds[o[i]].value]
      /\ o \in Seq(DOMAIN _cmds) /\ Len(o) = Len(l)
      /\ IsInjective(o) /\ ToSet(l) = HeldValues(_cmds)
  BY ProcessFacts DEF Named
<1>2. HeldValues(_cmds) = registered
  BY DEF HeldValues, Valued
<1>3. registered \subseteq Names
  BY DEF Named, CommandNode
<1>4. \A p, q \in Valued(_cmds) : _cmds[p].value = _cmds[q].value => p = q
  <2> SUFFICES ASSUME NEW p \in Valued(_cmds), NEW q \in Valued(_cmds),
                      _cmds[p].value = _cmds[q].value
               PROVE  p = q
    OBVIOUS
  <2>1. EndsAt(_cmds, _cmds[p].value, p) /\ EndsAt(_cmds, _cmds[p].value, q)
    BY DEF Valued, Named
  <2> QED BY <2>1, FindFacts DEF Named, Shaped
<1>5. ToSet(o) = Valued(_cmds)
  BY PreorderFacts DEF Named
<1> HIDE DEF l, o
<1>6. Len(l) \in Nat /\ \A i \in 1..Len(l) : o[i] \in Valued(_cmds) /\ l[i] = _cmds[o[i]].value
  <2>1. Len(o) \in Nat /\ \A i \in 1..Len(o) : o[i] \in ToSet(o)
    BY <1>1 DEF ToSet
  <2> QED BY <1>1, <1>5, <2>1
<1>7. \A i, j \in 1..Len(l) : l[i] = l[j] => i = j
  <2> SUFFICES ASSUME NEW i \in 1..Len(l), NEW j \in 1..Len(l), l[i] = l[j] PROVE i = j
    OBVIOUS
  <2>1. o[i] = o[j]
    BY <1>4, <1>6
  <2>2. i \in DOMAIN o /\ j \in DOMAIN o
    BY <1>1, <1>6
  <2> QED BY <1>1, <2>1, <2>2 DEF IsInjective
<1>8. \A i \in 1..Len(l) : l[i] \in ToSet(l)
  BY <1>1 DEF ToSet
<1>9. l \in Seq(Names)
  <2>1. l \in [1..Len(l) -> Names]
    BY <1>1, <1>2, <1>3, <1>8
  <2> QED BY <1>6, <2>1, SeqDef
<1>10. IsInjective(l)
  BY <1>1, <1>7 DEF IsInjective
<1>11. Len(l) = Cardinality(registered)
  BY <1>1, <1>2, <1>9, <1>10, InjectiveCounts
<1> QED BY <1>1, <1>2, <1>9, <1>10, <1>11 DEF l

\* A request's key, with its terminator.
LEMMA TerminatedFacts ==
    ASSUME RegistryAssumption
    PROVE  /\ \A n \in Asked : IsKey(Terminated(n))
           /\ \A m, n \in Asked : Terminated(m) = Terminated(n) => m = n
<1>1. ASSUME NEW n \in Asked PROVE IsKey(Terminated(n))
  <2>1. n \in Seq(Nat \ {0}) /\ n \in Seq(Nat)
    BY DEF RegistryAssumption
  <2>2. /\ Terminated(n) \in Seq(Nat) /\ Len(Terminated(n)) = Len(n) + 1 /\ Len(n) \in Nat
        /\ \A i \in 1..Len(n) : Terminated(n)[i] = n[i] /\ n[i] # 0
        /\ Terminated(n)[Len(n) + 1] = 0
    BY <2>1, AppendProperties DEF Terminated
  <2>3. DOMAIN Terminated(n) = 1..Len(n) + 1
    BY <2>2
  <2>4. \A i \in DOMAIN Terminated(n) : Terminated(n)[i] = 0 <=> i = Len(Terminated(n))
    <3> SUFFICES ASSUME NEW i \in 1..Len(n) + 1
                 PROVE  Terminated(n)[i] = 0 <=> i = Len(n) + 1
      BY <2>2, <2>3
    <3>1. (i \in 1..Len(n) /\ i # Len(n) + 1) \/ i = Len(n) + 1
      BY <2>2
    <3> QED BY <2>2, <3>1
  <2>5. Terminated(n) # <<>>
    BY <2>2
  <2> QED BY <2>2, <2>4, <2>5 DEF IsKey, IsString
<1>2. ASSUME NEW m \in Asked, NEW n \in Asked, Terminated(m) = Terminated(n) PROVE m = n
  <2>1. m \in Seq(Nat \ {0}) /\ n \in Seq(Nat \ {0})
    BY DEF RegistryAssumption
  <2>2. /\ Len(Terminated(m)) = Len(m) + 1 /\ Len(Terminated(n)) = Len(n) + 1
        /\ \A i \in 1..Len(m) : Terminated(m)[i] = m[i]
        /\ \A i \in 1..Len(n) : Terminated(n)[i] = n[i]
        /\ Len(m) \in Nat /\ Len(n) \in Nat
    BY <2>1, AppendProperties DEF Terminated
  <2>3. Len(m) + 1 = Len(n) + 1
    BY <1>2, <2>2
  <2>4. Len(m) = Len(n)
    BY <2>2, <2>3
  <2> QED BY <1>2, <2>1, <2>2, <2>4, SeqEqual
<1> QED BY <1>1, <1>2

\* No part of a response is the null pointer.
LEMMA AnswersFacts ==
    ASSUME CommandsAssumption, NEW n \in Asked
    PROVE  /\ co_cmd_usage(n) # NULL /\ <<"desc", n>> # NULL /\ <<"result", n>> # NULL
           /\ <<"error", n>> # NULL /\ Terminated(n) # NULL
<1>1. \A w \in {"usage", "desc", "result", "error"} : <<w, n>> \in Pairs
  BY DEF Pairs
<1>2. NULL \notin Pairs /\ NULL \notin {Terminated(m) : m \in Asked}
  BY DEF CommandsAssumption
<1> QED BY <1>1, <1>2 DEF co_cmd_usage

\* The first n turns of _cmd_help_i.
Helped(f, names, N) ==
    f = [n \in 0..N |-> IF n = 0 THEN EmptyReply
                        ELSE ReplyWith(f[n - 1], Terminated(names[n]), co_cmd_usage(names[n]))]

LEMMA HelpMeans ==
    ASSUME NEW names, NEW N \in Nat
    PROVE  \E f : Helped(f, names, N)
<1> DEFINE Step(r, n) == ReplyWith(r, Terminated(names[n]), co_cmd_usage(names[n]))
           Run(w, m) == w = [n \in 0..m |-> IF n = 0 THEN EmptyReply ELSE Step(w[n - 1], n)]
           hard == {m \in 0..N : ~ \E w : Run(w, m)}
           least == Min(hard)
<1>1. \A w, m : Run(w, m) <=> Helped(w, names, m)
  BY DEF Helped
<1> HIDE DEF Step
<1>2. hard = {}
  <2> SUFFICES ASSUME hard # {} PROVE FALSE
    OBVIOUS
  <2>1. hard \subseteq Nat
    OBVIOUS
  <2>2. least \in hard /\ \A m \in hard : least <= m
    <3> HIDE DEF hard
    <3> QED BY <2>1, MinFacts
  <2> HIDE DEF least
  <2>3. CASE least = 0
    <3> DEFINE w == [n \in 0..0 |-> EmptyReply]
    <3>1. Run(w, 0)
      OBVIOUS
    <3> QED BY <2>2, <2>3, <3>1
  <2>4. CASE least # 0
    <3>1. least \in 0..N /\ least - 1 \in 0..N /\ ~(least <= least - 1)
      BY <2>2, <2>4
    <3>2. PICK w : Run(w, least - 1)
      BY <2>2, <3>1
    <3> DEFINE x == [n \in 0..least |-> IF n = least THEN Step(w[least - 1], least) ELSE w[n]]
    <3>3. \A n \in 0..least : x[n] = IF n = 0 THEN EmptyReply ELSE Step(x[n - 1], n)
      <4> SUFFICES ASSUME NEW n \in 0..least
                   PROVE  x[n] = IF n = 0 THEN EmptyReply ELSE Step(x[n - 1], n)
        OBVIOUS
      <4>1. CASE n = least
        <5>1. x[n] = Step(w[least - 1], least) /\ n # 0 /\ n - 1 = least - 1
          BY <2>4, <4>1
        <5>2. x[n - 1] = w[least - 1]
          BY <3>1, <4>1
        <5> HIDE DEF x
        <5> QED BY <4>1, <5>1, <5>2
      <4>2. CASE n # least
        <5>1. n \in 0..least - 1 /\ (n # 0 => n - 1 \in 0..least /\ n - 1 # least)
          BY <3>1, <4>2
        <5>2. x[n] = w[n] /\ (n # 0 => x[n - 1] = w[n - 1])
          BY <4>2, <5>1
        <5> HIDE DEF x
        <5> QED BY <3>2, <5>1, <5>2
      <4> QED BY <4>1, <4>2
    <3>4. Run(x, least)
      BY <3>3
    <3> HIDE DEF x, Run
    <3> QED BY <2>2, <3>4
  <2> QED BY <2>3, <2>4
<1>3. N \in 0..N
  OBVIOUS
<1>4. \E w : Run(w, N)
  <2> HIDE DEF Run
  <2> QED BY <1>2, <1>3
<1> HIDE DEF Run
<1> QED BY <1>1, <1>4

\* The response of help without parameters tells the usage of every command.
LEMMA HelpFacts ==
    ASSUME CommandsAssumption, FewCommands, RegistryInv
    PROVE  TellsAll(HelpAll, registered)
<1> DEFINE names == co_tree_process(_cmds)
           N == Len(names)
           First(n) == {names[i] : i \in 1..n}
           f == CHOOSE g : Helped(g, names, N)
           Good(n) == /\ Whole(f[n]) /\ f[n].len = n
                      /\ HeldKeys(f[n].tree) = {Terminated(m) : m \in First(n)}
                      /\ HeldValues(f[n].tree) = {co_cmd_usage(m) : m \in First(n)}
           wrong == {n \in 0..N : ~Good(n)}
           least == Min(wrong)
<1>1. /\ names \in Seq(Names) /\ IsInjective(names) /\ ToSet(names) = registered
      /\ N = Cardinality(registered) /\ N \in Nat
  <2>1. /\ names \in Seq(Names) /\ IsInjective(names) /\ ToSet(names) = registered
        /\ N = Cardinality(registered)
    BY NamesFacts DEF CommandsAssumption, RegistryInv
  <2> QED BY <2>1
<1>N. names \in Seq(Names) /\ IsInjective(names) /\ N \in Nat
  BY <1>1
<1>2. HelpAll = f[N]
  BY DEF HelpAll, Helped
<1> HIDE DEF names
<1>3. Helped(f, names, N)
  <2>1. \E g : Helped(g, names, N)
    BY <1>1, HelpMeans
  <2> QED BY <2>1, Zenon
<1> HIDE DEF f
<1>4. N < LenMod /\ LenMod \in Nat
  <2>1. registered \subseteq Names
    BY DEF RegistryInv, RegistryType
  <2>2. /\ Cardinality(registered) <= Cardinality(Names) /\ Cardinality(Names) \in Nat
    BY <2>1, FS_Subset, FS_CardinalityType DEF FewCommands
  <2>3. Cardinality(Names) < LenMod /\ LenMod \in Nat
    BY DEF CommandsAssumption, FewCommands
  <2> QED BY <1>1, <2>2, <2>3
<1>5. DOMAIN names = 1..N /\ \A i \in 1..N : names[i] \in Names
  <2>1. names \in Seq(Names) /\ Len(names) \in Nat
    BY <1>N
  <2>2. DOMAIN names = 1..Len(names)
    BY <2>1
  <2>3. \A i \in 1..Len(names) : names[i] \in Names
    BY <2>1
  <2> QED BY <2>2, <2>3
<1> HIDE DEF N
<1>6. wrong = {}
  <2> SUFFICES ASSUME wrong # {} PROVE FALSE
    OBVIOUS
  <2>1. wrong \subseteq Nat
    BY <1>N
  <2>2. least \in wrong /\ \A m \in wrong : least <= m
    <3> HIDE DEF wrong
    <3> QED BY <2>1, MinFacts
  <2> HIDE DEF least
  <2>3. CASE least = 0
    <3>1. f[0] = EmptyReply
      BY <1>N, <1>3 DEF Helped
    <3>2. First(0) = {}
      OBVIOUS
    <3>3. EmptyReply.tree = EmptyTree /\ EmptyReply.len = 0
      BY DEF EmptyReply
    <3>4. Good(0)
      <4> HIDE DEF First
      <4> QED BY <3>1, <3>2, <3>3, NothingHeld
    <3> QED BY <2>2, <2>3, <3>4
  <2>4. CASE least # 0
    <3> DEFINE b == least - 1
               r == f[b]
               n == names[least]
               k == Terminated(n)
               v == co_cmd_usage(n)
    <3>1. least \in 1..N /\ b \in 0..N /\ ~(least <= b) /\ b + 1 = least /\ b \in Nat
      BY <1>N, <2>2, <2>4
    <3>2. f[least] = ReplyWith(r, k, v)
      BY <1>N, <1>3, <2>4, <3>1 DEF Helped
    <3>3. Good(b)
      BY <2>2, <3>1
    <3>4. First(least) = First(b) \cup {n} /\ n \notin First(b) /\ First(b) \subseteq Names
      <4>1. \A i \in 1..least : i \in 1..b \/ i = least
        BY <3>1
      <4>2. \A i \in 1..b : i \in 1..least /\ i \in 1..N /\ i # least
        BY <1>N, <3>1
      <4>3. \A i \in 1..N : names[i] = n => i = least
        BY <1>N, <1>5, <3>1 DEF IsInjective
      <4>4. least \in 1..least
        BY <3>1
      <4> QED BY <1>5, <4>1, <4>2, <4>3, <4>4
    <3>5. n \in Names /\ n \in Asked /\ First(b) \subseteq Asked
      BY <1>5, <3>1, <3>4 DEF CommandsAssumption, RegistryAssumption
    <3> HIDE DEF First
    <3>6. IsKey(k) /\ k # NULL /\ k \notin HeldKeys(r.tree)
      <4>1. k \notin {Terminated(m) : m \in First(b)}
        BY <3>4, <3>5, TerminatedFacts DEF CommandsAssumption
      <4> QED BY <3>3, <3>5, <4>1, TerminatedFacts DEF CommandsAssumption
    <3>7. v # NULL
      BY <3>5, AnswersFacts
    <3>8. Whole(r) /\ r.len + 1 < LenMod
      BY <1>N, <1>4, <3>1, <3>3
    <3> HIDE DEF b, r, n, k, v
    <3>9. /\ Whole(f[least]) /\ f[least].len = r.len + 1
          /\ HeldKeys(f[least].tree) = HeldKeys(r.tree) \cup {k}
          /\ HeldValues(f[least].tree) = HeldValues(r.tree) \cup {v}
      BY <1>4, <3>2, <3>6, <3>7, <3>8, ReplyGrows
    <3>10. Good(least)
      BY <3>1, <3>3, <3>4, <3>9 DEF r, k, v
    <3> QED BY <2>2, <3>10
  <2> QED BY <2>3, <2>4
<1>7. Good(N)
  <2>1. N \in 0..N
    BY <1>N
  <2> QED BY <1>6, <2>1
<1>8. First(N) = registered
  BY <1>1, <1>5 DEF ToSet
<1> HIDE DEF First
<1> QED BY <1>1, <1>2, <1>7, <1>8 DEF TellsAll

LEMMA WholeReply ==
    ASSUME NEW r, Whole(r)
    PROVE  /\ r.len = Len(co_tree_process(r.tree))
           /\ ToSet(co_tree_process(r.tree)) = HeldValues(r.tree)
BY ProcessFacts DEF Whole, Kept

\* A response with one pair.
LEMMA OneWhole ==
    ASSUME CommandsAssumption, FewCommands, NEW n \in Asked, NEW v, v # NULL
    PROVE  Whole(ReplyWith(EmptyReply, Terminated(n), v))
<1>1. LenMod \in Nat /\ 1 < LenMod
  <2>1. Help \in Names /\ IsFiniteSet(Names) /\ Cardinality(Names) < LenMod /\ LenMod \in Nat
    BY DEF CommandsAssumption, FewCommands
  <2>2. Cardinality(Names) \in Nat /\ Cardinality(Names) # 0
    BY <2>1, FS_CardinalityType, FS_EmptySet
  <2> QED BY <2>1, <2>2
<1>2. /\ Whole(EmptyReply) /\ EmptyReply.len = 0 /\ EmptyReply.tree = EmptyTree
      /\ HeldKeys(EmptyTree) = {}
  BY NothingHeld DEF EmptyReply
<1>3. IsKey(Terminated(n)) /\ Terminated(n) # NULL
  BY TerminatedFacts, AnswersFacts DEF CommandsAssumption
<1> QED BY <1>1, <1>2, <1>3, ReplyGrows

CommandsInv == RegistryInv /\ RepliesAreWhole

\* A command's response.
LEMMA DispatchInv ==
    ASSUME CommandsAssumption, FewCommands, Informed, CommandsInv,
           NEW n \in Asked, dispatcher_cb(n)
    PROVE  RepliesAreWhole'
<1>1. /\ outcome' = <<"exec", n, Lookup(n)>> /\ UNCHANGED <<_cmds, registered>>
      /\ \A m \in Asked : Lookup(m) = IF m \in registered THEN m ELSE NULL
      /\ registered \subseteq Names /\ Names \subseteq Asked /\ NULL \notin Names
  <2>1. \A m \in Asked : Lookup(m) = IF m \in registered THEN m ELSE NULL
    BY LookupFacts DEF CommandsInv, RegistryInv, CommandsAssumption
  <2> QED BY <2>1 DEF dispatcher_cb, co_cmd_exec, CommandsInv, RegistryInv, RegistryType,
                      CommandsAssumption, RegistryAssumption
<1>2. CASE about' = "all" /\ reply' = HelpAll
  <2>1. TellsAll(HelpAll, registered)
    BY HelpFacts DEF CommandsInv
  <2>2. /\ reply'.len = Len(co_tree_process(reply'.tree))
        /\ ToSet(co_tree_process(reply'.tree)) = {co_cmd_usage(m) : m \in registered'}
        /\ reply'.len = Cardinality(registered')
    BY <1>1, <1>2, <2>1, WholeReply DEF TellsAll
  <2> QED BY <2>2 DEF RepliesAreWhole
<1>3. CASE about' = "one" /\ Whole(reply')
  <2>1. reply'.len = Len(co_tree_process(reply'.tree))
    BY <1>3, WholeReply
  <2> QED BY <1>3, <2>1 DEF RepliesAreWhole
<1>4. \A v : v # NULL => Whole(OnePair(v))
  <2>1. <<>> \in Asked
    BY DEF CommandsAssumption, RegistryAssumption
  <2> QED BY <2>1, OneWhole DEF OnePair
<1>5. \A m \in Asked : Informed /\ m \in registered => Whole(HelpOf(m))
  BY <1>1, OneWhole, AnswersFacts DEF HelpOf, co_cmd_desc
<1>6. ASSUME CMD_help PROVE RepliesAreWhole'
  <2>1. ASSUME NEW m \in Asked, m \in registered, about' = "one", reply' = HelpOf(m)
        PROVE  RepliesAreWhole'
    BY <1>3, <1>5, <2>1
  <2>2. ASSUME about' = "one", reply' = EmptyReply PROVE RepliesAreWhole'
    BY <1>3, <2>2, NothingHeld
  <2> QED BY <1>2, <1>6, <2>1, <2>2 DEF CMD_help
<1>7. ASSUME CMD_other(n) PROVE RepliesAreWhole'
  BY <1>3, <1>4, <1>7, AnswersFacts DEF CMD_other
<1>8. ASSUME about' = "one", reply' = OnePair(<<"error", n>>) PROVE RepliesAreWhole'
  BY <1>3, <1>4, <1>8, AnswersFacts
<1> QED BY <1>6, <1>7, <1>8 DEF dispatcher_cb

\* The daemon sends no response that the client library would refuse for its
\* length, and help lists each registered command once.
THEOREM RepliesAlwaysWhole ==
    ASSUME CommandsAssumption, FewCommands, Informed
    PROVE  CommandsSpec => []RepliesAreWhole
<1>1. CommandsInit => CommandsInv
  <2> SUFFICES ASSUME CommandsInit PROVE CommandsInv
    OBVIOUS
  <2>1. RegistryInv
    BY RegistryStarts DEF CommandsInit, CommandsAssumption
  <2>2. reply.len = Len(co_tree_process(reply.tree)) /\ outcome[1] = "init"
    BY NothingHeld, WholeReply DEF CommandsInit, RegistryInit
  <2> QED BY <2>1, <2>2 DEF CommandsInv, RepliesAreWhole
<1>2. CommandsInv /\ [CommandsNext]_commandVars => CommandsInv'
  <2> SUFFICES ASSUME CommandsInv, [CommandsNext]_commandVars PROVE CommandsInv'
    OBVIOUS
  <2>1. ASSUME NEW n \in Names, co_cmd_register(n), UNCHANGED <<reply, about>>
        PROVE  RegistryNext /\ RepliesAreWhole'
    <3>1. outcome'[1] = "register"
      BY <2>1 DEF co_cmd_register
    <3> QED BY <2>1, <3>1 DEF RegistryNext, CommandsInv, RepliesAreWhole
  <2>2. ASSUME NEW n \in Names, NEW b \in BOOLEAN, co_cmd_hook(n, b), UNCHANGED <<reply, about>>
        PROVE  RegistryNext /\ RepliesAreWhole'
    <3>1. outcome'[1] = "hook"
      BY <2>2 DEF co_cmd_hook
    <3> QED BY <2>2, <3>1 DEF RegistryNext, CommandsInv, RepliesAreWhole
  <2>3. ASSUME NEW n \in Asked, dispatcher_cb(n) PROVE RegistryNext /\ RepliesAreWhole'
    BY <2>3, DispatchInv DEF dispatcher_cb, RegistryNext
  <2>4. ASSUME UNCHANGED commandVars PROVE UNCHANGED registryVars /\ RepliesAreWhole'
    BY <2>4 DEF commandVars, registryVars, CommandsInv, RepliesAreWhole
  <2>5. [RegistryNext]_registryVars /\ RepliesAreWhole'
    BY <2>1, <2>2, <2>3, <2>4 DEF CommandsNext
  <2> QED BY <2>5, RegistryStep DEF CommandsInv, CommandsAssumption
<1>3. CommandsInv => RepliesAreWhole
  BY DEF CommandsInv
<1> QED BY <1>1, <1>2, <1>3, PTL DEF CommandsSpec

-----------------------------------------------------------------------------
(* The types of responses, those with null pointers included.              *)

TypedReply(r) ==
    /\ Shaped(r.tree) /\ r.len \in 0..(LenMod - 1)
    /\ \A p \in DOMAIN r.tree : r.tree[p].value \in Pairs \cup {NULL}

LEMMA NothingTyped == ASSUME CommandsAssumption PROVE TypedReply(EmptyReply)
<1>1. EmptyReply.tree = EmptyTree /\ EmptyReply.len = 0 /\ DOMAIN EmptyTree = {}
  BY DEF EmptyReply, EmptyTree
<1>2. 0 \in 0..(LenMod - 1)
  <2>1. LenMod \in Nat \ {0}
    BY DEF CommandsAssumption
  <2> QED BY <2>1
<1>3. Shaped(EmptyTree)
  BY <1>1, FS_EmptySet DEF Shaped
<1> QED BY <1>1, <1>2, <1>3 DEF TypedReply

LEMMA ReplyTyped ==
    ASSUME CommandsAssumption, NEW r, TypedReply(r), NEW n \in Asked, NEW v \in Pairs \cup {NULL}
    PROVE  TypedReply(ReplyWith(r, Terminated(n), v))
<1> DEFINE t == r.tree
           k == Terminated(n)
           u == Inserted(t, k, v)
<1>1. CASE HasNode(t, k)
  BY <1>1 DEF ReplyWith
<1>2. CASE ~HasNode(t, k)
  <2>1. Shaped(t) /\ \A p \in DOMAIN t : t[p].value \in Pairs \cup {NULL}
    BY DEF TypedReply
  <2>2. IsKey(k)
    BY TerminatedFacts DEF CommandsAssumption
  <2> DEFINE s == ReplyWith(r, k, v)
  <2>3. s.tree = u /\ s.len = (r.len + 1) % LenMod
    BY <1>2 DEF ReplyWith
  <2>4. s.len \in 0..(LenMod - 1)
    <3>1. LenMod \in Nat \ {0}
      BY DEF CommandsAssumption
    <3>2. r.len + 1 \in Nat
      BY <3>1 DEF TypedReply
    <3> HIDE DEF s
    <3> QED BY <2>3, <3>1, <3>2
  <2> HIDE DEF k, t
  <2>5. Shaped(u) /\ \E e : AddedAt(t, u, k, v, e)
    BY <1>2, <2>1, <2>2, AddedFacts
  <2> HIDE DEF s, u
  <2>6. PICK e : AddedAt(t, u, k, v, e)
    BY <2>5
  <2>7. ASSUME NEW p \in DOMAIN u PROVE u[p].value \in Pairs \cup {NULL}
    BY <2>1, <2>6 DEF AddedAt
  <2>8. TypedReply(s)
    BY <2>3, <2>4, <2>5, <2>7 DEF TypedReply
  <2> QED BY <2>8 DEF s, k
<1> QED BY <1>1, <1>2

LEMMA HelpTyped ==
    ASSUME CommandsAssumption, RegistryInv
    PROVE  TypedReply(HelpAll)
<1> DEFINE names == co_tree_process(_cmds)
           N == Len(names)
           f == CHOOSE g : Helped(g, names, N)
           wrong == {n \in 0..N : ~TypedReply(f[n])}
           least == Min(wrong)
<1>1. names \in Seq(Names) /\ N \in Nat /\ \A i \in 1..N : names[i] \in Names
  <2>1. names \in Seq(Names)
    BY NamesFacts DEF CommandsAssumption, RegistryInv
  <2> HIDE DEF names
  <2> QED BY <2>1
<1>2. HelpAll = f[N]
  BY DEF HelpAll, Helped
<1> HIDE DEF names
<1>3. Helped(f, names, N)
  <2>1. \E g : Helped(g, names, N)
    BY <1>1, HelpMeans
  <2> QED BY <2>1, Zenon
<1> HIDE DEF f, N
<1>4. wrong = {}
  <2> SUFFICES ASSUME wrong # {} PROVE FALSE
    OBVIOUS
  <2>1. wrong \subseteq Nat
    BY <1>1
  <2>2. least \in wrong /\ \A m \in wrong : least <= m
    <3> HIDE DEF wrong
    <3> QED BY <2>1, MinFacts
  <2> HIDE DEF least
  <2>3. CASE least = 0
    <3>1. f[0] = EmptyReply
      BY <1>1, <1>3 DEF Helped
    <3> QED BY <2>2, <2>3, <3>1, NothingTyped
  <2>4. CASE least # 0
    <3> DEFINE r == f[least - 1]
               n == names[least]
    <3>1. least \in 1..N /\ least - 1 \in 0..N /\ ~(least <= least - 1)
      BY <1>1, <2>2, <2>4
    <3>2. f[least] = ReplyWith(r, Terminated(n), co_cmd_usage(n))
      BY <1>1, <1>3, <2>4, <3>1 DEF Helped
    <3>3. TypedReply(r)
      BY <2>2, <3>1
    <3>4. n \in Asked
      BY <1>1, <3>1 DEF CommandsAssumption, RegistryAssumption
    <3>5. co_cmd_usage(n) \in Pairs
      BY <3>4 DEF co_cmd_usage, Pairs
    <3> HIDE DEF r, n
    <3> QED BY <2>2, <3>2, <3>3, <3>4, <3>5, ReplyTyped
  <2> QED BY <2>3, <2>4
<1>5. N \in 0..N
  BY <1>1
<1> QED BY <1>2, <1>4, <1>5

CommandsTyped == RegistryInv /\ TypedReply(reply) /\ about \in {"all", "one"}

\* A command's response.
LEMMA DispatchTyped ==
    ASSUME CommandsAssumption, CommandsTyped, NEW n \in Asked, dispatcher_cb(n)
    PROVE  TypedReply(reply') /\ about' \in {"all", "one"}
<1>1. ASSUME NEW m \in Asked PROVE TypedReply(HelpOf(m))
  <2>1. Lookup(m) \in Names \cup {NULL}
    BY LookupFacts DEF CommandsTyped, RegistryInv, RegistryType, CommandsAssumption
  <2>2. Names \subseteq Asked
    BY DEF CommandsAssumption, RegistryAssumption
  <2>3. co_cmd_desc(m) \in Pairs \cup {NULL}
    BY <2>1, <2>2 DEF co_cmd_desc, Pairs
  <2> QED BY <2>3, NothingTyped, ReplyTyped DEF HelpOf
<1>2. ASSUME NEW w \in {"result", "error"} PROVE TypedReply(OnePair(<<w, n>>))
  <2>1. <<w, n>> \in Pairs /\ <<>> \in Asked
    BY DEF Pairs, CommandsAssumption, RegistryAssumption
  <2> QED BY <2>1, NothingTyped, ReplyTyped DEF OnePair
<1>3. TypedReply(HelpAll)
  BY HelpTyped DEF CommandsTyped
<1>4. ASSUME CMD_help PROVE TypedReply(reply') /\ about' \in {"all", "one"}
  BY <1>1, <1>3, <1>4, NothingTyped DEF CMD_help
<1>5. ASSUME CMD_other(n) PROVE TypedReply(reply') /\ about' \in {"all", "one"}
  BY <1>2, <1>5 DEF CMD_other
<1>6. ASSUME about' = "one", reply' = OnePair(<<"error", n>>)
      PROVE  TypedReply(reply') /\ about' \in {"all", "one"}
  BY <1>2, <1>6
<1> QED BY <1>4, <1>5, <1>6 DEF dispatcher_cb

\* The registry and every response are well typed, whatever is registered and
\* asked for: the length of a response stays within its width.
THEOREM CommandsType == ASSUME CommandsAssumption PROVE CommandsSpec => []CommandsTypeOK
<1>1. CommandsInit => CommandsTyped
  <2> SUFFICES ASSUME CommandsInit PROVE CommandsTyped
    OBVIOUS
  <2>1. RegistryInv
    BY RegistryStarts DEF CommandsInit, CommandsAssumption
  <2> QED BY <2>1, NothingTyped DEF CommandsInit, CommandsTyped
<1>2. CommandsTyped /\ [CommandsNext]_commandVars => CommandsTyped'
  <2> SUFFICES ASSUME CommandsTyped, [CommandsNext]_commandVars PROVE CommandsTyped'
    OBVIOUS
  <2> DEFINE Keeps == TypedReply(reply') /\ about' \in {"all", "one"}
  <2>1. ASSUME UNCHANGED <<reply, about>> PROVE Keeps
    BY <2>1 DEF CommandsTyped
  <2>2. ASSUME NEW n \in Asked, dispatcher_cb(n) PROVE RegistryNext /\ Keeps
    BY <2>2, DispatchTyped DEF dispatcher_cb, RegistryNext
  <2>3. ASSUME UNCHANGED commandVars PROVE UNCHANGED registryVars /\ Keeps
    BY <2>1, <2>3 DEF commandVars, registryVars
  <2> HIDE DEF Keeps
  <2>4. [RegistryNext]_registryVars /\ Keeps
    BY <2>1, <2>2, <2>3 DEF CommandsNext, RegistryNext
  <2>5. RegistryInv'
    BY <2>4, RegistryStep DEF CommandsTyped, CommandsAssumption
  <2> QED BY <2>4, <2>5 DEF CommandsTyped, Keeps
<1>3. CommandsTyped => CommandsTypeOK
  BY DEF CommandsTyped, CommandsTypeOK, RegistryInv, TypedReply
<1> QED BY <1>1, <1>2, <1>3, PTL DEF CommandsSpec

=============================================================================
