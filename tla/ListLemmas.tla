----------------------------- MODULE ListLemmas -----------------------------
(***************************************************************************)
(* What the operations of src/list.c that the models use make of a list,   *)
(* as a sequence and as a set of entries.                                  *)
(***************************************************************************)
EXTENDS Integers, Sequences, SequencesExt, SequenceTheorems, WellFoundedInduction, TLAPS

\* What co_list_delete leaves: the entries before position i, then those behind it.
LEMMA RemoveAtFacts ==
  ASSUME NEW S, NEW s \in Seq(S), NEW i \in 1..Len(s)
  PROVE  /\ RemoveAt(s, i) \in Seq(S)
         /\ Len(RemoveAt(s, i)) = Len(s) - 1
         /\ \A j \in 1..Len(s) - 1 :
               RemoveAt(s, i)[j] = IF j < i THEN s[j] ELSE s[j + 1]
<1> DEFINE a == SubSeq(s, 1, i - 1)
           b == SubSeq(s, i + 1, Len(s))
<1>1. a \in Seq(S) /\ Len(a) = i - 1 /\ \A j \in 1..i - 1 : a[j] = s[j]
  BY SMT
<1>2. b \in Seq(S) /\ Len(b) = Len(s) - i /\ \A j \in 1..Len(s) - i : b[j] = s[i + j]
  BY SMT
<1> HIDE DEF a, b
<1>3. /\ a \o b \in Seq(S) /\ Len(a \o b) = Len(a) + Len(b)
      /\ \A j \in 1..Len(a) + Len(b) :
            (a \o b)[j] = IF j <= Len(a) THEN a[j] ELSE b[j - Len(a)]
  <2>1. a \in Seq(S) /\ b \in Seq(S)
    BY <1>1, <1>2
  <2> QED  BY <2>1, ConcatProperties
<1> HIDE DEF a, b
<1>4. \A j \in 1..Len(s) - 1 : (a \o b)[j] = IF j < i THEN s[j] ELSE s[j + 1]
  BY <1>1, <1>2, <1>3, SMT
<1>5. Len(a \o b) = Len(s) - 1
  BY <1>1, <1>2, <1>3, SMT
<1> QED  BY <1>3, <1>4, <1>5 DEF a, b, RemoveAt

\* What co_list_insert_before (or, at the end, co_list_append) makes of a list.
LEMMA InsertAtFacts ==
  ASSUME NEW S, NEW s \in Seq(S), NEW e \in S, NEW i \in 1..Len(s) + 1
  PROVE  /\ InsertAt(s, i, e) \in Seq(S)
         /\ Len(InsertAt(s, i, e)) = Len(s) + 1
         /\ \A j \in 1..Len(s) + 1 :
               InsertAt(s, i, e)[j] = IF j < i THEN s[j] ELSE IF j = i THEN e ELSE s[j - 1]
<1> DEFINE a == SubSeq(s, 1, i - 1)
           b == SubSeq(s, i, Len(s))
           c == a \o <<e>>
<1>1. a \in Seq(S) /\ Len(a) = i - 1 /\ \A j \in 1..i - 1 : a[j] = s[j]
  BY SMT
<1>2. b \in Seq(S) /\ Len(b) = Len(s) + 1 - i /\ \A j \in 1..Len(s) + 1 - i : b[j] = s[i - 1 + j]
  BY SMT
<1> HIDE DEF a, b
<1>3. c \in Seq(S) /\ Len(c) = i /\ \A j \in 1..i : c[j] = IF j < i THEN s[j] ELSE e
  BY <1>1, ConcatProperties, SMT
<1> HIDE DEF c
<1>4. /\ c \o b \in Seq(S) /\ Len(c \o b) = Len(c) + Len(b)
      /\ \A j \in 1..Len(c) + Len(b) :
            (c \o b)[j] = IF j <= Len(c) THEN c[j] ELSE b[j - Len(c)]
  <2>1. c \in Seq(S) /\ b \in Seq(S)
    BY <1>2, <1>3
  <2> QED  BY <2>1, ConcatProperties
<1>5. \A j \in 1..Len(s) + 1 :
         (c \o b)[j] = IF j < i THEN s[j] ELSE IF j = i THEN e ELSE s[j - 1]
  BY <1>2, <1>3, <1>4, SMT
<1>6. Len(c \o b) = Len(s) + 1
  BY <1>2, <1>3, <1>4, SMT
<1> QED  BY <1>4, <1>5, <1>6 DEF a, b, c, InsertAt

\* t is s with e put in at position p.
PutAt(S, s, p, e, t) ==
    /\ t \in Seq(S) /\ Len(t) = Len(s) + 1
    /\ \A j \in 1..Len(s) + 1 : t[j] = IF j < p THEN s[j] ELSE IF j = p THEN e ELSE s[j - 1]

LEMMA InsertAtInserts ==
    ASSUME NEW S, NEW s \in Seq(S), NEW e \in S, NEW p \in 1..Len(s) + 1
    PROVE  PutAt(S, s, p, e, InsertAt(s, p, e))
<1> DEFINE t == InsertAt(s, p, e)
<1>1. /\ t \in Seq(S) /\ Len(t) = Len(s) + 1
      /\ \A j \in 1..Len(s) + 1 : t[j] = IF j < p THEN s[j] ELSE IF j = p THEN e ELSE s[j - 1]
  BY InsertAtFacts, Z3
<1> HIDE DEF t
<1>2. PutAt(S, s, p, e, t)
  BY <1>1, Zenon DEF PutAt
<1> QED BY <1>2 DEF t

\* The elements of a list, as a set.
LEMMA ToSetMeans ==
  ASSUME NEW S, NEW s \in Seq(S)
  PROVE  /\ \A x : x \in ToSet(s) <=> \E i \in 1..Len(s) : s[i] = x
         /\ ToSet(s) \subseteq S
BY DEF ToSet

\* co_list_insert_before and co_list_append add their argument.
LEMMA ToSetInsertAt ==
  ASSUME NEW S, NEW s \in Seq(S), NEW e \in S, NEW i \in 1..Len(s) + 1
  PROVE  ToSet(InsertAt(s, i, e)) = ToSet(s) \cup {e}
<1> DEFINE r == InsertAt(s, i, e)
<1>1. /\ r \in Seq(S) /\ Len(r) = Len(s) + 1
      /\ \A j \in 1..Len(s) + 1 : r[j] = IF j < i THEN s[j] ELSE IF j = i THEN e ELSE s[j - 1]
  BY InsertAtFacts
<1> HIDE DEF r
<1>2. ASSUME NEW x \in ToSet(r)  PROVE x \in ToSet(s) \cup {e}
  <2>1. PICK j \in 1..Len(r) : r[j] = x
    BY <1>1, ToSetMeans
  <2>2. x = e \/ \E k \in 1..Len(s) : s[k] = x
    BY <1>1, <2>1, SMT
  <2> QED  BY <2>2, ToSetMeans
<1>3. e \in ToSet(r)
  <2>1. i \in 1..Len(r) /\ r[i] = e
    BY <1>1, SMT
  <2> QED  BY <1>1, <2>1, ToSetMeans
<1>4. ASSUME NEW x \in ToSet(s)  PROVE x \in ToSet(r)
  <2>1. PICK k \in 1..Len(s) : s[k] = x
    BY ToSetMeans
  <2>2. \E j \in 1..Len(r) : r[j] = x
    <3>1. CASE k < i
      <4>1. k \in 1..Len(r) /\ r[k] = x
        BY <1>1, <2>1, <3>1, SMT
      <4> QED  BY <4>1
    <3>2. CASE ~(k < i)
      <4>1. k + 1 \in 1..Len(r) /\ r[k + 1] = x
        BY <1>1, <2>1, <3>2, SMT
      <4> QED  BY <4>1
    <3> QED  BY <3>1, <3>2
  <2> QED  BY <1>1, <2>2, ToSetMeans
<1> QED  BY <1>2, <1>3, <1>4 DEF r

\* co_list_delete takes one element away when the list has no duplicates.
LEMMA ToSetRemoveAt ==
  ASSUME NEW S, NEW s \in Seq(S), NEW k \in 1..Len(s),
         \A i, j \in 1..Len(s) : i # j => s[i] # s[j]
  PROVE  ToSet(RemoveAt(s, k)) = ToSet(s) \ {s[k]}
<1> DEFINE r == RemoveAt(s, k)
<1>1. /\ r \in Seq(S) /\ Len(r) = Len(s) - 1
      /\ \A j \in 1..Len(s) - 1 : r[j] = IF j < k THEN s[j] ELSE s[j + 1]
  BY RemoveAtFacts
<1> HIDE DEF r
<1>2. ASSUME NEW x \in ToSet(r)  PROVE x \in ToSet(s) \ {s[k]}
  <2>1. PICK j \in 1..Len(r) : r[j] = x
    BY <1>1, ToSetMeans
  <2>2. \E i \in 1..Len(s) : i # k /\ s[i] = x
    BY <1>1, <2>1, SMT
  <2> QED  BY <2>2, ToSetMeans
<1>3. ASSUME NEW x \in ToSet(s) \ {s[k]}  PROVE x \in ToSet(r)
  <2>1. PICK i \in 1..Len(s) : s[i] = x
    BY ToSetMeans
  <2>2. \E j \in 1..Len(r) : r[j] = x
    <3>1. CASE i < k
      <4>1. i \in 1..Len(r) /\ r[i] = x
        BY <1>1, <2>1, <3>1, SMT
      <4> QED  BY <4>1
    <3>2. CASE i > k
      <4>1. i - 1 \in 1..Len(r) /\ r[i - 1] = x
        BY <1>1, <2>1, <3>2, SMT
      <4> QED  BY <4>1
    <3>3. i # k
      BY <2>1
    <3> QED  BY <3>1, <3>2, <3>3, SMT
  <2> QED  BY <1>1, <2>2, ToSetMeans
<1> QED  BY <1>2, <1>3 DEF r

\* No element is there twice, neither after the insertion of a new one nor
\* after a removal.
LEMMA InjectiveInsert ==
    ASSUME NEW S, NEW s \in Seq(S), IsInjective(s), NEW e \in S, e \notin ToSet(s),
           NEW p \in 1..Len(s) + 1
    PROVE  IsInjective(InsertAt(s, p, e))
<1> DEFINE t == InsertAt(s, p, e)
<1>1. /\ t \in Seq(S) /\ Len(t) = Len(s) + 1
      /\ \A j \in 1..Len(s) + 1 : t[j] = IF j < p THEN s[j] ELSE IF j = p THEN e ELSE s[j - 1]
  <2>1. PutAt(S, s, p, e, t)
    BY InsertAtInserts
  <2> QED BY <2>1 DEF PutAt
<1> HIDE DEF t
<1>2. \A j \in 1..Len(s) : s[j] # e
  BY ToSetMeans
<1>3. \A i, j \in 1..Len(s) : s[i] = s[j] => i = j
  BY DEF IsInjective
<1> DEFINE Was(j) == IF j < p THEN j ELSE j - 1
<1>4. \A j \in 1..Len(t) : j # p => Was(j) \in 1..Len(s) /\ t[j] = s[Was(j)]
  BY <1>1
<1>5. \A i, j \in 1..Len(t) : i # p /\ j # p /\ Was(i) = Was(j) => i = j
  BY <1>1
<1>6. t[p] = e
  BY <1>1
<1> HIDE DEF Was
<1>7. \A i, j \in 1..Len(t) : t[i] = t[j] => i = j
  BY <1>2, <1>3, <1>4, <1>5, <1>6
<1> QED BY <1>1, <1>7 DEF IsInjective, t

LEMMA InjectiveRemove ==
    ASSUME NEW S, NEW s \in Seq(S), IsInjective(s), NEW p \in 1..Len(s)
    PROVE  IsInjective(RemoveAt(s, p))
<1> DEFINE t == RemoveAt(s, p)
<1>1. /\ t \in Seq(S) /\ Len(t) = Len(s) - 1
      /\ \A j \in 1..Len(s) - 1 : t[j] = IF j < p THEN s[j] ELSE s[j + 1]
  BY RemoveAtFacts
<1> HIDE DEF t
<1>2. \A i, j \in 1..Len(s) : s[i] = s[j] => i = j
  BY DEF IsInjective
<1>3. \A i, j \in 1..Len(t) : t[i] = t[j] => i = j
  BY <1>1, <1>2
<1> QED BY <1>1, <1>3 DEF IsInjective, t

\* co_list_delete of an object, from a list that has no object twice: the
\* object is gone, the others stay.
LEMMA RemoveFirstFacts ==
  ASSUME NEW S, NEW s \in Seq(S), IsInjective(s), NEW e
  PROVE  /\ RemoveFirst(s, e) \in Seq(S)
         /\ IsInjective(RemoveFirst(s, e))
         /\ ToSet(RemoveFirst(s, e)) = ToSet(s) \ {e}
<1>1. CASE ~ \E i \in 1..Len(s) : s[i] = e
  BY <1>1, ToSetMeans DEF RemoveFirst
<1>2. CASE \E i \in 1..Len(s) : s[i] = e
  <2>1. PICK k \in 1..Len(s) : s[k] = e
    BY <1>2
  <2>2. {i \in 1..Len(s) : s[i] = e} = {k}
    BY <2>1 DEF IsInjective
  <2>3. SelectInSeq(s, LAMBDA v : v = e) = k
    BY <2>2 DEF SelectInSeq, Min
  <2>4. RemoveFirst(s, e) = RemoveAt(s, k)
    BY <1>2, <2>3 DEF RemoveFirst
  <2>5. \A i, j \in 1..Len(s) : i # j => s[i] # s[j]
    BY DEF IsInjective
  <2>6. ToSet(RemoveAt(s, k)) = ToSet(s) \ {e}
    BY <2>1, <2>5, ToSetRemoveAt
  <2>7. /\ RemoveAt(s, k) \in Seq(S)
        /\ Len(RemoveAt(s, k)) = Len(s) - 1
        /\ \A j \in 1..Len(s) - 1 : RemoveAt(s, k)[j] = IF j < k THEN s[j] ELSE s[j + 1]
    BY RemoveAtFacts
  <2>8. IsInjective(RemoveAt(s, k))
    BY InjectiveRemove
  <2> QED BY <2>4, <2>6, <2>7, <2>8
<1> QED BY <1>1, <1>2

\* co_list_append of an object that is not in the list.
LEMMA AppendFacts ==
  ASSUME NEW S, NEW s \in Seq(S), IsInjective(s), NEW e \in S, e \notin ToSet(s)
  PROVE  /\ Append(s, e) \in Seq(S)
         /\ IsInjective(Append(s, e))
         /\ ToSet(Append(s, e)) = ToSet(s) \cup {e}
<1> DEFINE r == Append(s, e)
<1>1. /\ r \in Seq(S) /\ Len(r) = Len(s) + 1
      /\ \A j \in 1..Len(r) : r[j] = IF j <= Len(s) THEN s[j] ELSE e
  OBVIOUS
<1> HIDE DEF r
<1>2. \A j \in 1..Len(s) : s[j] \in ToSet(s) /\ s[j] # e
  BY ToSetMeans
<1>3. IsInjective(r)
  BY <1>1, <1>2 DEF IsInjective
<1>4. \A x : x \in ToSet(r) <=> x \in ToSet(s) \cup {e}
  <2>1. \A x : x \in ToSet(r) <=> \E i \in 1..Len(r) : r[i] = x
    BY <1>1, ToSetMeans
  <2>2. \A x : x \in ToSet(s) <=> \E i \in 1..Len(s) : s[i] = x
    BY ToSetMeans
  <2>3. r[Len(s) + 1] = e /\ \A j \in 1..Len(s) : r[j] = s[j]
    BY <1>1
  <2> QED BY <1>1, <2>1, <2>2, <2>3
<1> QED BY <1>1, <1>3, <1>4 DEF r

\* The least of some numbers, as Min of the community modules gives it.
LEMMA MinFacts ==
  ASSUME NEW S, S \subseteq Nat, S # {}
  PROVE  Min(S) \in S /\ \A y \in S : Min(S) <= y
<1>1. PICK x \in S : \A y \in S : ~(<<y, x>> \in OpToRel(<, Nat))
  BY NatLessThanWellFounded, WFMin, Zenon
<1>2. \A y \in S : x <= y
  <2> SUFFICES ASSUME NEW y \in S PROVE x <= y
    OBVIOUS
  <2>1. ~(y < x)
    BY <1>1 DEF OpToRel
  <2> QED  BY <2>1
<1> QED  BY <1>2 DEF Min

=============================================================================
