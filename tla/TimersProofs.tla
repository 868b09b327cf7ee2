---------------------------- MODULE TimersProofs ----------------------------
(***************************************************************************)
(* Proofs about Timers, for any set of timers, clock values and delays:    *)
(* the inductive invariant of the timer list, and that the list implements *)
(* TimerService.                                                           *)
(***************************************************************************)
EXTENDS Timers, ListLemmas

-----------------------------------------------------------------------------
(* Time arithmetic.                                                        *)

\* What integer division does, for a natural number.
LEMMA DivFacts ==
  ASSUME NEW u \in Nat
  PROVE  /\ u \div 1000 \in Nat
         /\ 1000 * (u \div 1000) <= u
         /\ u < 1000 * (u \div 1000) + 1000
BY SMT

\* DivMsec is the quotient rounded toward zero: it is positive from 1000 on, and
\* a difference within a second stays within a second.
LEMMA DivMsecFacts ==
  ASSUME NEW u \in Int
  PROVE  /\ DivMsec(u) \in Int
         /\ DivMsec(u) > 0 <=> u >= 1000
         /\ DivMsec(u) > -1000 <=> u > -1000000
         /\ u >= -1000000 => DivMsec(u) >= -1000
         /\ u <= 1000000 => DivMsec(u) <= 1000
<1>1. CASE u >= 0
  <2>1. DivMsec(u) = u \div 1000
    BY <1>1, SMT DEF DivMsec
  <2> QED  BY <1>1, <2>1, DivFacts, SMT
<1>2. CASE u < 0
  <2>1. -u \in Nat /\ DivMsec(u) = -((-u) \div 1000)
    BY <1>2, SMT DEF DivMsec
  <2> QED  BY <1>2, <2>1, DivFacts, SMT
<1> QED  BY <1>1, <1>2, SMT

\* The comparison of _co_loop_tv_diff with 0, without the division: within a
\* second it takes a whole millisecond to be later, across seconds (almost)
\* nothing.
LEMMA LaterMeans ==
  ASSUME NEW a \in Timeval, NEW b \in Timeval
  PROVE  Later(a, b) <=>
            \/ a.sec = b.sec /\ a.usec - b.usec >= 1000
            \/ a.sec = b.sec + 1 /\ a.usec - b.usec > -1000000
            \/ a.sec > b.sec + 1
<1> DEFINE u == a.usec - b.usec
           s == a.sec - b.sec
<1>1. s \in Int /\ u \in Int /\ u >= -1000000 /\ u <= 1000000
  BY SMT DEF Timeval
<1>2. a.sec \in Int /\ b.sec \in Int
  BY SMT DEF Timeval
<1>3. Later(a, b) <=> s * 1000 + DivMsec(u) > 0
  BY DEF Later, _co_loop_tv_diff
<1> HIDE DEF u
<1>4. Later(a, b) <=> (s = 0 /\ u >= 1000) \/ (s = 1 /\ u > -1000000) \/ s > 1
  <2> HIDE DEF s
  <2>1. /\ DivMsec(u) \in Int /\ DivMsec(u) >= -1000 /\ DivMsec(u) <= 1000
        /\ DivMsec(u) > 0 <=> u >= 1000
        /\ DivMsec(u) > -1000 <=> u > -1000000
    BY <1>1, DivMsecFacts
  <2>2. CASE s <= -1
    BY <1>1, <1>3, <2>1, <2>2, SMT
  <2>3. CASE s = 0
    BY <1>1, <1>3, <2>1, <2>3, SMT
  <2>4. CASE s = 1
    BY <1>1, <1>3, <2>1, <2>4, SMT
  <2>5. CASE s > 1
    BY <1>1, <1>3, <2>1, <2>5, SMT
  <2> QED  BY <1>1, <2>2, <2>3, <2>4, <2>5, SMT
<1> QED  BY <1>1, <1>2, <1>4, SMT DEF u

\* No time is later than itself.
LEMMA NotLaterThanItself ==
  ASSUME NEW a \in Timeval
  PROVE  ~Later(a, a)
<1>1. a.sec \in Int /\ a.usec \in Int
  BY SMT DEF Timeval
<1> QED  BY <1>1, LaterMeans, SMT

\* "Not later" is not transitive, but this much is: what separates y from x
\* separates z from x when y is not later than z.
LEMMA LaterSplits ==
  ASSUME NEW x \in Timeval, NEW y \in Timeval, NEW z \in Timeval,
         Later(y, x), ~Later(y, z)
  PROVE  ~Later(x, z)
<1>1. /\ x.sec \in Int /\ y.sec \in Int /\ z.sec \in Int
      /\ x.usec \in Int /\ y.usec \in Int /\ z.usec \in Int
      /\ 0 <= x.usec /\ 0 <= y.usec /\ 0 <= z.usec
      /\ x.usec <= 1000000 /\ y.usec <= 1000000 /\ z.usec <= 1000000
  BY SMT DEF Timeval
<1> QED  BY <1>1, LaterMeans, SMT

\* A deadline computed by co_loop_set_timer is a time.
LEMMA AfterType ==
  ASSUME NEW t \in Instants, NEW msecs \in Delays
  PROVE  After(t, msecs) \in Timeval
<1>1. t.sec \in Nat /\ t.usec \in Nat /\ t.usec <= 999999 /\ msecs \in Nat
  BY ClockAssumption, TimersAssumption, SMT
<1>2. msecs \div 1000 \in Nat /\ msecs % 1000 \in Nat /\ msecs % 1000 <= 999
  BY <1>1, SMT
<1> DEFINE s == t.sec + msecs \div 1000
           u == t.usec + (msecs % 1000) * 1000
<1>3. s \in Nat /\ u \in Nat /\ u <= 1998999
  BY <1>1, <1>2, SMT
<1>4. CASE u > 1000000
  <2>1. After(t, msecs) = [sec |-> s + 1, usec |-> u % 1000000]
    BY <1>4 DEF After
  <2> HIDE DEF s, u
  <2>2. u % 1000000 \in Nat /\ u % 1000000 <= 1000000 /\ s + 1 \in Nat
    BY <1>3, SMT
  <2> QED  BY <2>1, <2>2, SMT DEF Timeval
<1>5. CASE ~(u > 1000000)
  <2>1. After(t, msecs) = [sec |-> s, usec |-> u]
    BY <1>5 DEF After
  <2> HIDE DEF s, u
  <2> QED  BY <1>3, <1>5, <2>1, SMT DEF Timeval
<1> QED  BY <1>4, <1>5

-----------------------------------------------------------------------------
(* The timer list.                                                         *)

\* UniquePtrs and Chronological of any list and any deadlines.
Distinct(list) ==
    \A i, j \in 1..Len(list) : i # j => ptr[list[i]] # ptr[list[j]]

Sorted(list, dl) ==
    \A i, j \in 1..Len(list) : i < j => ~Later(dl[list[i]], dl[list[j]])

\* With distinct ptrs the search by ptr deletes the entry that was meant.
LEMMA UnlinkFacts ==
  ASSUME NEW list \in Seq(Timers), Distinct(list), NEW k \in 1..Len(list)
  PROVE  Unlink(list, ptr[list[k]]) = RemoveAt(list, k)
<1> DEFINE matches == {i \in 1..Len(list) : ptr[list[i]] = ptr[list[k]]}
<1>1. matches = {k}
  BY DEF Distinct
<1> HIDE DEF matches
<1>2. Min(matches) = k
  BY <1>1, SMT DEF Min
<1> QED  BY <1>1, <1>2 DEF Unlink, matches

\* Deleting an entry keeps ptrs distinct and the order.
LEMMA RemoveKeeps ==
  ASSUME NEW list \in Seq(Timers), Distinct(list), NEW k \in 1..Len(list), NEW dl
  PROVE  /\ Distinct(RemoveAt(list, k))
         /\ Sorted(list, dl) => Sorted(RemoveAt(list, k), dl)
<1> DEFINE r == RemoveAt(list, k)
           old(j) == IF j < k THEN j ELSE j + 1
<1>1. /\ r \in Seq(Timers) /\ Len(r) = Len(list) - 1
      /\ \A j \in 1..Len(list) - 1 : r[j] = IF j < k THEN list[j] ELSE list[j + 1]
  BY RemoveAtFacts
<1> HIDE DEF r
<1>2. \A j \in 1..Len(r) : old(j) \in 1..Len(list) /\ r[j] = list[old(j)]
  BY <1>1, SMT
<1>3. \A i, j \in 1..Len(r) : (i < j => old(i) < old(j)) /\ (i # j => old(i) # old(j))
  BY <1>1, SMT
<1> HIDE DEF old
<1>4. Distinct(r)
  BY <1>2, <1>3 DEF Distinct
<1>5. Sorted(list, dl) => Sorted(r, dl)
  BY <1>2, <1>3 DEF Sorted
<1> QED  BY <1>4, <1>5 DEF r

\* A timer whose ptr is not in the list keeps ptrs distinct.
LEMMA InsertKeepsDistinct ==
  ASSUME NEW list \in Seq(Timers), Distinct(list), NEW t \in Timers,
         ~Scheduled(list, ptr[t]), NEW i \in 1..Len(list) + 1
  PROVE  Distinct(InsertAt(list, i, t))
<1> DEFINE r == InsertAt(list, i, t)
<1>1. /\ r \in Seq(Timers) /\ Len(r) = Len(list) + 1
      /\ \A j \in 1..Len(list) + 1 : r[j] = IF j < i THEN list[j] ELSE IF j = i THEN t ELSE list[j - 1]
  BY InsertAtFacts
<1> HIDE DEF r
<1> DEFINE old(j) == IF j < i THEN j ELSE j - 1
<1>2. \A j \in 1..Len(r) : j # i => old(j) \in 1..Len(list) /\ r[j] = list[old(j)]
  BY <1>1, SMT
<1>3. \A j, k \in 1..Len(r) : j # i /\ k # i /\ j # k => old(j) # old(k)
  BY <1>1, SMT
<1>4. r[i] = t
  BY <1>1, SMT
<1> HIDE DEF old
<1>5. \A j \in 1..Len(r) : j # i => ptr[r[j]] # ptr[t]
  BY <1>2 DEF Scheduled
<1>6. SUFFICES ASSUME NEW j \in 1..Len(r), NEW k \in 1..Len(r), j # k
               PROVE  ptr[r[j]] # ptr[r[k]]
  BY DEF Distinct, r
<1>7. CASE j = i
  BY <1>4, <1>5, <1>6, <1>7
<1>8. CASE k = i
  BY <1>4, <1>5, <1>6, <1>8
<1>9. CASE j # i /\ k # i
  BY <1>2, <1>3, <1>6, <1>9 DEF Distinct
<1> QED  BY <1>7, <1>8, <1>9

\* Inserting before the first later entry keeps the order: LaterSplits carries
\* the comparison with that one entry over to all entries behind it.
LEMMA InsertKeepsSorted ==
  ASSUME NEW list \in Seq(Timers), NEW dl \in [Timers -> Timeval], Sorted(list, dl),
         NEW t \in Timers, NEW i \in 1..Len(list) + 1,
         \A j \in 1..i - 1 : ~Later(dl[list[j]], dl[t]),
         i <= Len(list) => Later(dl[list[i]], dl[t])
  PROVE  Sorted(InsertAt(list, i, t), dl)
<1> DEFINE r == InsertAt(list, i, t)
<1>1. /\ r \in Seq(Timers) /\ Len(r) = Len(list) + 1
      /\ \A j \in 1..Len(list) + 1 : r[j] = IF j < i THEN list[j] ELSE IF j = i THEN t ELSE list[j - 1]
  BY InsertAtFacts
<1> HIDE DEF r
<1>2. \A k \in 1..Len(list) : dl[list[k]] \in Timeval
  OBVIOUS
<1>3. ASSUME NEW k \in i..Len(list)  PROVE ~Later(dl[t], dl[list[k]])
  <2>1. i \in 1..Len(list) /\ k \in 1..Len(list) /\ Later(dl[list[i]], dl[t])
    BY SMT
  <2>2. ~Later(dl[list[i]], dl[list[k]])
    <3>1. CASE k = i
      BY <1>2, <2>1, <3>1, NotLaterThanItself
    <3>2. CASE i < k
      BY <2>1, <3>2 DEF Sorted
    <3> QED  BY <3>1, <3>2, SMT
  <2> QED  BY <1>2, <2>1, <2>2, LaterSplits
<1>4. SUFFICES ASSUME NEW j \in 1..Len(r), NEW k \in 1..Len(r), j < k
               PROVE  ~Later(dl[r[j]], dl[r[k]])
  BY DEF Sorted, r
<1>5. CASE j = i
  <2>1. r[j] = t /\ k - 1 \in i..Len(list) /\ r[k] = list[k - 1]
    BY <1>1, <1>4, <1>5, SMT
  <2> QED  BY <1>3, <2>1
<1>6. CASE k = i
  <2>1. r[k] = t /\ j \in 1..i - 1 /\ r[j] = list[j]
    BY <1>1, <1>4, <1>6, SMT
  <2> QED  BY <2>1
<1>7. CASE j # i /\ k # i
  <2> DEFINE old(m) == IF m < i THEN m ELSE m - 1
  <2>1. /\ old(j) \in 1..Len(list) /\ r[j] = list[old(j)]
        /\ old(k) \in 1..Len(list) /\ r[k] = list[old(k)]
        /\ old(j) < old(k)
    BY <1>1, <1>4, <1>7, SMT
  <2> HIDE DEF old
  <2> QED  BY <2>1 DEF Sorted
<1> QED  BY <1>5, <1>6, <1>7

-----------------------------------------------------------------------------
(* The invariant.                                                          *)

\* The clock only shows times, and so does the loop's copy of it.
LEMMA TimesAreTimevals ==
  ASSUME TypeOK
  PROVE  clock \in Timeval /\ now \in Timeval /\ Instants \subseteq Timeval /\ Epoch \in Timeval
<1>1. Instants \subseteq Timeval
  BY ClockAssumption, SMT DEF Timeval
<1>2. Epoch \in Timeval
  BY SMT DEF Epoch, Timeval
<1> QED  BY <1>1, <1>2 DEF TypeOK

\* IInv is UniquePtrs and Chronological of the list as the lemmas state them.
LEMMA IInvList ==
  ASSUME IInv
  PROVE  Distinct(timers) /\ Sorted(timers, deadline)
BY DEF IInv, UniquePtrs, Chronological, Distinct, Sorted

\* Taking a pending timer off the list: what co_loop_remove_timer,
\* co_loop_set_timer and _co_loop_process_timers have in common.
LEMMA UnlinkPending ==
  ASSUME IInv, NEW t \in Timers, pending[t]
  PROVE  LET rest == Unlink(timers, ptr[t])
         IN  /\ rest \in Seq(Timers)
             /\ Distinct(rest) /\ Sorted(rest, deadline)
             /\ ToSet(rest) = ToSet(timers) \ {t}
             /\ Scheduled(timers, ptr[t])
<1>1. timers \in Seq(Timers) /\ Distinct(timers) /\ Sorted(timers, deadline)
  BY IInvList DEF IInv, TypeOK
<1>2. t \in ToSet(timers)
  BY DEF IInv, PendingIsListed
<1>3. PICK k \in 1..Len(timers) : timers[k] = t
  BY <1>1, <1>2, ToSetMeans
<1>4. Unlink(timers, ptr[t]) = RemoveAt(timers, k)
  BY <1>1, <1>3, UnlinkFacts
<1>5. \A i, j \in 1..Len(timers) : i # j => timers[i] # timers[j]
  BY <1>1 DEF Distinct
<1>6. ToSet(RemoveAt(timers, k)) = ToSet(timers) \ {t}
  BY <1>1, <1>3, <1>5, ToSetRemoveAt
<1>7. RemoveAt(timers, k) \in Seq(Timers)
  BY <1>1, RemoveAtFacts
<1>8. Distinct(RemoveAt(timers, k)) /\ Sorted(RemoveAt(timers, k), deadline)
  BY <1>1, RemoveKeeps
<1>9. Scheduled(timers, ptr[t])
  BY <1>3 DEF Scheduled
<1> QED  BY <1>4, <1>6, <1>7, <1>8, <1>9

\* Two lists that are equal and whose timers keep ptr and deadline.
LEMMA SameList ==
  ASSUME IInv, timers' = timers, TypeOK',
         \A t \in ToSet(timers) : ptr'[t] = ptr[t] /\ deadline'[t] = deadline[t]
  PROVE  UniquePtrs' /\ Chronological'
<1>1. \A i \in 1..Len(timers) : timers[i] \in ToSet(timers)
  BY DEF ToSet, IInv, TypeOK
<1> QED  BY <1>1 DEF IInv, UniquePtrs, Chronological

\* The invariant holds before co_loop_create, with no list and no timers.
THEOREM InitIInv == Init => IInv
<1> SUFFICES ASSUME Init PROVE IInv
  OBVIOUS
<1>1. Epoch \in Timeval
  BY SMT DEF Epoch, Timeval
<1>2. TypeOK
  <2>1. back \in 0..MaxBack
    BY TimersAssumption, SMT DEF Init
  <2>2. /\ pending \in [Timers -> BOOLEAN] /\ deadline \in [Timers -> Timeval]
        /\ ptr \in [Timers -> Timers \cup Clients] /\ timers \in Seq(Timers)
    BY <1>1 DEF Init
  <2>3. timeout \in Int
    BY DEF Init
  <2> QED  BY <2>1, <2>2, <2>3 DEF Init, TypeOK, Phases
<1>3. ToSet(timers) = {} /\ Len(timers) = 0
  BY DEF Init, ToSet
<1> QED  BY <1>2, <1>3, SMT DEF Init, IInv, PendingIsListed, UniquePtrs, Chronological, ControlOK

\* A list of timers with distinct ptrs in chronological order, and pending for
\* exactly its members: what remains to be shown when the list has changed.
LEMMA NewList ==
  ASSUME TypeOK', ControlOK', NEW list,
         timers' = list, ptr' = ptr, Distinct(list), Sorted(list, deadline'),
         \A t \in Timers : pending'[t] <=> t \in ToSet(list),
         ToSet(list) \subseteq live' \cap timer_cb'
  PROVE  IInv'
<1>1. PendingIsListed'
  BY DEF PendingIsListed
<1>2. UniquePtrs' /\ Chronological'
  BY DEF UniquePtrs, Chronological, Distinct, Sorted
<1> QED  BY <1>1, <1>2 DEF IInv

\* co_timer_create writes the fields of a timer that is in no list.
LEMMA CreateStep ==
  ASSUME IInv, NEW t \in Timers, NEW d \in Instants \cup {Epoch}, NEW cb \in BOOLEAN,
         NEW p \in Clients \cup {t}, co_timer_create(t, d, cb, p)
  PROVE  IInv'
<1>1. t \notin ToSet(timers)
  BY DEF IInv, PendingIsListed, co_timer_create
<1>2. d \in Timeval
  BY TimesAreTimevals DEF IInv
<1>3. TypeOK'
  BY <1>2 DEF IInv, TypeOK, co_timer_create, loopVars, envVars
<1>4. UniquePtrs' /\ Chronological'
  <2>1. \A u \in ToSet(timers) : ptr'[u] = ptr[u] /\ deadline'[u] = deadline[u]
    BY <1>1 DEF IInv, TypeOK, co_timer_create, PendingIsListed
  <2> QED  BY <1>3, <2>1, SameList DEF co_timer_create
<1>5. PendingIsListed'
  BY <1>1 DEF IInv, TypeOK, PendingIsListed, co_timer_create
<1>6. ControlOK'
  BY DEF IInv, ControlOK, co_timer_create, loopVars
<1> QED  BY <1>3, <1>4, <1>5, <1>6 DEF IInv

\* co_obj_free of a timer that is not pending takes nothing from the list.
LEMMA FreeStep ==
  ASSUME IInv, NEW t \in Timers, co_obj_free(t)
  PROVE  IInv'
<1>1. t \notin ToSet(timers)
  BY DEF IInv, PendingIsListed, co_obj_free
<1>2. TypeOK'
  BY TimesAreTimevals DEF IInv, TypeOK, co_obj_free, loopVars, envVars
<1>3. UniquePtrs' /\ Chronological'
  <2>1. \A u \in ToSet(timers) : ptr'[u] = ptr[u] /\ deadline'[u] = deadline[u]
    BY <1>1 DEF IInv, TypeOK, co_obj_free, PendingIsListed
  <2> QED  BY <1>2, <2>1, SameList DEF co_obj_free
<1>4. PendingIsListed'
  BY <1>1 DEF IInv, TypeOK, PendingIsListed, co_obj_free
<1>5. ControlOK'
  BY DEF IInv, ControlOK, co_obj_free, loopVars
<1> QED  BY <1>2, <1>3, <1>4, <1>5 DEF IInv

\* co_loop_add_timer: the checks keep ptrs distinct, the position keeps the order,
\* and the flag is set for the timer that entered the list.
LEMMA AddStep ==
  ASSUME IInv, NEW t \in Timers, co_loop_add_timer(t)
  PROVE  IInv'
<1>1. PICK i \in 1..Len(timers) + 1 :
         InsertPos(timers, deadline[t], i) /\ timers' = InsertAt(timers, i, t)
  BY DEF co_loop_add_timer
<1> DEFINE list == InsertAt(timers, i, t)
<1>2. timers \in Seq(Timers) /\ deadline \in [Timers -> Timeval]
  BY DEF IInv, TypeOK
<1>3. Distinct(timers) /\ Sorted(timers, deadline) /\ ~Scheduled(timers, ptr[t]) /\ t \in timer_cb
  BY IInvList DEF co_loop_add_timer, Addable
<1>4. list \in Seq(Timers) /\ ToSet(list) = ToSet(timers) \cup {t}
  BY <1>2, InsertAtFacts, ToSetInsertAt
<1>5. Distinct(list)
  BY <1>2, <1>3, InsertKeepsDistinct
<1>6. Sorted(list, deadline)
  BY <1>1, <1>2, <1>3, InsertKeepsSorted DEF InsertPos
<1> HIDE DEF list
<1>7. timers' = list
  BY <1>1 DEF list
<1>8. TypeOK'
  BY <1>4, <1>7 DEF IInv, TypeOK, co_loop_add_timer, loopVars, envVars
<1>9. ControlOK'
  BY DEF IInv, ControlOK, co_loop_add_timer, loopVars, UserCode
<1>10. /\ \A u \in Timers : pending'[u] <=> u \in ToSet(list)
       /\ ToSet(list) \subseteq live' \cap timer_cb'
  BY <1>3, <1>4 DEF IInv, TypeOK, PendingIsListed, co_loop_add_timer
<1>11. ptr' = ptr /\ deadline' = deadline
  BY DEF co_loop_add_timer
<1> QED  BY <1>5, <1>6, <1>7, <1>8, <1>9, <1>10, <1>11, NewList

\* co_loop_remove_timer: the entry found by ptr is the timer whose flag is cleared.
LEMMA RemoveStep ==
  ASSUME IInv, NEW t \in Timers, co_loop_remove_timer(t)
  PROVE  IInv'
<1> DEFINE list == Unlink(timers, ptr[t])
<1>1. /\ list \in Seq(Timers) /\ Distinct(list) /\ Sorted(list, deadline)
      /\ ToSet(list) = ToSet(timers) \ {t}
  BY UnlinkPending DEF co_loop_remove_timer
<1> HIDE DEF list
<1>2. timers' = list
  BY DEF list, co_loop_remove_timer
<1>3. TypeOK'
  BY <1>1, <1>2 DEF IInv, TypeOK, co_loop_remove_timer, loopVars, envVars
<1>4. ControlOK'
  BY DEF IInv, ControlOK, co_loop_remove_timer, loopVars, UserCode
<1>5. /\ \A u \in Timers : pending'[u] <=> u \in ToSet(list)
      /\ ToSet(list) \subseteq live' \cap timer_cb'
  BY <1>1 DEF IInv, TypeOK, PendingIsListed, co_loop_remove_timer
<1>6. ptr' = ptr /\ deadline' = deadline
  BY DEF co_loop_remove_timer
<1> QED  BY <1>1, <1>2, <1>3, <1>4, <1>5, <1>6, NewList

\* co_loop_set_timer: the timer leaves the list before its deadline is written, and
\* comes back at the right place or, if the second check fails, not at all.
LEMMA SetStep ==
  ASSUME IInv, NEW t \in Timers, NEW msecs \in Delays, NEW later \in Instants,
         co_loop_set_timer(t, msecs, later)
  PROVE  IInv'
<1> DEFINE rest == IF pending[t] THEN Unlink(timers, ptr[t]) ELSE timers
           d == After(clock, msecs)
<1>1. timers \in Seq(Timers) /\ deadline \in [Timers -> Timeval] /\ d \in Timeval
  BY AfterType DEF IInv, TypeOK
<1>2. /\ rest \in Seq(Timers) /\ Distinct(rest) /\ Sorted(rest, deadline)
      /\ ToSet(rest) = ToSet(timers) \ {t}
      /\ ~(pending[t] /\ ~Scheduled(timers, ptr[t]))
  <2>1. CASE pending[t]
    BY <2>1, UnlinkPending
  <2>2. CASE ~pending[t]
    BY <1>1, <2>2, IInvList DEF IInv, PendingIsListed
  <2> QED  BY <2>1, <2>2
<1>3. /\ deadline' = [deadline EXCEPT ![t] = d]
      /\ ptr' = ptr /\ live' = live /\ timer_cb' = timer_cb /\ clock' = later
      /\ t \in live
      /\ UNCHANGED <<loopVars, loop_exit, back>>
  BY DEF co_loop_set_timer
<1>4. \/ /\ Addable(t, rest, d, later)
         /\ \E i \in 1..Len(rest) + 1 : InsertPos(rest, d, i) /\ timers' = InsertAt(rest, i, t)
         /\ pending' = [pending EXCEPT ![t] = TRUE]
      \/ /\ timers' = rest
         /\ pending' = [pending EXCEPT ![t] = FALSE]
  BY <1>2 DEF co_loop_set_timer
<1> HIDE DEF rest, d
<1>5. \A i \in 1..Len(rest) : rest[i] \in Timers /\ rest[i] # t /\ deadline'[rest[i]] = deadline[rest[i]]
  <2>1. \A i \in 1..Len(rest) : rest[i] \in ToSet(rest)
    BY <1>2, ToSetMeans
  <2>2. \A i \in 1..Len(rest) : rest[i] \in Timers /\ rest[i] # t
    BY <1>2, <2>1
  <2> QED  BY <1>1, <1>3, <2>2
<1>6. Sorted(rest, deadline')
  BY <1>2, <1>5 DEF Sorted
<1>7. deadline' \in [Timers -> Timeval] /\ deadline'[t] = d
  BY <1>1, <1>3
<1>8. ControlOK'
  <2>1. phase' # "down" /\ phase' = phase /\ firing' = firing
    BY DEF co_loop_set_timer, loopVars, UserCode
  <2> QED  BY <2>1 DEF IInv, ControlOK
<1>9. CASE /\ Addable(t, rest, d, later)
           /\ \E i \in 1..Len(rest) + 1 : InsertPos(rest, d, i) /\ timers' = InsertAt(rest, i, t)
           /\ pending' = [pending EXCEPT ![t] = TRUE]
  <2>1. PICK i \in 1..Len(rest) + 1 : InsertPos(rest, d, i) /\ timers' = InsertAt(rest, i, t)
    BY <1>9
  <2> DEFINE list == InsertAt(rest, i, t)
  <2>2. list \in Seq(Timers) /\ ToSet(list) = ToSet(timers) \cup {t}
    BY <1>2, InsertAtFacts, ToSetInsertAt
  <2>3. Distinct(list)
    BY <1>2, <1>9, InsertKeepsDistinct DEF Addable
  <2>4. /\ \A j \in 1..i - 1 : ~Later(deadline'[rest[j]], deadline'[t])
        /\ i <= Len(rest) => Later(deadline'[rest[i]], deadline'[t])
    <3>1. \A j \in 1..i - 1 : j \in 1..Len(rest)
      BY <1>2, SMT
    <3>2. i <= Len(rest) => i \in 1..Len(rest)
      BY <1>2, SMT
    <3> QED  BY <1>5, <1>7, <2>1, <3>1, <3>2 DEF InsertPos
  <2>5. Sorted(list, deadline')
    BY <1>2, <1>6, <1>7, <2>4, InsertKeepsSorted
  <2> HIDE DEF list
  <2>6. timers' = list
    BY <2>1 DEF list
  <2>7. TypeOK'
    BY <1>3, <1>7, <1>9, <2>2, <2>6 DEF IInv, TypeOK, loopVars
  <2>8. /\ \A u \in Timers : pending'[u] <=> u \in ToSet(list)
        /\ ToSet(list) \subseteq live' \cap timer_cb'
    BY <1>3, <1>9, <2>2 DEF IInv, TypeOK, PendingIsListed, Addable
  <2> QED  BY <1>3, <1>8, <2>3, <2>5, <2>6, <2>7, <2>8, NewList
<1>10. CASE timers' = rest /\ pending' = [pending EXCEPT ![t] = FALSE]
  <2>1. TypeOK'
    BY <1>2, <1>3, <1>7, <1>10 DEF IInv, TypeOK, loopVars
  <2>2. /\ \A u \in Timers : pending'[u] <=> u \in ToSet(rest)
        /\ ToSet(rest) \subseteq live' \cap timer_cb'
    BY <1>2, <1>3, <1>10 DEF IInv, TypeOK, PendingIsListed
  <2> QED  BY <1>2, <1>3, <1>6, <1>8, <1>10, <2>1, <2>2, NewList
<1> QED  BY <1>4, <1>9, <1>10

\* The head of the list, when there is one, is a pending timer.
LEMMA HeadFacts ==
  ASSUME IInv, timers # <<>>
  PROVE  /\ Len(timers) \in Nat /\ 1 \in 1..Len(timers)
         /\ Head(timers) = timers[1] /\ Head(timers) \in Timers
         /\ Head(timers) \in ToSet(timers) /\ pending[Head(timers)]
<1>1. timers \in Seq(Timers)
  BY DEF IInv, TypeOK
<1>2. Len(timers) \in Nat /\ 1 \in 1..Len(timers) /\ Head(timers) = timers[1]
  BY <1>1, EmptySeq, SMT
<1>3. timers[1] \in ToSet(timers) /\ timers[1] \in Timers
  BY <1>1, <1>2, ToSetMeans
<1> QED  BY <1>2, <1>3 DEF IInv, PendingIsListed

\* _co_loop_process_timers removes the head it is about to fire.
LEMMA ProcessStep ==
  ASSUME IInv, ProcessTimer
  PROVE  IInv'
<1> DEFINE t == Head(timers)
           list == Unlink(timers, ptr[t])
<1>1. t \in Timers /\ pending[t]
  BY HeadFacts DEF ProcessTimer, HeadIsDue
<1>2. /\ list \in Seq(Timers) /\ Distinct(list) /\ Sorted(list, deadline)
      /\ ToSet(list) = ToSet(timers) \ {t}
  BY <1>1, UnlinkPending
<1>3. timers' = list /\ pending' = [pending EXCEPT ![t] = FALSE] /\ firing' = t
  BY <1>1 DEF ProcessTimer
<1>4. /\ phase' = "callback"
      /\ UNCHANGED <<live, deadline, ptr, timer_cb, now, timeout, loop_exit, envVars>>
  BY DEF ProcessTimer
<1> HIDE DEF t, list
<1>5. TypeOK'
  BY <1>1, <1>2, <1>3, <1>4 DEF IInv, TypeOK, Phases, envVars
<1>6. ControlOK'
  BY <1>1, <1>3, <1>4, TimersAssumption DEF ControlOK
<1>7. /\ \A u \in Timers : pending'[u] <=> u \in ToSet(list)
      /\ ToSet(list) \subseteq live' \cap timer_cb'
  BY <1>1, <1>2, <1>3, <1>4 DEF IInv, TypeOK, PendingIsListed
<1> QED  BY <1>2, <1>3, <1>4, <1>5, <1>6, <1>7, NewList

\* co_loop_destroy frees the list with the timers in it.
LEMMA DestroyStep ==
  ASSUME IInv, co_loop_destroy
  PROVE  IInv'
<1>1. timers' = <<>> /\ ToSet(timers') = {} /\ Len(timers') = 0
  BY DEF co_loop_destroy, ToSet
<1>2. TypeOK'
  BY TimesAreTimevals DEF IInv, TypeOK, co_loop_destroy, Phases, envVars
<1>3. PendingIsListed'
  BY <1>1 DEF IInv, PendingIsListed, co_loop_destroy
<1>4. UniquePtrs' /\ Chronological'
  BY <1>1, SMT DEF UniquePtrs, Chronological
<1>5. ControlOK'
  BY <1>1 DEF IInv, ControlOK, co_loop_destroy
<1> QED  BY <1>2, <1>3, <1>4, <1>5 DEF IInv

\* The steps that leave the timers and the list as they are.
LEMMA OtherSteps ==
  ASSUME IInv,
         \/ co_loop_stop \/ co_loop_create \/ co_loop_start
         \/ LoopTop \/ CallbackReturns \/ TimersDone \/ EndPoll
         \/ Tick \/ StepBack
  PROVE  IInv'
<1>1. timers' = timers
  BY DEF IInv, ControlOK, co_loop_stop, co_loop_create, co_loop_start, LoopTop,
         CallbackReturns, TimersDone, EndPoll, Tick, StepBack, timerVars
<1>2. UNCHANGED <<live, pending, deadline, ptr, timer_cb>>
  BY DEF co_loop_stop, co_loop_create, co_loop_start, LoopTop,
         CallbackReturns, TimersDone, EndPoll, Tick, StepBack, timerVars
<1>3. firing' \in Timers \cup {NoTimer} /\ phase' \in Phases /\ now' \in Instants \cup {Epoch}
  BY DEF IInv, TypeOK, Phases, co_loop_stop, co_loop_create, co_loop_start, LoopTop,
         CallbackReturns, TimersDone, EndPoll, Tick, StepBack, loopVars
<1>4. timeout' \in Int
  <2>1. CASE TimersDone
    <3>1. _co_loop_get_next_deadline(clock) \in Int
      <4>1. CASE timers = <<>>
        BY <4>1 DEF _co_loop_get_next_deadline
      <4>2. CASE timers # <<>>
        <5>1. deadline[Head(timers)] \in Timeval /\ clock \in Timeval
          BY <4>2, HeadFacts, TimesAreTimevals DEF IInv, TypeOK
        <5>2. /\ deadline[Head(timers)].sec \in Int /\ deadline[Head(timers)].usec \in Int
              /\ clock.sec \in Int /\ clock.usec \in Int
          BY <5>1, SMT DEF Timeval
        <5>3. DivMsec(deadline[Head(timers)].usec - clock.usec) \in Int
          BY <5>2, DivMsecFacts
        <5> QED  BY <4>2, <5>2, <5>3, SMT DEF _co_loop_get_next_deadline, _co_loop_tv_diff
      <4> QED  BY <4>1, <4>2
    <3> QED  BY <2>1, <3>1, SMT DEF TimersDone, PollTimeout, LOOP_TIMEOUT
  <2>2. CASE ~TimersDone
    BY <2>2 DEF IInv, TypeOK, co_loop_stop, co_loop_create, co_loop_start, LoopTop,
         CallbackReturns, EndPoll, Tick, StepBack, loopVars
  <2> QED  BY <2>1, <2>2
<1>5. loop_exit' \in BOOLEAN /\ clock' \in Instants
  BY DEF IInv, TypeOK, co_loop_stop, co_loop_create, co_loop_start, LoopTop,
         CallbackReturns, TimersDone, EndPoll, Tick, StepBack, envVars
<1>6. back' \in 0..MaxBack
  <2>1. CASE StepBack
    BY <2>1, TimersAssumption, SMT DEF IInv, TypeOK, StepBack
  <2>2. CASE ~StepBack
    BY <2>2 DEF IInv, TypeOK, co_loop_stop, co_loop_create, co_loop_start, LoopTop,
         CallbackReturns, TimersDone, EndPoll, Tick, envVars
  <2> QED  BY <2>1, <2>2
<1>7. TypeOK'
  BY <1>1, <1>2, <1>3, <1>4, <1>5, <1>6 DEF IInv, TypeOK
<1>8. ControlOK'
  BY DEF IInv, ControlOK, co_loop_stop, co_loop_create, co_loop_start, LoopTop,
         CallbackReturns, TimersDone, EndPoll, Tick, StepBack, timerVars, loopVars
<1>9. PendingIsListed' /\ UniquePtrs' /\ Chronological'
  BY <1>1, <1>2 DEF IInv, PendingIsListed, UniquePtrs, Chronological
<1> QED  BY <1>7, <1>8, <1>9 DEF IInv

\* Every step keeps the invariant.
THEOREM NextIInv == IInv /\ [Next]_vars => IInv'
<1> SUFFICES ASSUME IInv, [Next]_vars PROVE IInv'
  OBVIOUS
<1>1. ASSUME NEW t \in Timers, Call(t)  PROVE IInv'
  BY <1>1, CreateStep, FreeStep, AddStep, RemoveStep, SetStep DEF Call
<1>2. CASE ProcessTimer
  BY <1>2, ProcessStep
<1>3. CASE co_loop_destroy
  BY <1>3, DestroyStep
<1>4. CASE \/ co_loop_stop \/ co_loop_create \/ co_loop_start
           \/ LoopTop \/ CallbackReturns \/ TimersDone \/ EndPoll
           \/ Tick \/ StepBack
  BY <1>4, OtherSteps
<1>5. CASE UNCHANGED vars
  BY <1>5 DEF vars, timerVars, loopVars, envVars, IInv, TypeOK, PendingIsListed,
              UniquePtrs, Chronological, ControlOK
<1> QED  BY <1>1, <1>2, <1>3, <1>4, <1>5 DEF Next, LoopStep

\* The invariant holds in all reachable states of the loop.
THEOREM TimersInvariant == Spec => []IInv
BY InitIInv, NextIInv, PTL DEF Spec

\* Every field of the timers and of the loop keeps its type; in particular the
\* deadlines co_loop_set_timer computes are times, with their microseconds at most
\* 1000000.
THEOREM TypeCorrect == Spec => []TypeOK
<1>1. IInv => TypeOK
  BY DEF IInv
<1> QED  BY <1>1, TimersInvariant, PTL

\* The list of loop.c is what the rest of the code takes it for: exactly the
\* pending timers, found by their ptr.
THEOREM ListHasPending == Spec => [](PendingIsListed /\ UniquePtrs)
<1>1. IInv => PendingIsListed /\ UniquePtrs
  BY DEF IInv
<1> QED  BY <1>1, TimersInvariant, PTL

\* The list is in chronological order, as insertion and the sweep expect.
THEOREM ListInOrder == Spec => []Chronological
<1>1. IInv => Chronological
  BY DEF IInv
<1> QED  BY <1>1, TimersInvariant, PTL

-----------------------------------------------------------------------------
(* What a sweep guarantees.                                                *)

\* The head is not later than any timer in the list.
LEMMA HeadFirst ==
  ASSUME IInv, timers # <<>>, NEW u \in ToSet(timers)
  PROVE  ~Later(deadline[Head(timers)], deadline[u])
<1>1. timers \in Seq(Timers)
  BY DEF IInv, TypeOK
<1>2. PICK k \in 1..Len(timers) : timers[k] = u
  BY <1>1, ToSetMeans
<1>3. /\ Len(timers) \in Nat /\ 1 \in 1..Len(timers) /\ Head(timers) = timers[1]
      /\ Head(timers) \in Timers
  BY HeadFacts
<1>4. CASE k = 1
  <2>1. deadline[Head(timers)] \in Timeval
    BY <1>3 DEF IInv, TypeOK
  <2> QED  BY <1>2, <1>3, <1>4, <2>1, NotLaterThanItself
<1>5. CASE 1 < k
  BY <1>2, <1>3, <1>5 DEF IInv, Chronological
<1> QED  BY <1>2, <1>4, <1>5, SMT

\* A head that is not due leaves no timer overdue.
LEMMA NoneOverdue ==
  ASSUME IInv, ~HeadIsDue, NEW u \in ToSet(timers)
  PROVE  ~Later(now, deadline[u])
<1>1. timers \in Seq(Timers) /\ u \in Timers
  BY ToSetMeans DEF IInv, TypeOK
<1>2. timers # <<>>
  <2>1. PICK k \in 1..Len(timers) : timers[k] = u
    BY <1>1, ToSetMeans
  <2> QED  BY <2>1, SMT
<1>3. Later(deadline[Head(timers)], now)
  BY <1>2 DEF HeadIsDue
<1>4. /\ deadline[Head(timers)] \in Timeval /\ deadline[u] \in Timeval /\ now \in Timeval
  BY <1>1, <1>2, HeadFacts, TimesAreTimevals DEF IInv, TypeOK
<1> QED  BY <1>2, <1>3, <1>4, HeadFirst, LaterSplits

\* _co_loop_process_timers may stop at the first timer that is not due: none
\* behind it is overdue.
THEOREM SweepComplete == Spec => NoneOverdueLeft
<1> DEFINE Done == phase = "timers" /\ phase' = "poll" =>
                       \A t \in ToSet(timers) : ~Later(now, deadline[t])
<1>1. ASSUME IInv, [Next]_vars  PROVE [Done]_vars
  <2> SUFFICES ASSUME Next, phase = "timers", phase' = "poll", NEW t \in ToSet(timers)
               PROVE  ~Later(now, deadline[t])
    BY <1>1
  <2>1. TimersDone
    BY DEF Next, Call, LoopStep, UserCode, co_timer_create, co_obj_free, co_loop_add_timer,
           co_loop_remove_timer, co_loop_set_timer, co_loop_stop, co_loop_create,
           co_loop_destroy, co_loop_start, LoopTop, ProcessTimer, CallbackReturns, EndPoll,
           Tick, StepBack, loopVars
  <2> QED  BY <1>1, <2>1, NoneOverdue DEF TimersDone
<1> QED  BY <1>1, TimersInvariant, PTL DEF Spec, NoneOverdueLeft

-----------------------------------------------------------------------------
(* The list implements TimerService.                                       *)

\* The abstract variables.
dueBar == [t \in ToSet(timers) |-> deadline[t]]
sweepBar == IF phase \in {"timers", "callback"} THEN <<now>> ELSE <<>>
barVars == <<dueBar, sweepBar, firing>>

\* A step that keeps the armed timers' deadlines, the phase and now is a stutter.
LEMMA BarUnchanged ==
  ASSUME timers' = timers, \A t \in ToSet(timers) : deadline'[t] = deadline[t],
         UNCHANGED loopVars
  PROVE  UNCHANGED barVars
<1>1. dueBar' = dueBar
  BY DEF dueBar
<1>2. sweepBar' = sweepBar /\ firing' = firing
  BY DEF sweepBar, loopVars
<1> QED  BY <1>1, <1>2 DEF barVars

\* User code runs outside sweeps and in callbacks.
LEMMA OwnersTurnBar ==
  ASSUME IInv, UserCode
  PROVE  sweepBar = <<>> \/ firing # NoTimer
BY DEF UserCode, sweepBar, IInv, ControlOK

\* A call that leaves t in the list arms it, one that does not disarms it.
LEMMA CallBar ==
  ASSUME IInv, IInv', UserCode, NEW t \in Timers, UNCHANGED loopVars,
         ToSet(timers') \cup {t} = ToSet(timers) \cup {t},
         \A u \in Timers : u # t => deadline'[u] = deadline[u]
  PROVE  Service!Arm(t) \/ Service!Disarm(t)
<1>1. sweepBar' = sweepBar /\ firing' = firing
  BY DEF sweepBar, loopVars
<1>2. sweepBar = <<>> \/ firing # NoTimer
  BY OwnersTurnBar
<1>3. /\ ToSet(timers) \subseteq Timers
      /\ timers' \in Seq(Timers) /\ deadline' \in [Timers -> Timeval]
  BY ToSetMeans DEF IInv, TypeOK
<1>4. CASE t \in ToSet(timers')
  <2>1. ToSet(timers') = ToSet(timers) \cup {t}
    BY <1>4
  <2>2. dueBar' = [u \in ToSet(timers) \cup {t} |-> IF u = t THEN deadline'[t] ELSE deadline[u]]
    BY <1>3, <2>1 DEF dueBar
  <2>3. t \in DOMAIN dueBar' /\ dueBar'[t] = deadline'[t] /\ deadline'[t] \in Timeval
    BY <1>3, <1>4 DEF dueBar
  <2>4. dueBar' = [u \in DOMAIN dueBar \cup {t} |-> IF u = t THEN dueBar'[t] ELSE dueBar[u]]
    BY <2>2, <2>3 DEF dueBar
  <2>5. Service!Arm(t)
    BY <1>1, <1>2, <2>3, <2>4 DEF Service!Arm, Service!OwnersTurn, Service!Armed, dueBar, sweepBar
  <2> QED  BY <2>5
<1>5. CASE t \notin ToSet(timers')
  <2>1. ToSet(timers') = ToSet(timers) \ {t}
    BY <1>5
  <2>2. dueBar' = [u \in DOMAIN dueBar \ {t} |-> dueBar[u]]
    BY <1>3, <2>1 DEF dueBar
  <2>3. Service!Disarm(t)
    BY <1>1, <1>2, <2>2 DEF Service!Disarm, Service!OwnersTurn, Service!Armed, dueBar, sweepBar
  <2> QED  BY <2>3
<1> QED  BY <1>4, <1>5

\* Firing the head is firing a first timer; the list loses just that one.
LEMMA FireBar ==
  ASSUME IInv, ProcessTimer, NEW t, t = Head(timers)
  PROVE  Service!Fire(t)
<1>1. timers # <<>> /\ ~Later(deadline[t], now) /\ phase = "timers" /\ phase' = "callback"
  BY DEF ProcessTimer, HeadIsDue
<1>2. t \in Timers /\ t \in ToSet(timers) /\ pending[t]
  BY <1>1, HeadFacts
<1>3. \A u \in ToSet(timers) : ~Later(deadline[t], deadline[u])
  BY <1>1, HeadFirst
<1>4. ToSet(timers') = ToSet(timers) \ {t}
  BY <1>2, UnlinkPending DEF ProcessTimer
<1>5. deadline' = deadline /\ now' = now /\ firing' = t
  BY DEF ProcessTimer
<1>6. firing = NoTimer
  BY <1>1 DEF IInv, ControlOK
<1>7. sweepBar = <<now>> /\ sweepBar' = sweepBar /\ sweepBar # <<>> /\ sweepBar[1] = now
  BY <1>1, <1>5 DEF sweepBar
<1>8. dueBar' = [u \in DOMAIN dueBar \ {t} |-> dueBar[u]]
  BY <1>4, <1>5 DEF dueBar
<1>9. t \in DOMAIN dueBar /\ dueBar[t] = deadline[t] /\ \A u \in DOMAIN dueBar : ~Later(dueBar[t], dueBar[u])
  BY <1>2, <1>3 DEF dueBar
<1> QED  BY <1>1, <1>5, <1>6, <1>7, <1>8, <1>9 DEF Service!Fire, Service!Armed, dueBar, sweepBar

\* The steps of co_loop_start are steps of a sweep: it begins, fires, returns from
\* a callback and ends, or nothing the service shows changes.
LEMMA LoopBar ==
  ASSUME IInv, LoopTop \/ CallbackReturns \/ TimersDone \/ EndPoll
  PROVE  Service!BeginSweep \/ Service!Return \/ Service!EndSweep \/ UNCHANGED barVars
<1>1. dueBar' = dueBar
  BY DEF dueBar, LoopTop, CallbackReturns, TimersDone, EndPoll, timerVars
<1>2. CASE LoopTop
  <2>1. firing = NoTimer /\ firing' = firing /\ sweepBar = <<>>
    BY <1>2 DEF LoopTop, IInv, ControlOK, sweepBar
  <2>2. CASE loop_exit
    BY <1>1, <1>2, <2>1, <2>2 DEF LoopTop, barVars, sweepBar
  <2>3. CASE ~loop_exit
    <3>1. sweepBar' = <<clock>> /\ clock \in Timeval
      BY <1>2, <2>3, TimesAreTimevals DEF LoopTop, sweepBar, IInv
    <3>2. sweepBar' # <<>> /\ sweepBar'[1] \in Timeval /\ sweepBar' = <<sweepBar'[1]>>
      BY <3>1
    <3> QED  BY <1>1, <2>1, <3>2 DEF Service!BeginSweep, dueBar, sweepBar
  <2> QED  BY <2>2, <2>3
<1>3. CASE CallbackReturns
  <2>1. firing # NoTimer /\ firing' = NoTimer /\ sweepBar' = sweepBar
    BY <1>3 DEF CallbackReturns, IInv, ControlOK, sweepBar
  <2> QED  BY <1>1, <2>1 DEF Service!Return, dueBar, sweepBar
<1>4. CASE TimersDone
  <2>1. /\ firing = NoTimer /\ firing' = firing
        /\ sweepBar # <<>> /\ sweepBar[1] = now /\ sweepBar' = <<>>
    BY <1>4 DEF TimersDone, IInv, ControlOK, sweepBar
  <2>2. \A u \in DOMAIN dueBar : ~Later(now, dueBar[u])
    BY <1>4, NoneOverdue DEF dueBar, TimersDone
  <2> QED  BY <1>1, <2>1, <2>2 DEF Service!EndSweep, Service!Armed, dueBar, sweepBar
<1>5. CASE EndPoll
  <2>1. firing' = firing /\ sweepBar = <<>> /\ sweepBar' = <<>>
    BY <1>5 DEF EndPoll, sweepBar
  <2> QED  BY <1>1, <2>1 DEF barVars
<1> QED  BY <1>2, <1>3, <1>4, <1>5

\* co_loop_destroy disarms all timers.
LEMMA ClearBar ==
  ASSUME IInv, co_loop_destroy
  PROVE  Service!Clear
<1>1. dueBar' = [t \in {} |-> 0]
  BY DEF dueBar, co_loop_destroy, ToSet
<1>2. sweepBar = <<>> /\ sweepBar' = <<>> /\ firing' = firing
  BY DEF sweepBar, co_loop_destroy
<1> QED  BY <1>1, <1>2 DEF Service!Clear, dueBar, sweepBar

\* Calls that set one timer's fields, and only that one's.
LEMMA UserBar ==
  ASSUME IInv, IInv', NEW t \in Timers, Call(t)
  PROVE  Service!Arm(t) \/ Service!Disarm(t)
<1>1. UserCode /\ UNCHANGED loopVars
  BY DEF Call, co_timer_create, co_obj_free, co_loop_add_timer, co_loop_remove_timer,
         co_loop_set_timer
<1>2. \A u \in Timers : u # t => deadline'[u] = deadline[u]
  BY DEF Call, co_timer_create, co_obj_free, co_loop_add_timer, co_loop_remove_timer,
         co_loop_set_timer, IInv, TypeOK
<1>3. \A u \in Timers : u # t => (pending'[u] <=> pending[u])
  BY DEF Call, co_timer_create, co_obj_free, co_loop_add_timer, co_loop_remove_timer,
         co_loop_set_timer, IInv, TypeOK
<1>4. ToSet(timers) \subseteq Timers /\ ToSet(timers') \subseteq Timers
  BY ToSetMeans DEF IInv, TypeOK
<1>5. \A u \in Timers : u # t => (u \in ToSet(timers') <=> u \in ToSet(timers))
  BY <1>3 DEF IInv, PendingIsListed
<1>6. ToSet(timers') \cup {t} = ToSet(timers) \cup {t}
  BY <1>4, <1>5
<1> QED  BY <1>1, <1>2, <1>6, CallBar

\* The event loop implements the timer service: a step of the one is a step of the
\* other, or leaves it unchanged.
THEOREM Implementation == Spec => ImplementsService
<1>1. Init => Service!Init
  <2> SUFFICES ASSUME Init PROVE Service!Init
    OBVIOUS
  <2>1. dueBar = [t \in {} |-> 0]
    BY DEF dueBar, Init, ToSet
  <2>2. sweepBar = <<>> /\ firing = NoTimer
    BY DEF sweepBar, Init
  <2> QED  BY <2>1, <2>2 DEF Service!Init, dueBar, sweepBar
<1>2. IInv /\ IInv' /\ [Next]_vars => [Service!Next]_(Service!vars)
  <2> SUFFICES ASSUME IInv, IInv', [Next]_vars PROVE [Service!Next]_(Service!vars)
    OBVIOUS
  <2>1. ASSUME NEW t \in Timers, Call(t)  PROVE Service!Next
    BY <2>1, UserBar DEF Service!Next
  <2>2. CASE ProcessTimer
    <3>1. PICK t \in Timers : t = Head(timers)
      BY <2>2, HeadFacts DEF ProcessTimer, HeadIsDue
    <3>2. Service!Fire(t)
      BY <2>2, <3>1, FireBar
    <3> QED  BY <3>2 DEF Service!Next
  <2>3. CASE LoopTop \/ CallbackReturns \/ TimersDone \/ EndPoll
    <3>1. CASE Service!BeginSweep \/ Service!Return \/ Service!EndSweep
      BY <3>1 DEF Service!Next
    <3>2. CASE UNCHANGED barVars
      <4>1. dueBar' = dueBar /\ sweepBar' = sweepBar /\ firing' = firing
        BY <3>2 DEF barVars
      <4> QED  BY <4>1 DEF Service!vars, dueBar, sweepBar
    <3> QED  BY <2>3, <3>1, <3>2, LoopBar
  <2>4. CASE co_loop_destroy
    BY <2>4, ClearBar DEF Service!Next
  <2>5. CASE co_loop_create \/ co_loop_start
    <3>1. dueBar' = dueBar
      BY <2>5 DEF dueBar, co_loop_create, co_loop_start, timerVars, IInv, ControlOK
    <3>2. sweepBar' = sweepBar /\ firing' = firing
      BY <2>5 DEF sweepBar, co_loop_create, co_loop_start
    <3> QED  BY <3>1, <3>2 DEF Service!vars, dueBar, sweepBar
  <2>6. CASE co_loop_stop \/ Tick \/ StepBack \/ UNCHANGED vars
    <3>1. timers' = timers /\ deadline' = deadline /\ UNCHANGED loopVars
      BY <2>6 DEF co_loop_stop, Tick, StepBack, vars, timerVars
    <3>2. dueBar' = dueBar /\ sweepBar' = sweepBar /\ firing' = firing
      BY <3>1, BarUnchanged DEF barVars
    <3> QED  BY <3>2 DEF Service!vars, dueBar, sweepBar
  <2> QED  BY <2>1, <2>2, <2>3, <2>4, <2>5, <2>6 DEF Next, LoopStep
<1> QED  BY <1>1, <1>2, TimersInvariant, PTL DEF Spec, ImplementsService, Service!Spec
=============================================================================
