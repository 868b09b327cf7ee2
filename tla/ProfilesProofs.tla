--------------------------- MODULE ProfilesProofs ---------------------------
(***************************************************************************)
(* For any names, keys and values, a name is listed at most once, and the  *)
(* list and the files implement the store of profiles.                     *)
(***************************************************************************)
EXTENDS Profiles, ListLemmas, FiniteSetTheorems

\* The inductive invariant.
IInv == TypeOK /\ NamesAreUnique

-----------------------------------------------------------------------------
(* The operators the actions are built from.                               *)

\* What an import makes of a file's contents is data for every key of the schemas.
LEMMA ImportType ==
    ASSUME NEW c \in Contents
    PROVE  Import(c) \in Data
<1>1. PICK K \in SUBSET Keys : c \in [K -> Values \ Unwritable]
  BY DEF Contents
<1>2. \A x \in Keys : (IF x \in DOMAIN c THEN c[x] ELSE Default[x]) \in Values
  BY <1>1, ProfilesAssumption DEF Data
<1> QED BY <1>2 DEF Import, Data

\* What a save writes is contents of a file, or damaged.
LEMMA ExportType ==
    ASSUME NEW d \in Data
    PROVE  Export(d) \in Contents \cup {Damaged}
<1>1. CASE \E x \in Keys : d[x] \in Unwritable
  BY <1>1 DEF Export
<1>2. CASE \A x \in Keys : d[x] \notin Unwritable
  <2>1. d \in [Keys -> Values \ Unwritable]
    BY <1>2 DEF Data
  <2> QED BY <2>1, <1>2 DEF Export, Contents
<1> QED BY <1>1, <1>2

\* A directory is listed without repetitions.
LEMMA ListingsType ==
    ASSUME TypeOK, NEW order \in Listings
    PROVE  /\ order \in Seq(Names)
           /\ \A i, j \in 1..Len(order) : order[i] = order[j] => i = j
           /\ \A i \in 1..Len(order) : files[order[i]] # Absent
<1> DEFINE F == {n \in Names : files[n] # Absent}
<1>1. Cardinality(F) \in Nat
  BY FS_Subset, FS_CardinalityType, ProfilesAssumption
<1>2. /\ order \in [1..Cardinality(F) -> F]
      /\ \A i, j \in 1..Cardinality(F) : i # j => order[i] # order[j]
  BY DEF Listings, SetToSeqs
<1> HIDE DEF F
<1>3. order \in Seq(F) /\ Len(order) = Cardinality(F)
  BY <1>1, <1>2
<1>4. order \in Seq(Names)
  BY <1>3 DEF F
<1>5. \A i \in 1..Len(order) : order[i] \in F
  BY <1>2, <1>3
<1>6. \A i \in 1..Len(order) : files[order[i]] # Absent
  BY <1>5 DEF F
<1> QED BY <1>2, <1>3, <1>4, <1>6

-----------------------------------------------------------------------------
(* The invariant.                                                          *)

\* Before the first start nothing is listed and there are no files.
LEMMA InitIInv == Init => IInv
BY ProfilesAssumption DEF Init, IInv, TypeOK, NamesAreUnique, Data, Profile, Contents

\* new finds no profile of the name before it appends one.
LEMMA NewIInv ==
    ASSUME IInv, NEW n \in Names, CMD_new(n)
    PROVE  IInv'
<1> USE DEF IInv
<1>1. Default \in Data
  BY ProfilesAssumption
<1>2. TypeOK'
  BY <1>1 DEF TypeOK, CMD_new, co_profile_add, Profile
<1>3. \A i \in 1..Len(_profiles) : _profiles[i].name # n
  <2>1. SUFFICES ASSUME NEW i \in 1..Len(_profiles), _profiles[i].name = n PROVE FALSE
    OBVIOUS
  <2>2. \E j \in 1..Len(_profiles) : _profiles[j].name = n
    BY <2>1
  <2>3. ~ co_profile_find(n, i)
    BY DEF CMD_new, Exists
  <2> QED BY <2>1, <2>3 DEF co_profile_find, NamesAreUnique, TypeOK
<1>4. NamesAreUnique'
  BY <1>3 DEF NamesAreUnique, CMD_new, co_profile_add, TypeOK, Profile
<1> QED BY <1>2, <1>4

\* delete leaves the other profiles, in their order.
LEMMA DeleteIInv ==
    ASSUME IInv, NEW n \in Names, CMD_delete(n)
    PROVE  IInv'
<1> USE DEF IInv
<1>1. PICK i \in 1..Len(_profiles) : _profiles' = RemoveAt(_profiles, i)
  BY DEF CMD_delete, co_profile_remove
<1>2. _profiles \in Seq(Profile)
  BY DEF TypeOK
<1>3. TypeOK'
  BY <1>1, <1>2, RemoveAtFacts DEF TypeOK, CMD_delete
<1>4. /\ Len(_profiles') = Len(_profiles) - 1
      /\ \A j \in 1..Len(_profiles) - 1 :
            _profiles'[j] = IF j < i THEN _profiles[j] ELSE _profiles[j + 1]
  BY <1>1, <1>2, RemoveAtFacts
<1>5. NamesAreUnique'
  <2>1. SUFFICES ASSUME NEW j \in 1..Len(_profiles) - 1, NEW l \in 1..Len(_profiles) - 1,
                        _profiles'[j].name = _profiles'[l].name
                 PROVE  j = l
    BY <1>4 DEF NamesAreUnique
  <2> DEFINE Old(o) == IF o < i THEN o ELSE o + 1
  <2>2. Old(j) \in 1..Len(_profiles) /\ Old(l) \in 1..Len(_profiles)
    BY <1>2
  <2>3. _profiles'[j] = _profiles[Old(j)] /\ _profiles'[l] = _profiles[Old(l)]
    BY <1>4
  <2>4. Old(j) = Old(l)
    BY <2>1, <2>2, <2>3 DEF NamesAreUnique
  <2> QED BY <2>4
<1> QED BY <1>3, <1>5

\* set changes one value of one profile, and no name.
LEMMA SetIInv ==
    ASSUME IInv, NEW n \in Names, NEW x \in Keys, NEW v \in Values, CMD_set(n, x, v)
    PROVE  IInv'
<1> USE DEF IInv
<1>1. CASE UNCHANGED _profiles
  <2>1. _profile_global' \in Data
    BY DEF CMD_set, TypeOK, Data
  <2> QED BY <1>1, <2>1 DEF CMD_set, TypeOK, NamesAreUnique
<1>2. ASSUME NEW i \in 1..Len(_profiles),
             _profiles' = [_profiles EXCEPT ![i].data[x] = v], UNCHANGED _profile_global
      PROVE  IInv'
  <2>1. /\ _profiles \in Seq(Profile)
        /\ _profiles[i] \in Profile
    BY DEF TypeOK
  <2>2. [_profiles[i] EXCEPT !.data[x] = v] \in Profile
    BY <2>1 DEF Profile, Data
  <2>3. /\ _profiles' \in Seq(Profile)
        /\ Len(_profiles') = Len(_profiles)
        /\ \A j \in 1..Len(_profiles) : _profiles'[j].name = _profiles[j].name
    BY <1>2, <2>1, <2>2 DEF Profile
  <2> QED BY <1>2, <2>3 DEF CMD_set, TypeOK, NamesAreUnique
<1> QED BY <1>1, <1>2 DEF CMD_set

\* Saves, whole or cut short, and edits change files only; the memory is kept or lost.
LEMMA SaveIInv ==
    ASSUME IInv, NEW n \in Names, NEW m \in Names,
           CMD_save(n, m) \/ SaveCutShort(n, m) \/ Edit
    PROVE  IInv'
<1> USE DEF IInv
<1>1. /\ files' \in [Names -> Contents \cup {Absent, Damaged}]
      /\ config' \in Contents \cup {Absent, Damaged}
  <2>1. CASE CMD_save(n, m)
    <3>1. Export(_profile_global) \in Contents \cup {Damaged}
      BY ExportType DEF TypeOK
    <3>2. \A i \in 1..Len(_profiles) : Export(_profiles[i].data) \in Contents \cup {Damaged}
      <4>1. \A i \in 1..Len(_profiles) : _profiles[i] \in Profile
        BY DEF TypeOK
      <4> QED BY <4>1, ExportType DEF Profile
    <3> QED BY <2>1, <3>1, <3>2 DEF CMD_save, WriteFile, WriteConfig, TypeOK
  <2>2. CASE SaveCutShort(n, m)
    BY <2>2 DEF SaveCutShort, WriteFile, WriteConfig, TypeOK
  <2>3. CASE Edit
    BY <2>3 DEF Edit, WriteFile, WriteConfig, TypeOK
  <2> QED BY <2>1, <2>2, <2>3
<1>2. UNCHANGED <<phase, _profiles, _profile_global>> \/ Forget
  BY DEF CMD_save, SaveCutShort, Edit
<1>3. CASE UNCHANGED <<phase, _profiles, _profile_global>>
  BY <1>1, <1>3 DEF TypeOK, NamesAreUnique
<1>4. CASE Forget
  BY <1>1, <1>4, ProfilesAssumption DEF Forget, TypeOK, NamesAreUnique
<1> QED BY <1>2, <1>3, <1>4

\* The list starts empty and the directory names a file once.
LEMMA StartIInv ==
    ASSUME IInv, Start
    PROVE  IInv'
<1> USE DEF IInv
<1>1. _profile_global' \in Data
  BY ImportType, ProfilesAssumption DEF Start, ImportGlobal
<1>2. PICK order \in Listings : \E count \in 0..Len(order) : \E data \in [1..count -> Data] :
         _profiles' = [i \in 1..count |-> [name |-> order[i], data |-> data[i]]]
  BY DEF Start, ImportFiles
<1>3. /\ order \in Seq(Names)
      /\ \A i, j \in 1..Len(order) : order[i] = order[j] => i = j
  BY ListingsType
<1>4. PICK count \in 0..Len(order) : \E data \in [1..count -> Data] :
         _profiles' = [i \in 1..count |-> [name |-> order[i], data |-> data[i]]]
  BY <1>2
<1>5. PICK data \in [1..count -> Data] :
         _profiles' = [i \in 1..count |-> [name |-> order[i], data |-> data[i]]]
  BY <1>4
<1>6. count \in Nat /\ count <= Len(order)
  BY <1>3
<1>7. \A i \in 1..count : [name |-> order[i], data |-> data[i]] \in Profile
  BY <1>3, <1>5, <1>6 DEF Profile
<1>8. /\ _profiles' \in Seq(Profile)
      /\ Len(_profiles') = count
      /\ \A i \in 1..count : _profiles'[i].name = order[i]
  BY <1>5, <1>6, <1>7
<1>9. TypeOK'
  BY <1>1, <1>8 DEF Start, TypeOK
<1>10. NamesAreUnique'
  BY <1>3, <1>6, <1>8 DEF NamesAreUnique
<1> QED BY <1>9, <1>10

\* Every step keeps the invariant.
LEMMA NextIInv == IInv /\ [Next]_vars => IInv'
<1> SUFFICES ASSUME IInv, [Next]_vars PROVE IInv'
  OBVIOUS
<1>1. CASE UNCHANGED vars
  BY <1>1 DEF vars, IInv, TypeOK, NamesAreUnique
<1>2. CASE \E n \in Names : CMD_new(n) \/ CMD_delete(n)
  BY <1>2, NewIInv, DeleteIInv
<1>3. CASE \E n \in Names, x \in Keys, v \in Values : CMD_set(n, x, v)
  BY <1>3, SetIInv
<1>4. CASE \E n, m \in Names : CMD_save(n, m) \/ SaveCutShort(n, m)
  BY <1>4, SaveIInv
<1>5. CASE Edit
  BY <1>5, SaveIInv, ProfilesAssumption
<1>6. CASE Start
  BY <1>6, StartIInv
<1>7. CASE Stop
  BY <1>7, ProfilesAssumption DEF Stop, Forget, IInv, TypeOK, NamesAreUnique, Profile
<1> QED BY <1>1, <1>2, <1>3, <1>4, <1>5, <1>6, <1>7 DEF Next

\* Whatever is created, saved, damaged, edited and imported, in any order, a name
\* is listed at most once, so find, set, save and delete mean one profile.
THEOREM UniqueNames == Spec => []NamesAreUnique
<1>1. IInv => NamesAreUnique
  BY DEF IInv
<1> QED BY <1>1, InitIInv, NextIInv, PTL DEF Spec

\* Every profile, listed or global, has a value for every key of the schemas, from
\* wherever it was imported.
THEOREM ProfilesType == Spec => []TypeOK
<1>1. IInv => TypeOK
  BY DEF IInv
<1> QED BY <1>1, InitIInv, NextIInv, PTL DEF Spec

-----------------------------------------------------------------------------
(* The refinement of ProfileStore.                                         *)

Unique(list) == \A i, j \in 1..Len(list) : list[i].name = list[j].name => i = j

NamesIn(list) == {list[i].name : i \in 1..Len(list)}

\* A list that names profiles once is a map from names to data.
LEMMA StoredFacts ==
    ASSUME NEW list \in Seq(Profile), Unique(list)
    PROVE  /\ DOMAIN Stored(list) = NamesIn(list)
           /\ Stored(list) = [n \in NamesIn(list) |-> Stored(list)[n]]
           /\ \A i \in 1..Len(list) : Stored(list)[list[i].name] = list[i].data
<1>1. DOMAIN Stored(list) = NamesIn(list)
  BY DEF Stored, NamesIn
<1>2. ASSUME NEW i \in 1..Len(list) PROVE Stored(list)[list[i].name] = list[i].data
  <2> DEFINE All == {list[j] : j \in 1..Len(list)}
             p == CHOOSE q \in All : q.name = list[i].name
  <2>1. \E q \in All : q.name = list[i].name
    OBVIOUS
  <2>2. p \in All /\ p.name = list[i].name
    BY <2>1
  <2>3. PICK j \in 1..Len(list) : p = list[j]
    BY <2>2
  <2>4. j = i
    BY <2>2, <2>3 DEF Unique
  <2>5. list[i].name \in NamesIn(list)
    BY DEF NamesIn
  <2>6. Stored(list)[list[i].name] = p.data
    BY <2>5 DEF Stored, NamesIn
  <2> QED BY <2>3, <2>4, <2>6
<1>3. Stored(list) = [n \in NamesIn(list) |-> Stored(list)[n]]
  BY DEF Stored, NamesIn
<1> QED BY <1>1, <1>2, <1>3

\* A map that agrees with a list is the one the list stands for.
LEMMA StoredIs ==
    ASSUME NEW list \in Seq(Profile), Unique(list), NEW f,
           f = [n \in NamesIn(list) |-> f[n]],
           \A i \in 1..Len(list) : f[list[i].name] = list[i].data
    PROVE  Stored(list) = f
<1>1. \A n \in NamesIn(list) : Stored(list)[n] = f[n]
  <2> SUFFICES ASSUME NEW n \in NamesIn(list) PROVE Stored(list)[n] = f[n]
    OBVIOUS
  <2>1. PICK i \in 1..Len(list) : n = list[i].name
    BY DEF NamesIn
  <2>2. Stored(list)[list[i].name] = list[i].data
    BY StoredFacts
  <2> QED BY <2>1, <2>2
<1> QED BY <1>1, StoredFacts

LEMMA StoredNothing == Stored(<<>>) = Store!Nothing
<1>1. {<<>>[i].name : i \in 1..Len(<<>>)} = {}
  OBVIOUS
<1> QED BY <1>1 DEF Stored, Store!Nothing

\* Names are found where they are listed.
LEMMA FindFacts ==
    ASSUME IInv, NEW n \in Names
    PROVE  /\ _profiles \in Seq(Profile) /\ Unique(_profiles)
           /\ Exists(n) <=> n \in NamesIn(_profiles)
           /\ \A i \in 1..Len(_profiles) : co_profile_find(n, i) <=> _profiles[i].name = n
<1>1. _profiles \in Seq(Profile) /\ Unique(_profiles)
  BY DEF IInv, TypeOK, NamesAreUnique, Unique
<1>2. \A i \in 1..Len(_profiles) : co_profile_find(n, i) <=> _profiles[i].name = n
  BY <1>1 DEF co_profile_find, Unique
<1> QED BY <1>1, <1>2 DEF Exists, NamesIn

\* An import gives back what a save wrote.
LEMMA Imported ==
    ASSUME NEW d \in Data
    PROVE  Import(d) = d
BY DEF Import, Data

\* What a save that succeeds writes is restored, the other is damaged.
LEMMA Saved ==
    ASSUME NEW d \in Data
    PROVE  /\ Export(d) # Absent
           /\ Restored(Export(d)) = IF Store!Writable(d) THEN d ELSE Damaged
<1>1. CASE \E x \in Keys : d[x] \in Unwritable
  BY <1>1, ProfilesAssumption DEF Export, Restored, Store!Writable
<1>2. CASE \A x \in Keys : d[x] \notin Unwritable
  <2>1. Export(d) = d
    BY <1>2 DEF Export
  <2>2. d # Damaged
    BY ProfilesAssumption
  <2>3. d # Absent
    BY <2>1, <2>2, ExportType, ProfilesAssumption
  <2> QED BY <1>2, <2>1, <2>2, <2>3, Imported DEF Restored, Store!Writable
<1> QED BY <1>1, <1>2

\* A file that is written or removed.
LEMMA DiskWritten ==
    ASSUME TypeOK, NEW m \in Names, NEW c, files' = [files EXCEPT ![m] = c]
    PROVE  Disk' = IF c = Absent THEN Store!Drop(Disk, m) ELSE Store!Put(Disk, m, Restored(c))
<1> DEFINE F == {o \in Names : files[o] # Absent}
<1>1. files'[m] = c /\ \A o \in Names \ {m} : files'[o] = files[o]
  BY DEF TypeOK
<1>2. Disk = [o \in F |-> Restored(files[o])]
  BY DEF Disk
<1>3. CASE c = Absent
  <2>1. {o \in Names : files'[o] # Absent} = F \ {m}
    BY <1>1, <1>3
  <2>2. Disk' = [o \in F \ {m} |-> Restored(files'[o])]
    BY <2>1 DEF Disk, Restored, Import
  <2>3. Disk' = [o \in F \ {m} |-> Restored(files[o])]
    BY <1>1, <2>2
  <2>4. Store!Drop(Disk, m) = [o \in F \ {m} |-> Restored(files[o])]
    BY <1>2 DEF Store!Drop
  <2> QED BY <1>3, <2>3, <2>4
<1>4. CASE c # Absent
  <2>1. {o \in Names : files'[o] # Absent} = F \cup {m}
    BY <1>1, <1>4
  <2>2. Disk' = [o \in F \cup {m} |-> Restored(files'[o])]
    BY <2>1 DEF Disk, Restored, Import
  <2>3. Disk' = [o \in F \cup {m} |-> IF o = m THEN Restored(c) ELSE Restored(files[o])]
    BY <1>1, <2>2
  <2>4. Store!Put(Disk, m, Restored(c))
           = [o \in F \cup {m} |-> IF o = m THEN Restored(c) ELSE Restored(files[o])]
    BY <1>2 DEF Store!Put
  <2> QED BY <1>4, <2>3, <2>4
<1> QED BY <1>3, <1>4

LEMMA DiskKept == UNCHANGED files => UNCHANGED Disk
BY DEF Disk, Restored, Import

LEMMA SavedKept == UNCHANGED config => UNCHANGED SavedGlobal
BY DEF SavedGlobal, Restored, Import

LEMMA MemoryKept == UNCHANGED _profiles => UNCHANGED Stored(_profiles)
BY DEF Stored

\* new puts the schema's values under a name that was free.
LEMMA NewCreates ==
    ASSUME IInv, IInv', NEW n \in Names, CMD_new(n)
    PROVE  Store!Create(n)
<1> DEFINE f == Store!Put(Stored(_profiles), n, Default)
<1>1. n \notin DOMAIN Stored(_profiles) /\ DOMAIN Stored(_profiles) = NamesIn(_profiles)
  BY FindFacts, StoredFacts DEF CMD_new
<1>2. _profiles' \in Seq(Profile) /\ Unique(_profiles')
  BY DEF IInv, TypeOK, NamesAreUnique, Unique
<1>3. /\ _profiles \in Seq(Profile) /\ Len(_profiles') = Len(_profiles) + 1
      /\ \A i \in 1..Len(_profiles) : _profiles'[i] = _profiles[i]
      /\ _profiles'[Len(_profiles) + 1] = [name |-> n, data |-> Default]
  BY DEF CMD_new, co_profile_add, IInv, TypeOK
<1>4. NamesIn(_profiles') = NamesIn(_profiles) \cup {n}
  <2>1. 1..Len(_profiles) + 1 = (1..Len(_profiles)) \cup {Len(_profiles) + 1}
    BY <1>3
  <2> QED BY <1>3, <2>1 DEF NamesIn
<1>5. f = [m \in NamesIn(_profiles') |-> f[m]]
  BY <1>1, <1>4 DEF Store!Put
<1>6. ASSUME NEW i \in 1..Len(_profiles') PROVE f[_profiles'[i].name] = _profiles'[i].data
  <2>1. i = Len(_profiles) + 1 \/ i \in 1..Len(_profiles)
    BY <1>3
  <2>2. CASE i = Len(_profiles) + 1
    BY <1>3, <2>2 DEF Store!Put
  <2>3. CASE i \in 1..Len(_profiles)
    <3>1. _profiles[i].name \in NamesIn(_profiles)
      BY <2>3 DEF NamesIn
    <3>2. Stored(_profiles)[_profiles[i].name] = _profiles[i].data
      BY <2>3, FindFacts, StoredFacts
    <3> QED BY <1>1, <1>3, <2>3, <3>1, <3>2 DEF Store!Put
  <2> QED BY <2>1, <2>2, <2>3
<1> HIDE DEF f
<1>7. Stored(_profiles') = f
  BY <1>2, <1>5, <1>6, StoredIs
<1> QED BY <1>1, <1>7, DiskKept, SavedKept DEF CMD_new, Store!Create, f

\* delete takes the name out of the list and the directory.
LEMMA DeleteDeletes ==
    ASSUME IInv, IInv', NEW n \in Names, CMD_delete(n)
    PROVE  Store!Delete(n)
<1> DEFINE f == Store!Drop(Stored(_profiles), n)
<1>1. PICK k \in 1..Len(_profiles) :
         _profiles[k].name = n /\ _profiles' = RemoveAt(_profiles, k)
  BY DEF CMD_delete, co_profile_remove, co_profile_find
<1>2. /\ _profiles \in Seq(Profile) /\ Unique(_profiles)
      /\ _profiles' \in Seq(Profile) /\ Unique(_profiles')
  BY DEF IInv, TypeOK, NamesAreUnique, Unique
<1>3. /\ Len(_profiles') = Len(_profiles) - 1
      /\ \A j \in 1..Len(_profiles) - 1 :
            _profiles'[j] = IF j < k THEN _profiles[j] ELSE _profiles[j + 1]
  BY <1>1, <1>2, RemoveAtFacts
<1>4. DOMAIN Stored(_profiles) = NamesIn(_profiles) /\ n \in NamesIn(_profiles)
  BY <1>1, <1>2, StoredFacts DEF NamesIn
<1>5. ASSUME NEW j \in 1..Len(_profiles')
      PROVE  \E o \in 1..Len(_profiles) : o # k /\ _profiles'[j] = _profiles[o]
  <2> DEFINE o == IF j < k THEN j ELSE j + 1
  <2>1. o \in 1..Len(_profiles) /\ o # k
    BY <1>2, <1>3
  <2>2. _profiles'[j] = _profiles[o]
    BY <1>3
  <2> QED BY <2>1, <2>2
<1>6. ASSUME NEW o \in 1..Len(_profiles), o # k
      PROVE  \E j \in 1..Len(_profiles') : _profiles'[j] = _profiles[o]
  <2> DEFINE j == IF o < k THEN o ELSE o - 1
  <2>1. j \in 1..Len(_profiles) - 1 /\ o = IF j < k THEN j ELSE j + 1
    BY <1>2, <1>6
  <2>2. _profiles'[j] = _profiles[o]
    BY <1>3, <2>1
  <2> QED BY <1>3, <2>1, <2>2
<1>7. NamesIn(_profiles') = NamesIn(_profiles) \ {n}
  <2>1. ASSUME NEW x \in NamesIn(_profiles') PROVE x \in NamesIn(_profiles) \ {n}
    BY <1>1, <1>2, <1>5, <2>1 DEF NamesIn, Unique
  <2>2. ASSUME NEW x \in NamesIn(_profiles) \ {n} PROVE x \in NamesIn(_profiles')
    <3>1. PICK o \in 1..Len(_profiles) : x = _profiles[o].name /\ o # k
      BY <1>1, <2>2 DEF NamesIn
    <3> QED BY <1>6, <3>1 DEF NamesIn
  <2> QED BY <2>1, <2>2
<1>8. f = [m \in NamesIn(_profiles') |-> f[m]]
  BY <1>4, <1>7 DEF Store!Drop
<1>9. ASSUME NEW i \in 1..Len(_profiles') PROVE f[_profiles'[i].name] = _profiles'[i].data
  <2>1. PICK o \in 1..Len(_profiles) : o # k /\ _profiles'[i] = _profiles[o]
    BY <1>5
  <2>2. Stored(_profiles)[_profiles[o].name] = _profiles[o].data
    BY <1>2, StoredFacts
  <2>3. _profiles[o].name \in NamesIn(_profiles) \ {n}
    BY <1>1, <1>2, <2>1 DEF NamesIn, Unique
  <2> QED BY <1>4, <2>1, <2>2, <2>3 DEF Store!Drop
<1> HIDE DEF f
<1>10. Stored(_profiles') = f
  BY <1>2, <1>8, <1>9, StoredIs
<1>11. Disk' = Store!Drop(Disk, n)
  BY DiskWritten DEF CMD_delete, IInv
<1> QED BY <1>4, <1>10, <1>11, SavedKept DEF CMD_delete, Store!Delete, f

\* set changes the value of one key, of the global profile or of a listed one.
LEMMA SetChanges ==
    ASSUME IInv, IInv', NEW n \in Names, NEW x \in Keys, NEW v \in Values, CMD_set(n, x, v)
    PROVE  Store!ChangeSettings(x, v) \/ Store!Change(n, x, v)
<1>1. CASE n = "global"
  BY <1>1, MemoryKept, DiskKept, SavedKept DEF CMD_set, Store!ChangeSettings
<1>2. CASE n # "global"
  <2>1. PICK k \in 1..Len(_profiles) :
           _profiles[k].name = n /\ _profiles' = [_profiles EXCEPT ![k].data[x] = v]
    BY <1>2 DEF CMD_set, co_profile_find
  <2>2. /\ _profiles \in Seq(Profile) /\ Unique(_profiles)
        /\ _profiles' \in Seq(Profile) /\ Unique(_profiles')
    BY DEF IInv, TypeOK, NamesAreUnique, Unique
  <2> DEFINE d == [_profiles[k].data EXCEPT ![x] = v]
             f == Store!Put(Stored(_profiles), n, d)
  <2>3. /\ Len(_profiles') = Len(_profiles)
        /\ _profiles'[k].name = n /\ _profiles'[k].data = d
        /\ \A i \in 1..Len(_profiles) : i # k => _profiles'[i] = _profiles[i]
    <3>1. _profiles[k] \in Profile
      BY <2>2
    <3> DEFINE u == [_profiles[k] EXCEPT !.data[x] = v]
    <3>2. u.name = _profiles[k].name /\ u.data = d
      BY <3>1 DEF Profile
    <3>3. _profiles' = [_profiles EXCEPT ![k] = u]
      BY <2>1
    <3> HIDE DEF u, d
    <3>4. /\ Len(_profiles') = Len(_profiles) /\ _profiles'[k] = u
          /\ \A i \in 1..Len(_profiles) : i # k => _profiles'[i] = _profiles[i]
      BY <2>2, <3>3
    <3> QED BY <2>1, <3>2, <3>4
  <2>4. /\ DOMAIN Stored(_profiles) = NamesIn(_profiles) /\ n \in NamesIn(_profiles)
        /\ Stored(_profiles)[n] = _profiles[k].data
    BY <2>1, <2>2, StoredFacts DEF NamesIn
  <2>5. NamesIn(_profiles') = NamesIn(_profiles)
    <3>1. \A i \in 1..Len(_profiles) : _profiles'[i].name = _profiles[i].name
      BY <2>1, <2>3
    <3> QED BY <2>3, <3>1 DEF NamesIn
  <2> HIDE DEF d
  <2>6. f = [m \in NamesIn(_profiles') |-> f[m]]
    BY <2>4, <2>5 DEF Store!Put
  <2>7. ASSUME NEW i \in 1..Len(_profiles') PROVE f[_profiles'[i].name] = _profiles'[i].data
    <3>1. CASE i = k
      BY <2>3, <2>4, <3>1 DEF Store!Put
    <3>2. CASE i # k
      <4>1. /\ _profiles'[i] = _profiles[i] /\ _profiles[i].name # n
            /\ _profiles[i].name \in NamesIn(_profiles)
        BY <2>1, <2>2, <2>3, <3>2 DEF NamesIn, Unique
      <4>2. Stored(_profiles)[_profiles[i].name] = _profiles[i].data
        BY <2>2, <2>3, StoredFacts
      <4> QED BY <2>4, <4>1, <4>2 DEF Store!Put
    <3> QED BY <3>1, <3>2
  <2> HIDE DEF f
  <2>8. Stored(_profiles') = f
    BY <2>2, <2>6, <2>7, StoredIs
  <2>9. f = Store!Put(Stored(_profiles), n, [Stored(_profiles)[n] EXCEPT ![x] = v])
    BY <2>4 DEF f, d
  <2> QED BY <1>2, <2>4, <2>8, <2>9, DiskKept, SavedKept DEF CMD_set, Store!Change
<1> QED BY <1>1, <1>2

\* A save that succeeds is one; one that is not escaped or cut short does damage.
LEMMA SaveSaves ==
    ASSUME IInv, NEW n \in Names, NEW m \in Names, CMD_save(n, m)
    PROVE  Store!SaveSettings \/ Store!Save(n, m) \/ Store!Damage
<1>1. /\ UNCHANGED Stored(_profiles) /\ UNCHANGED _profile_global
      /\ phase = "run" /\ phase' = "run"
  BY MemoryKept DEF CMD_save
<1>2. CASE n = "global"
  <2>1. UNCHANGED Disk
    BY <1>2, DiskKept DEF CMD_save, WriteConfig
  <2>2. _profile_global \in Data /\ config' = Export(_profile_global)
    BY <1>2 DEF IInv, TypeOK, CMD_save, WriteConfig
  <2>3. SavedGlobal' = Restored(Export(_profile_global))
    BY <2>2, Saved DEF SavedGlobal, Restored, Import
  <2>4. SavedGlobal' = IF Store!Writable(_profile_global) THEN _profile_global ELSE Damaged
    BY <2>2, <2>3, Saved
  <2> QED BY <1>1, <2>1, <2>4 DEF Store!SaveSettings, Store!Damage
<1>3. CASE n # "global"
  <2>1. PICK i \in 1..Len(_profiles) :
           _profiles[i].name = n /\ WriteFile(m, Export(_profiles[i].data))
    BY <1>3 DEF CMD_save, co_profile_find
  <2> DEFINE d == _profiles[i].data
  <2>2. d \in Data
    <3>1. _profiles[i] \in Profile
      BY DEF IInv, TypeOK
    <3> QED BY <3>1 DEF Profile
  <2>3. UNCHANGED SavedGlobal
    BY <2>1, SavedKept DEF WriteFile
  <2>4. Disk' = Store!Put(Disk, m, Restored(Export(d)))
    BY <2>1, <2>2, Saved, DiskWritten DEF WriteFile, IInv
  <2>5. n \in DOMAIN Stored(_profiles) /\ Stored(_profiles)[n] = d
    <3>1. n \in NamesIn(_profiles)
      BY <2>1 DEF NamesIn
    <3> QED BY <2>1, <3>1, FindFacts, StoredFacts
  <2> HIDE DEF d
  <2>6. CASE Store!Writable(d)
    <3>1. Disk' = Store!Put(Disk, m, d)
      BY <2>2, <2>4, <2>6, Saved
    <3> QED BY <1>1, <2>3, <2>5, <2>6, <3>1 DEF Store!Save
  <2>7. CASE ~Store!Writable(d)
    <3>1. Disk' = Store!Put(Disk, m, Damaged)
      BY <2>2, <2>4, <2>7, Saved
    <3> QED BY <1>1, <2>3, <3>1 DEF Store!Damage
  <2> QED BY <2>6, <2>7
<1> QED BY <1>2, <1>3

LEMMA CutShortDamages ==
    ASSUME IInv, NEW n \in Names, NEW m \in Names, SaveCutShort(n, m)
    PROVE  Store!Damage
<1>1. Restored(Damaged) = Damaged /\ Damaged # Absent
  BY ProfilesAssumption DEF Restored
<1>2. \/ Disk' = Store!Put(Disk, m, Damaged) /\ UNCHANGED SavedGlobal
      \/ SavedGlobal' = Damaged /\ UNCHANGED Disk
  <2>1. CASE WriteConfig(Damaged)
    <3>1. SavedGlobal' = Damaged
      BY <1>1, <2>1 DEF WriteConfig, SavedGlobal, Restored
    <3> QED BY <2>1, <3>1, DiskKept DEF WriteConfig
  <2>2. CASE WriteFile(m, Damaged)
    BY <1>1, <2>2, DiskWritten, SavedKept DEF WriteFile, IInv
  <2> QED BY <2>1, <2>2 DEF SaveCutShort
<1>3. CASE UNCHANGED <<phase, _profiles, _profile_global>>
  BY <1>2, <1>3, MemoryKept DEF SaveCutShort, Store!Damage
<1>4. CASE Forget
  <2>1. Stored(_profiles') = Store!Nothing
    BY <1>4, StoredNothing DEF Forget
  <2> QED BY <1>2, <1>4, <2>1 DEF SaveCutShort, Store!Damage, Forget
<1> QED BY <1>3, <1>4 DEF SaveCutShort

LEMMA StopStops == ASSUME Stop PROVE Store!Stop
<1>1. Stored(_profiles') = Store!Nothing
  BY StoredNothing DEF Stop, Forget
<1> QED BY <1>1, DiskKept, SavedKept DEF Stop, Forget, Store!Stop

LEMMA EditInstalls ==
    ASSUME IInv, Edit
    PROVE  Store!Install
<1>1. UNCHANGED Stored(_profiles) /\ UNCHANGED <<phase, _profile_global>>
  BY MemoryKept DEF Edit
<1>2. \A c \in Contents : Restored(c) \in Store!Data /\ c # Absent
  BY ImportType, ProfilesAssumption DEF Restored, Data, Store!Data
<1>3. CASE \E n \in Names, c \in Contents \cup {Absent} : WriteFile(n, c)
  <2>1. PICK n \in Names, c \in Contents \cup {Absent} : WriteFile(n, c)
    BY <1>3
  <2>2. Disk' = IF c = Absent THEN Store!Drop(Disk, n) ELSE Store!Put(Disk, n, Restored(c))
    BY <2>1, DiskWritten DEF WriteFile, IInv
  <2>3. UNCHANGED SavedGlobal
    BY <2>1, SavedKept DEF WriteFile
  <2> QED BY <1>1, <1>2, <2>2, <2>3 DEF Store!Install
<1>4. CASE \E c \in Contents \cup {Absent} : WriteConfig(c)
  <2>1. PICK c \in Contents \cup {Absent} : WriteConfig(c)
    BY <1>4
  <2>2. SavedGlobal' = IF c = Absent THEN Default ELSE Restored(c)
    BY <2>1 DEF WriteConfig, SavedGlobal, Restored, Import
  <2>3. SavedGlobal' \in Store!Data
    BY <1>2, <2>2, ProfilesAssumption DEF Data, Store!Data
  <2>4. UNCHANGED Disk
    BY <2>1, DiskKept DEF WriteConfig
  <2> QED BY <1>1, <2>3, <2>4 DEF Store!Install
<1> QED BY <1>3, <1>4 DEF Edit

\* A directory is listed whole.
LEMMA ListingsWhole ==
    ASSUME NEW order \in Listings, NEW n \in Names, files[n] # Absent
    PROVE  \E i \in 1..Len(order) : order[i] = n
<1> DEFINE F == {m \in Names : files[m] # Absent}
           D == 1..Cardinality(F)
<1>1. IsFiniteSet(F) /\ Cardinality(F) \in Nat
  BY FS_Subset, FS_CardinalityType, ProfilesAssumption
<1>2. order \in [D -> F] /\ \A i, j \in D : i # j => order[i] # order[j]
  BY DEF Listings, SetToSeqs
<1>3. n \in F
  OBVIOUS
<1> HIDE DEF F
<1>4. Len(order) = Cardinality(F)
  BY <1>1, <1>2
<1>5. Cardinality(D) = Cardinality(F)
  <2>1. Cardinality(1..Cardinality(F)) =
          IF 1 > Cardinality(F) THEN 0 ELSE Cardinality(F) - 1 + 1
    BY <1>1, FS_Interval
  <2> QED BY <1>1, <2>1
<1>6. order \in Injection(D, F)
  BY <1>2 DEF Injection, IsInjective
<1>7. order \in Surjection(D, F)
  BY <1>1, <1>5, <1>6, FS_Injection
<1> QED BY <1>3, <1>4, <1>7 DEF Surjection

\* A start imports what the files hold, all of it if none is damaged.
LEMMA StartStarts ==
    ASSUME IInv, IInv', Start
    PROVE  Store!Start
<1>1. PICK order \in Listings : \E count \in 0..Len(order) : \E data \in [1..count -> Data] :
         /\ count < Len(order) => files[order[count + 1]] = Damaged
         /\ \A i \in 1..count : files[order[i]] # Damaged => data[i] = Import(files[order[i]])
         /\ _profiles' = [i \in 1..count |-> [name |-> order[i], data |-> data[i]]]
  BY DEF Start, ImportFiles
<1>2. PICK count \in 0..Len(order) : \E data \in [1..count -> Data] :
         /\ count < Len(order) => files[order[count + 1]] = Damaged
         /\ \A i \in 1..count : files[order[i]] # Damaged => data[i] = Import(files[order[i]])
         /\ _profiles' = [i \in 1..count |-> [name |-> order[i], data |-> data[i]]]
  BY <1>1
<1>3. PICK data \in [1..count -> Data] :
         /\ count < Len(order) => files[order[count + 1]] = Damaged
         /\ \A i \in 1..count : files[order[i]] # Damaged => data[i] = Import(files[order[i]])
         /\ _profiles' = [i \in 1..count |-> [name |-> order[i], data |-> data[i]]]
  BY <1>2
<1>4. /\ order \in Seq(Names)
      /\ \A i \in 1..Len(order) : files[order[i]] # Absent /\ order[i] \in Names
  BY ListingsType DEF IInv
<1>5. /\ _profiles' \in Seq(Profile) /\ Unique(_profiles')
      /\ count \in Nat /\ count <= Len(order) /\ Len(order) \in Nat
  BY <1>4 DEF IInv, TypeOK, NamesAreUnique, Unique
<1>6. /\ Len(_profiles') = count
      /\ \A i \in 1..count : _profiles'[i].name = order[i] /\ _profiles'[i].data = data[i]
  BY <1>3, <1>5
<1> DEFINE F == {n \in Names : files[n] # Absent}
           mem == Stored(_profiles')
<1>7. Disk = [n \in F |-> Restored(files[n])]
  BY DEF Disk
<1>8. /\ DOMAIN mem = NamesIn(_profiles') /\ mem = [n \in NamesIn(_profiles') |-> mem[n]]
      /\ \A i \in 1..count : mem[order[i]] = data[i]
  BY <1>5, <1>6, StoredFacts
<1>9. ASSUME NEW n \in NamesIn(_profiles')
      PROVE  n \in F /\ (Disk[n] # Damaged => mem[n] = Disk[n])
  <2>1. PICK i \in 1..count : n = order[i]
    BY <1>6 DEF NamesIn
  <2>2. n \in F
    BY <1>4, <1>5, <2>1
  <2>3. ASSUME Disk[n] # Damaged PROVE mem[n] = Disk[n]
    <3>1. files[n] # Damaged /\ Disk[n] = Import(files[n])
      BY <1>7, <2>2, <2>3 DEF Restored
    <3> QED BY <1>3, <1>8, <2>1, <3>1
  <2> QED BY <2>2, <2>3
<1>10. ASSUME \A n \in F : Disk[n] # Damaged PROVE mem = Disk
  <2>1. \A n \in F : files[n] # Damaged
    BY <1>7, <1>10 DEF Restored
  <2>2. count = Len(order)
    <3>1. count < Len(order) => count + 1 \in 1..Len(order)
      BY <1>5
    <3>2. ~(count < Len(order))
      BY <1>3, <1>4, <2>1, <3>1
    <3> QED BY <1>5, <3>2
  <2>3. ASSUME NEW n \in F PROVE n \in NamesIn(_profiles')
    <3>1. PICK i \in 1..Len(order) : order[i] = n
      BY ListingsWhole
    <3> QED BY <1>6, <2>2, <3>1 DEF NamesIn
  <2>4. NamesIn(_profiles') = F
    BY <1>9, <2>3
  <2> HIDE DEF mem, F
  <2>5. \A n \in F : mem[n] = Disk[n]
    BY <1>9, <1>10, <2>4
  <2> QED BY <1>7, <1>8, <2>4, <2>5
<1>11. SavedGlobal # Damaged => _profile_global' = SavedGlobal
  <2>1. config \in Contents => config # Damaged /\ config # Absent
    BY ProfilesAssumption
  <2>2. Absent # Damaged
    BY ProfilesAssumption
  <2> QED BY <2>1, <2>2 DEF Start, ImportGlobal, SavedGlobal, Restored
<1>12. DOMAIN Disk = F
  BY <1>7
<1>13. UNCHANGED Disk /\ UNCHANGED SavedGlobal /\ phase = "down" /\ phase' = "run"
  BY DiskKept, SavedKept DEF Start
<1> HIDE DEF F
<1> QED BY <1>8, <1>9, <1>10, <1>11, <1>12, <1>13 DEF Store!Start

\* Every step of the daemon or of the administrator is a step of the store or none.
LEMMA NextImplements ==
    ASSUME IInv, IInv', [Next]_vars
    PROVE  [Store!Next]_(Store!vars)
<1>1. CASE UNCHANGED vars
  BY <1>1, MemoryKept, DiskKept, SavedKept DEF vars, Store!vars
<1>2. CASE \E n \in Names : CMD_new(n) \/ CMD_delete(n)
  BY <1>2, NewCreates, DeleteDeletes DEF Store!Next
<1>3. CASE \E n \in Names, x \in Keys, v \in Values : CMD_set(n, x, v)
  <2>1. PICK n \in Names, x \in Keys, v \in Values : CMD_set(n, x, v)
    BY <1>3
  <2>2. Store!ChangeSettings(x, v) \/ Store!Change(n, x, v)
    BY <2>1, SetChanges
  <2> QED BY <2>2 DEF Store!Next
<1>4. CASE \E n, m \in Names : CMD_save(n, m) \/ SaveCutShort(n, m)
  <2>1. PICK n \in Names, m \in Names : CMD_save(n, m) \/ SaveCutShort(n, m)
    BY <1>4
  <2>2. Store!SaveSettings \/ Store!Save(n, m) \/ Store!Damage
    BY <2>1, SaveSaves, CutShortDamages
  <2> QED BY <2>2 DEF Store!Next
<1>5. CASE Start \/ Stop \/ Edit
  BY <1>5, StartStarts, StopStops, EditInstalls DEF Store!Next
<1> QED BY <1>1, <1>2, <1>3, <1>4, <1>5 DEF Next

\* What is saved and not damaged is there after a restart with the values it was
\* saved with, what is deleted stays away, and nothing else changes: for any
\* profiles, and any order of commands, saves cut short, edits and restarts.
THEOREM StoreImplemented == Spec => ImplementsStore
<1>1. Init => Store!Init
  <2> SUFFICES ASSUME Init PROVE Store!Init
    OBVIOUS
  <2>1. Stored(_profiles) = Store!Nothing
    BY StoredNothing DEF Init
  <2>2. {m \in Names : files[m] # Absent} = {}
    BY DEF Init
  <2>3. Disk = Store!Nothing
    BY <2>2 DEF Disk, Store!Nothing
  <2>4. SavedGlobal = Default
    BY DEF Init, SavedGlobal
  <2> QED BY <2>1, <2>3, <2>4 DEF Init, Store!Init
<1>2. IInv /\ IInv' /\ [Next]_vars => [Store!Next]_(Store!vars)
  BY NextImplements
<1> QED BY <1>1, <1>2, InitIInv, NextIInv, PTL DEF Spec, ImplementsStore, Store!Spec

=============================================================================
