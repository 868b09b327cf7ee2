------------------------------ MODULE Profiles ------------------------------
(***************************************************************************)
(* Profiles (src/profile.c) and the commands new, set, save and delete     *)
(* (src/daemon.c): a list of profiles in memory, the global profile, the   *)
(* files they are saved to and imported from, and a daemon that may be     *)
(* stopped, killed and started again.                                      *)
(*                                                                         *)
(* A profile's data is a function from the keys of the schemas; a file's   *)
(* contents is a function from the keys it has, or Damaged, when its text  *)
(* is not what was meant.  Commands run one at a time, to the end.  A      *)
(* command that fails a check, and a start that ends in a crash, change    *)
(* nothing and are stuttering steps.  The profiles directory stays the one *)
(* the daemon was started with, and lets files be removed.                 *)
(***************************************************************************)
EXTENDS Integers, Sequences, SequencesExt, FiniteSets

CONSTANTS
    Names,      \* names of profiles, which are also names of files
    Keys,       \* keys of the schemas
    Values,     \* strings that fit a str8
    Default,    \* the values SCHEMA_ADD gives to the keys
    Unwritable, \* values with a quote or a final backslash, which a file does not escape
    Absent,     \* no such file
    Damaged     \* contents of a file that is cut short or has a stray quote

Data == [Keys -> Values]

\* What an administrator writes into a file: some of the keys, maybe others too,
\* which the import ignores.
Contents == UNION {[K -> Values \ Unwritable] : K \in SUBSET Keys}

ASSUME ProfilesAssumption ==
    /\ IsFiniteSet(Names) /\ "global" \in Names
    /\ Default \in Data
    /\ \A k \in Keys : Default[k] \notin Unwritable
    /\ Absent \notin Contents /\ Damaged \notin Contents \cup Data /\ Absent # Damaged

VARIABLES
    phase,      \* "down" or "run"
    _profiles,  \* the list of profiles
    _profile_global,
    files,      \* the profiles directory
    config      \* the file of the global profile

vars == <<phase, _profiles, _profile_global, files, config>>

Profile == [name : Names, data : Data]

TypeOK ==
    /\ phase \in {"down", "run"}
    /\ _profiles \in Seq(Profile)
    /\ _profile_global \in Data
    /\ files \in [Names -> Contents \cup {Absent, Damaged}]
    /\ config \in Contents \cup {Absent, Damaged}

-----------------------------------------------------------------------------
(* Lists and files.                                                        *)

\* The position of the profile that a search for the name n returns.
co_profile_find(n, i) ==
    /\ i \in 1..Len(_profiles)
    /\ _profiles[i].name = n
    /\ \A j \in 1..i - 1 : _profiles[j].name # n

Exists(n) == \E i \in 1..Len(_profiles) : co_profile_find(n, i)

\* The schemas, then the file's values for keys of the schemas.
Import(c) == [k \in Keys |-> IF k \in DOMAIN c THEN c[k] ELSE Default[k]]

\* What the file of data d contains.
Export(d) == IF \E k \in Keys : d[k] \in Unwritable THEN Damaged ELSE d

-----------------------------------------------------------------------------
(* Commands.                                                               *)

co_profile_add(n) == _profiles' = Append(_profiles, [name |-> n, data |-> Default])

\* The profile is taken off the list (and not freed).
co_profile_remove(n) ==
    \E i \in 1..Len(_profiles) :
        co_profile_find(n, i) /\ _profiles' = RemoveAt(_profiles, i)

\* A faulty CMD_new that does not look for the name.
NewUnchecked(n) ==
    /\ phase = "run"
    /\ Len(_profiles) < 3
    /\ co_profile_add(n)
    /\ UNCHANGED <<phase, _profile_global, files, config>>

CMD_new(n) ==
    /\ phase = "run"
    /\ ~Exists(n)
    /\ co_profile_add(n)
    /\ UNCHANGED <<phase, _profile_global, files, config>>

\* A faulty CMD_delete that leaves the file.
DeleteKeepsFile(n) ==
    /\ phase = "run"
    /\ co_profile_remove(n)
    /\ UNCHANGED <<phase, _profile_global, files, config>>

CMD_delete(n) ==
    /\ phase = "run"
    /\ co_profile_remove(n)
    /\ files' = [files EXCEPT ![n] = Absent]
    /\ UNCHANGED <<phase, _profile_global, config>>

\* "global" means the global profile, also when a listed one has that name.
CMD_set(n, k, v) ==
    /\ phase = "run"
    /\ \/ /\ n = "global"
          /\ _profile_global' = [_profile_global EXCEPT ![k] = v]
          /\ UNCHANGED _profiles
       \/ /\ n # "global"
          /\ \E i \in 1..Len(_profiles) :
                /\ co_profile_find(n, i)
                /\ _profiles' = [_profiles EXCEPT ![i].data[k] = v]
          /\ UNCHANGED _profile_global
    /\ UNCHANGED <<phase, files, config>>

\* co_profile_export_file: the file is truncated and written, and nobody looks
\* whether the writes succeed.
WriteFile(n, contents) ==
    /\ files' = [files EXCEPT ![n] = contents]
    /\ UNCHANGED config

WriteConfig(contents) == config' = contents /\ UNCHANGED files

\* save n, or save n m.
CMD_save(n, m) ==
    /\ phase = "run"
    /\ \/ n = "global" /\ m = n /\ WriteConfig(Export(_profile_global))
       \/ /\ n # "global"
          /\ \E i \in 1..Len(_profiles) :
                co_profile_find(n, i) /\ WriteFile(m, Export(_profiles[i].data))
    /\ UNCHANGED <<phase, _profiles, _profile_global>>

\* What is left of the memory of a daemon that ends.
Forget ==
    /\ phase' = "down"
    /\ _profiles' = <<>>
    /\ _profile_global' = Default

\* A save that is cut short, by a full file system or by the end of the daemon.
SaveCutShort(n, m) ==
    /\ phase = "run"
    /\ \/ n = "global" /\ m = n /\ WriteConfig(Damaged)
       \/ n # "global" /\ Exists(n) /\ WriteFile(m, Damaged)
    /\ UNCHANGED <<phase, _profiles, _profile_global>> \/ Forget

-----------------------------------------------------------------------------
(* Start and stop.                                                         *)

\* co_profile_import_global.  Without a file the schema's values are left (and an
\* uninitialised pointer is freed, which may crash); from a damaged file some
\* values may be taken.
ImportGlobal ==
    \/ config \in Contents /\ _profile_global' = Import(config)
    \/ config = Absent /\ _profile_global' = Default
    \/ config = Damaged /\ _profile_global' \in Data

\* The files of the directory in the order readdir returns them.
Listings == SetToSeqs({n \in Names : files[n] # Absent})

\* co_profile_import_files: the import stops, without an error, at the first file
\* that it refuses.  A damaged file may also be read as something else, or crash
\* the daemon.
ImportFiles ==
    \E order \in Listings :
        \E count \in 0..Len(order) : \E data \in [1..count -> Data] :
            /\ count < Len(order) => files[order[count + 1]] = Damaged
            /\ \A i \in 1..count :
                  files[order[i]] # Damaged => data[i] = Import(files[order[i]])
            /\ _profiles' = [i \in 1..count |-> [name |-> order[i], data |-> data[i]]]

Start ==
    /\ phase = "down"
    /\ phase' = "run"
    /\ ImportGlobal
    /\ ImportFiles
    /\ UNCHANGED <<files, config>>

\* The daemon ends, in whatever way.
Stop ==
    /\ phase = "run"
    /\ Forget
    /\ UNCHANGED <<files, config>>

\* The administrator writes or removes a file.
Edit ==
    /\ \/ \E n \in Names, c \in Contents \cup {Absent} : WriteFile(n, c)
       \/ \E c \in Contents \cup {Absent} : WriteConfig(c)
    /\ UNCHANGED <<phase, _profiles, _profile_global>>

Init ==
    /\ phase = "down"
    /\ _profiles = <<>>
    /\ _profile_global = Default
    /\ files = [n \in Names |-> Absent]
    /\ config = Absent

Next ==
    \/ \E n \in Names : CMD_new(n) \/ CMD_delete(n)
    \/ \E n \in Names, k \in Keys, v \in Values : CMD_set(n, k, v)
    \/ \E n, m \in Names : CMD_save(n, m) \/ SaveCutShort(n, m)
    \/ Start \/ Stop \/ Edit

Spec == Init /\ [][Next]_vars

-----------------------------------------------------------------------------
(* Properties.                                                             *)

\* A name is listed once, so that find, set and delete mean the same profile
\* whatever the list's order: new looks for the name, and the import starts from
\* an empty list.
NamesAreUnique ==
    \A i, j \in 1..Len(_profiles) : _profiles[i].name = _profiles[j].name => i = j

\* The profile of each name in a list, and what a restart would make of files.
Stored(list) ==
    [n \in {list[i].name : i \in 1..Len(list)} |->
        (CHOOSE p \in {list[i] : i \in 1..Len(list)} : p.name = n).data]

Restored(file) == IF file = Damaged THEN Damaged ELSE Import(file)

Disk == [n \in {m \in Names : files[m] # Absent} |-> Restored(files[n])]

SavedGlobal == IF config = Absent THEN Default ELSE Restored(config)

\* The list, the files and the imports implement a store: what is saved and
\* not damaged is there after a restart with the values it was saved with, what
\* is deleted stays away, and nothing else changes either.
Store == INSTANCE ProfileStore WITH
    on <- phase = "run",
    mem <- Stored(_profiles),
    disk <- Disk,
    settings <- _profile_global,
    saved <- SavedGlobal

ImplementsStore == Store!Spec

\* profile.h: "imports available profiles from profiles directory", and in
\* profile.c CHECK(process_files(...), "Failed to load all profiles.").  A start
\* that succeeds has imported every file that is in order.
ImportsAvailable ==
    [][phase = "down" /\ phase' = "run" =>
          \A n \in Names : files[n] \in Contents => Exists(n)']_vars

=============================================================================
