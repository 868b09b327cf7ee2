---------------------------- MODULE ServalProofs ----------------------------
(***************************************************************************)
(* Proofs about the two models of the Serval plugin, Keyrings and Alarms.  *)
(*                                                                         *)
(* Keyrings, for any paths, identities, nodes, files and processes of      *)
(* serval-client, whether or not opening and writing files fails.          *)
(* RefsAreContexts speaks of the states between handlers.  Its inductive   *)
(* form, Counted, also counts the context of the handler that runs, and    *)
(* needs to know what a handler has at each of its steps (Running).  That  *)
(* a handler works on the keyring of its path rests on open keyrings being *)
(* listed and having paths that differ (Placed), that the library has the  *)
(* plugin's file on what a failed reload leaves (Loaded, Dark), and that   *)
(* what clients were told of is saved on what open keyrings have in memory *)
(* (Kept).                                                                 *)
(*                                                                         *)
(* Alarms, as the instance A, for any alarms, descriptors, sockets and     *)
(* times, whatever callbacks do and the kernel reports: the types and the  *)
(* match of the two lists of timers (Base), one socket of the loop for     *)
(* every alarm that is believed watched (Held), and what the sockets of    *)
(* the loop are polled for (Exact).                                        *)
(***************************************************************************)
EXTENDS Serval, ListLemmas, WellFoundedInduction, TLAPS

\* The context of the handler that runs, and that of the plugin.
Transient(n) ==
    IF step \in {"identity", "extract", "update", "close"} /\ req.op # "reload" /\ req.node = n
    THEN 1 ELSE 0
Own(n) == IF serval_dna_ctx = n THEN 1 ELSE 0

Counted ==
    step # "undefined" => \A n \in Nodes : refs[n] = leaked[n] + Own(n) + Transient(n)

LiveIsCounted == \A n \in Nodes : n \in live <=> refs[n] > 0

LiveHasPath == \A n \in live : path[n] \in Paths

Running ==
    /\ step = "open" => req.node = NULL /\ req.op # "reload" /\ ~req.ok
    /\ step \in {"identity", "extract", "update"} =>
          req.node \in Nodes /\ req.op # "init" /\ ~req.ok
    /\ step \in {"identity", "extract"} => req.op # "reload"
    /\ step = "extract" => req.sid \in Sids
    /\ step = "update" /\ req.op = "sign" => req.sid \in Sids
    /\ step = "close" /\ req.ok => req.node \in Nodes
    /\ step = "close" /\ req.ok /\ req.op = "sign" => req.sid \in Sids
    /\ step = "close" /\ req.op = "init" => req.ok \/ req.node = NULL
    /\ step \in Steps /\ req.op = "init" => serval_dna_ctx = NULL
    /\ step \in Steps /\ req.op = "reload" => req.node = serval_dna_ctx /\ serval_dna_ctx \in Nodes
    /\ step \in Steps /\ req.op = "mdp-init" => \A n \in Nodes : leaked[n] < MaxLeaked

Inv == TypeOK /\ Counted /\ LiveIsCounted /\ LiveHasPath /\ Running

USE KeyringsAssumption

LEMMA InitInv == Init => Inv
<1> SUFFICES ASSUME Init PROVE Inv
  OBVIOUS
<1> USE DEF Init
<1>1. TypeOK
  BY DEF TypeOK, Request, NoRequest, Ops, Steps
<1>2. Counted
  BY DEF Counted, Own, Transient
<1>3. LiveIsCounted
  BY DEF LiveIsCounted
<1>4. Running
  BY DEF Running, Steps, NoRequest
<1> QED BY <1>1, <1>2, <1>3, <1>4 DEF Inv, LiveHasPath

-----------------------------------------------------------------------------
(* What the helpers return.                                                *)

LEMMA FoundIsListed ==
    ASSUME TypeOK, NEW p, NEW n \in _svl_keyring_find(p)
    PROVE  n \in Nodes /\ n \in ToSet(keyring_list)
BY DEF TypeOK, _svl_keyring_find, ToSet

LEMMA RemoveType ==
    ASSUME TypeOK, NEW n \in Nodes
    PROVE  _svl_keyring_remove(n) \in Seq(Nodes)
<1> DEFINE at == {i \in 2..Len(keyring_list) : keyring_list[i] = n}
<1>1. CASE at = {}
  BY <1>1 DEF TypeOK, _svl_keyring_remove
<1>2. CASE at # {}
  <2> DEFINE i == CHOOSE j \in at : TRUE
  <2>1. i \in 2..Len(keyring_list)
    BY <1>2
  <2>2. keyring_list \in Seq(Nodes)
    BY DEF TypeOK
  <2> HIDE DEF i
  <2>3. /\ SubSeq(keyring_list, 1, i - 1) \in Seq(Nodes)
        /\ SubSeq(keyring_list, i + 1, Len(keyring_list)) \in Seq(Nodes)
    BY <2>1, <2>2
  <2>4. RemoveAt(keyring_list, i) \in Seq(Nodes)
    BY <2>3 DEF RemoveAt
  <2> QED BY <1>2, <2>4 DEF _svl_keyring_remove, i
<1> QED BY <1>1, <1>2

LEMMA OpenedType ==
    ASSUME TypeOK, NEW p \in Paths, NEW held \in Opened(p) \cup Unseeded
    PROVE  held \in SUBSET Sids
BY DEF TypeOK, Opened, Unseeded, Fresh

\* What opening a file does to the types, and to the files of other nodes.
LEMMA FileOpened ==
    ASSUME TypeOK, NEW n \in Nodes, NEW p \in Paths, NEW ok \in BOOLEAN,
           _svl_keyring_open(n, p, ok)
    PROVE  /\ file' \in [Nodes -> Files \cup {NULL}]
           /\ ids' \in [Nodes -> SUBSET Sids]
           /\ disk' \in [Paths -> SUBSET Sids]
           /\ \A m \in Nodes \ {n} : file'[m] = file[m]
<1> DEFINE unused == Files \ {file[m] : m \in live \ {n}}
<1>1. CASE \E f \in unused, held \in Opened(p) :
               /\ file' = [file EXCEPT ![n] = f]
               /\ ids' = [ids EXCEPT ![n] = held]
               /\ disk' = [disk EXCEPT ![p] = held]
  <2>1. PICK f \in Files, held \in Opened(p) :
               /\ file' = [file EXCEPT ![n] = f]
               /\ ids' = [ids EXCEPT ![n] = held]
               /\ disk' = [disk EXCEPT ![p] = held]
    BY <1>1
  <2>2. held \in SUBSET Sids
    BY OpenedType
  <2> QED BY <2>1, <2>2 DEF TypeOK
<1>2. CASE /\ file' = [file EXCEPT ![n] = NULL]
           /\ ids' = [ids EXCEPT ![n] = {}]
           /\ UNCHANGED disk
  BY <1>2 DEF TypeOK
<1>3. CASE /\ \E f \in unused, held \in Unseeded :
                  file' = [file EXCEPT ![n] = f] /\ ids' = [ids EXCEPT ![n] = held]
           /\ UNCHANGED disk
  <2>1. PICK f \in Files, held \in Unseeded :
               file' = [file EXCEPT ![n] = f] /\ ids' = [ids EXCEPT ![n] = held]
    BY <1>3
  <2>2. held \in SUBSET Sids
    BY OpenedType
  <2> QED BY <1>3, <2>1, <2>2 DEF TypeOK
<1> QED BY <1>1, <1>2, <1>3 DEF _svl_keyring_open

\* The last step of a call.
LEMMA CallEnds ==
    ASSUME TypeOK, Succeed \/ Fail
    PROVE  /\ step' = "close" /\ req' \in Request
           /\ req'.op = req.op /\ req'.node = req.node /\ req'.sid = req.sid /\ req'.path = req.path
           /\ Fail => req' = req
<1>1. CASE Succeed
  <2>1. step' = "close" /\ req' = [req EXCEPT !.ok = TRUE]
    BY <1>1 DEF Succeed
  <2>2. req \in Request
    BY DEF TypeOK
  <2> QED BY <2>1, <2>2 DEF Request, Fail
<1>2. CASE Fail
  BY <1>2 DEF Fail, TypeOK
<1> QED BY <1>1, <1>2

\* A keyring of which a context is given up.
LEMMA CloseInv ==
    ASSUME TypeOK, LiveIsCounted, NEW n \in Nodes, refs[n] > 0, serval_close_keyring(n)
    PROVE  /\ keyring_list' \in Seq(Nodes) /\ live' \subseteq Nodes
           /\ path' = path
           /\ refs' \in [Nodes -> 0..(MaxLeaked + 2)]
           /\ file' \in [Nodes -> Files \cup {NULL}]
           /\ refs'[n] = refs[n] - 1
           /\ \A m \in Nodes \ {n} : refs'[m] = refs[m]
           /\ LiveIsCounted'
<1> USE DEF TypeOK, serval_close_keyring
<1>1. keyring_list' \in Seq(Nodes)
  BY RemoveType
<1>2. refs' \in [Nodes -> 0..(MaxLeaked + 2)] /\ refs'[n] = refs[n] - 1
  OBVIOUS
<1>3. \A m \in Nodes \ {n} : refs'[m] = refs[m]
  OBVIOUS
<1>4. LiveIsCounted'
  BY <1>2, <1>3 DEF LiveIsCounted
<1> QED BY <1>1, <1>2, <1>3, <1>4

-----------------------------------------------------------------------------
(* The steps of a handler.                                                 *)

LEMMA UndefineInv ==
    ASSUME Inv, Undefine, UNCHANGED <<serval_dna_ctx, keyring, others, ret>>
    PROVE  Inv'
BY DEF Inv, Undefine, TypeOK, Counted, LiveIsCounted, LiveHasPath, Running, Own, Transient,
       nodeVars, others, Steps

LEMMA AfterOpenType ==
    ASSUME TypeOK, Running, step = "open"
    PROVE  /\ AfterOpen \in {"close", "identity", "extract"}
           /\ AfterOpen = "close" <=> req.op = "init"
           /\ AfterOpen = "extract" => req.sid \in Sids
BY DEF AfterOpen, TypeOK, Request, Running

LEMMA UseInv ==
    ASSUME Inv, step = "open", NEW n \in Nodes, UseKeyring(n),
           UNCHANGED <<serval_dna_ctx, leaked>>
    PROVE  /\ step' \in {"close", "identity", "extract"} /\ req' \in Request
           /\ req'.node = n /\ req'.op = req.op /\ req'.path = req.path
           /\ Running'
<1>1. step' \in {"close", "identity", "extract"} /\ req' \in Request
  BY AfterOpenType DEF Inv, UseKeyring, TypeOK, Request
<1>2. /\ req'.node = n /\ req'.op = req.op /\ req'.sid = req.sid /\ req'.path = req.path
      /\ req'.ok = (AfterOpen = "close")
  BY DEF Inv, UseKeyring, TypeOK, Request
<1>3. Running'
  BY <1>1, <1>2, AfterOpenType DEF Inv, Running, UseKeyring, Steps
<1> QED BY <1>1, <1>2, <1>3

\* Before a handler has opened its keyring there are the other contexts only.
LEMMA NoneTransient ==
    ASSUME TypeOK, Counted, step \in {"open", "idle"}
    PROVE  \A n \in Nodes : refs[n] = leaked[n] + Own(n)
<1>1. \A n \in Nodes : Transient(n) = 0
  BY DEF Transient
<1>2. \A n \in Nodes : leaked[n] \in Nat /\ Own(n) \in Nat
  BY DEF TypeOK, Own
<1> QED BY <1>1, <1>2 DEF Counted

LEMMA OpenInv ==
    ASSUME Inv, serval_open_keyring
    PROVE  Inv'
<1>1. CASE ~ ToSet(keyring_list) \subseteq live
  BY <1>1, UndefineInv DEF serval_open_keyring
<1>2. CASE /\ ToSet(keyring_list) \subseteq live
           /\ \E n \in _svl_keyring_find(req.path) : OpenShared(n)
  <2>1. PICK n \in _svl_keyring_find(req.path) : OpenShared(n)
    BY <1>2
  <2>2. n \in Nodes /\ n \in live
    BY <1>2, FoundIsListed DEF Inv
  <2>3. UNCHANGED <<serval_dna_ctx, leaked, keyring, others, given, ret>> /\ step = "open"
    BY DEF serval_open_keyring
  <2>4. /\ step' \in {"close", "identity", "extract"} /\ req' \in Request
        /\ req'.node = n /\ req'.op = req.op /\ Running'
    BY <2>1, <2>2, <2>3, UseInv DEF OpenShared
  <2>5. \A m \in Nodes : refs[m] = leaked[m] + Own(m) /\ refs'[m] = refs[m] + IF m = n THEN 1 ELSE 0
    <3>1. \A m \in Nodes : refs[m] = leaked[m] + Own(m)
      BY <2>3, NoneTransient DEF Inv
    <3>2. \A m \in Nodes : refs'[m] = refs[m] + IF m = n THEN 1 ELSE 0
      BY <2>1, <2>2 DEF OpenShared, Inv, TypeOK
    <3> QED BY <3>1, <3>2
  <2>6. refs' \in [Nodes -> 0..(MaxLeaked + 2)]
    <3>1. \A m \in Nodes : refs'[m] \in 0..(MaxLeaked + 2)
      <4>1. \A m \in Nodes : leaked[m] \in 0..MaxLeaked /\ Own(m) \in {0, 1}
        BY DEF Inv, TypeOK, Own
      <4> QED BY <2>5, <4>1
    <3>2. refs' = [m \in Nodes |-> refs'[m]]
      BY <2>1 DEF OpenShared, Inv, TypeOK
    <3> QED BY <3>1, <3>2
  <2>7. TypeOK'
    BY <2>1, <2>3, <2>4, <2>6 DEF OpenShared, Inv, TypeOK, others, Steps
  <2>8. Counted'
    BY <2>3, <2>4, <2>5 DEF Inv, Running, Counted, Own, Transient
  <2>9. LiveIsCounted'
    BY <2>1, <2>2, <2>5 DEF OpenShared, Inv, LiveIsCounted, TypeOK
  <2>10. LiveHasPath'
    BY <2>1 DEF OpenShared, Inv, LiveHasPath
  <2> QED BY <2>4, <2>7, <2>8, <2>9, <2>10 DEF Inv
<1>3. CASE /\ ToSet(keyring_list) \subseteq live
           /\ \E n \in Nodes \ live : OpenNew(n)
  <2>1. PICK n \in Nodes \ live : OpenNew(n)
    BY <1>3
  <2>2. UNCHANGED <<serval_dna_ctx, leaked, keyring, others, given, ret>> /\ step = "open"
    BY DEF serval_open_keyring
  <2>3. req.path \in Paths
    BY DEF Inv, TypeOK, Request
  <2>4. CASE Faults /\ Fail /\ UNCHANGED <<nodeVars, ids, disk>>
    <3>1. step' = "close" /\ req' = req /\ UNCHANGED <<nodeVars, ids, disk>>
      BY <2>4 DEF Fail
    <3>2. TypeOK'
      BY <2>2, <3>1 DEF Inv, TypeOK, nodeVars, others, Steps
    <3>3. Counted'
      BY <2>2, <3>1 DEF Inv, Counted, Own, Transient, Running, nodeVars
    <3>4. LiveIsCounted'
      BY <3>1 DEF Inv, LiveIsCounted, nodeVars
    <3>5. Running'
      BY <2>2, <3>1 DEF Inv, Running, Steps
    <3>6. LiveHasPath'
      BY <3>1 DEF Inv, LiveHasPath, nodeVars
    <3> QED BY <3>2, <3>3, <3>4, <3>5, <3>6 DEF Inv
  <2>5. CASE /\ _svl_keyring_open(n, req.path, TRUE)
             /\ live' = live \cup {n}
             /\ path' = [path EXCEPT ![n] = req.path]
             /\ refs' = [refs EXCEPT ![n] = 1]
             /\ keyring_list' = <<n>> \o keyring_list
             /\ UseKeyring(n)
    <3>1. /\ live' = live \cup {n}
          /\ path' = [path EXCEPT ![n] = req.path]
          /\ refs' = [refs EXCEPT ![n] = 1]
          /\ keyring_list' = <<n>> \o keyring_list
          /\ UseKeyring(n)
      BY <2>5
    <3>10. /\ file' \in [Nodes -> Files \cup {NULL}]
           /\ ids' \in [Nodes -> SUBSET Sids]
           /\ disk' \in [Paths -> SUBSET Sids]
      BY <2>1, <2>3, <2>5, FileOpened DEF Inv
    <3>2. /\ step' \in {"close", "identity", "extract"} /\ req' \in Request
          /\ req'.node = n /\ req'.op = req.op /\ Running'
      BY <2>2, <3>1, UseInv
    <3>3. refs[n] = 0
      BY <2>1 DEF Inv, LiveIsCounted, TypeOK
    <3>4. keyring_list' \in Seq(Nodes)
      BY <3>1 DEF Inv, TypeOK
    <3>11. /\ live' \subseteq Nodes /\ path' \in [Nodes -> Paths \cup {NULL}]
           /\ refs' \in [Nodes -> 0..(MaxLeaked + 2)]
      BY <2>1, <2>3, <3>1 DEF Inv, TypeOK
    <3>5. TypeOK'
      BY <2>2, <3>2, <3>4, <3>10, <3>11 DEF Inv, TypeOK, others, Steps
    <3>6. \A m \in Nodes : /\ refs[m] = leaked[m] + Own(m)
                           /\ refs'[m] = refs[m] + IF m = n THEN 1 ELSE 0
      <4>1. \A m \in Nodes : refs[m] = leaked[m] + Own(m)
        BY <2>2, NoneTransient DEF Inv
      <4>2. \A m \in Nodes : refs'[m] = refs[m] + IF m = n THEN 1 ELSE 0
        BY <2>1, <3>1, <3>3 DEF Inv, TypeOK
      <4> QED BY <4>1, <4>2
    <3>7. Counted'
      BY <2>2, <3>2, <3>6 DEF Inv, Running, Counted, Own, Transient
    <3>8. LiveIsCounted'
      BY <3>1, <3>3, <3>6 DEF Inv, LiveIsCounted, TypeOK
    <3>9. LiveHasPath'
      BY <2>3, <3>1 DEF Inv, LiveHasPath, TypeOK
    <3> QED BY <3>2, <3>5, <3>7, <3>8, <3>9 DEF Inv
  <2> QED BY <2>1, <2>4, <2>5 DEF OpenNew
<1> QED BY <1>1, <1>2, <1>3 DEF serval_open_keyring

\* The keyring a handler works with is allocated: its own context, or the
\* plugin's for a reload, is counted.
LEMMA HeldIsLive ==
    ASSUME Inv, step \in {"identity", "extract", "update", "close"}, req.node \in Nodes
    PROVE  req.node \in live /\ refs[req.node] > 0
<1>1. leaked[req.node] \in Nat /\ Own(req.node) \in {0, 1} /\ Transient(req.node) \in {0, 1}
  BY DEF Inv, TypeOK, Own, Transient
<1>2. refs[req.node] = leaked[req.node] + Own(req.node) + Transient(req.node)
  BY DEF Inv, Counted
<1>3. CASE req.op = "reload"
  <2>1. Own(req.node) = 1
    BY <1>3 DEF Inv, Running, Own, Steps
  <2> QED BY <1>1, <1>2, <2>1 DEF Inv, LiveIsCounted
<1>4. CASE req.op # "reload"
  <2>1. Transient(req.node) = 1
    BY <1>4 DEF Transient
  <2> QED BY <1>1, <1>2, <2>1 DEF Inv, LiveIsCounted
<1> QED BY <1>3, <1>4

LEMMA IdentityInv ==
    ASSUME Inv, serval_keyring_add_identity
    PROVE  Inv'
<1>1. CASE file[req.node] = NULL
  BY <1>1, UndefineInv DEF serval_keyring_add_identity
<1>2. CASE file[req.node] # NULL
  <2>1. PICK s \in Fresh :
            /\ ids' = [ids EXCEPT ![req.node] = @ \cup {s}]
            /\ \/ /\ step' = "update" /\ req' = [req EXCEPT !.sid = s]
                  /\ disk' = [disk EXCEPT ![path[req.node]] = ids'[req.node]]
               \/ Faults /\ Fail /\ UNCHANGED disk
    BY <1>2 DEF serval_keyring_add_identity
  <2>2. UNCHANGED <<nodeVars, leaked, given, serval_dna_ctx, keyring, others, ret>> /\ step = "identity"
    BY <1>2 DEF serval_keyring_add_identity
  <2>3. s \in Sids /\ req.node \in Nodes
    BY <2>1, <2>2 DEF Fresh, Inv, Running
  <2>4. ids' \in [Nodes -> SUBSET Sids]
    BY <2>1, <2>3 DEF Inv, TypeOK
  <2>5. disk' \in [Paths -> SUBSET Sids]
    BY <2>1, <2>3, <2>4 DEF Inv, TypeOK
  <2>6. /\ step' \in {"update", "close"} /\ req' \in Request
        /\ req'.op = req.op /\ req'.node = req.node /\ req'.ok = req.ok
        /\ step' = "update" => req'.sid \in Sids
    <3>1. CASE step' = "update" /\ req' = [req EXCEPT !.sid = s]
      BY <2>3, <3>1 DEF Inv, TypeOK, Request
    <3>2. CASE Fail
      BY <3>2 DEF Fail, Inv, TypeOK
    <3> QED BY <2>1, <3>1, <3>2
  <2>7. TypeOK'
    BY <2>2, <2>4, <2>5, <2>6 DEF Inv, TypeOK, nodeVars, others, Steps
  <2>8. Counted'
    BY <2>2, <2>6 DEF Inv, Counted, nodeVars, Own, Transient
  <2>9. Running'
    BY <2>2, <2>3, <2>6 DEF Inv, Running, Steps
  <2> QED BY <2>2, <2>7, <2>8, <2>9 DEF Inv, LiveIsCounted, LiveHasPath, nodeVars
<1> QED BY <1>1, <1>2

LEMMA ExtractInv ==
    ASSUME Inv, serval_extract_sas
    PROVE  Inv'
<1>1. CASE file[req.node] = NULL
  BY <1>1, UndefineInv DEF serval_extract_sas
<1>2. CASE file[req.node] # NULL
  <2>1. /\ step = "extract" /\ step' = "close"
        /\ UNCHANGED <<nodeVars, ids, disk, leaked, given, serval_dna_ctx, keyring, others, ret>>
    BY <1>2 DEF serval_extract_sas, Succeed, Fail
  <2>2. /\ req' \in Request
        /\ req'.op = req.op /\ req'.node = req.node /\ req'.sid = req.sid
    BY <1>2, CallEnds DEF serval_extract_sas, Inv
  <2>3. TypeOK'
    BY <2>1, <2>2 DEF Inv, TypeOK, nodeVars, others, Steps
  <2>4. Counted'
    BY <2>1, <2>2 DEF Inv, Counted, nodeVars, Own, Transient
  <2>5. Running'
    BY <2>1, <2>2 DEF Inv, Running, Steps
  <2> QED BY <2>1, <2>3, <2>4, <2>5 DEF Inv, LiveIsCounted, LiveHasPath, nodeVars
<1> QED BY <1>1, <1>2

LEMMA ReloadInv ==
    ASSUME Inv, serval_reload_keyring
    PROVE  Inv'
<1>1. /\ step = "update" /\ step' = "close"
      /\ UNCHANGED <<keyring_list, live, path, refs, serval_dna_ctx, leaked, given, others, ret>>
  BY DEF serval_reload_keyring, Succeed, Fail
<1>2. /\ req' \in Request
      /\ req'.op = req.op /\ req'.node = req.node /\ req'.sid = req.sid
  BY CallEnds DEF serval_reload_keyring, Inv
<1>3. req.node \in Nodes
  BY <1>1 DEF Inv, Running
<1>4. /\ file' \in [Nodes -> Files \cup {NULL}]
      /\ ids' \in [Nodes -> SUBSET Sids]
      /\ disk' \in [Paths -> SUBSET Sids]
      /\ keyring' \in Files \cup {NULL}
  <2>1. CASE file[req.node] = NULL
    BY <2>1 DEF serval_reload_keyring, Inv, TypeOK
  <2>2. CASE file[req.node] # NULL
    <3>1. PICK ok \in BOOLEAN :
              /\ _svl_keyring_open(req.node, path[req.node], ok)
              /\ keyring' = IF ok /\ req.node = serval_dna_ctx THEN file'[req.node] ELSE keyring
      BY <2>2 DEF serval_reload_keyring
    <3>2. path[req.node] \in Paths
      BY <1>1, <1>3, HeldIsLive DEF Inv, LiveHasPath
    <3>3. /\ file' \in [Nodes -> Files \cup {NULL}]
          /\ ids' \in [Nodes -> SUBSET Sids]
          /\ disk' \in [Paths -> SUBSET Sids]
      BY <1>3, <3>1, <3>2, FileOpened DEF Inv
    <3>4. keyring' \in Files \cup {NULL}
      BY <1>3, <3>1, <3>3 DEF Inv, TypeOK
    <3> QED BY <3>3, <3>4
  <2> QED BY <2>1, <2>2
<1>5. TypeOK'
  BY <1>1, <1>2, <1>4 DEF Inv, TypeOK, others, Steps
<1>6. Counted'
  BY <1>1, <1>2 DEF Inv, Counted, Own, Transient
<1>7. Running'
  BY <1>1, <1>2 DEF Inv, Running, Steps
<1> QED BY <1>1, <1>5, <1>6, <1>7 DEF Inv, LiveIsCounted, LiveHasPath


-----------------------------------------------------------------------------
(* Handlers.                                                               *)

LEMMA EndsInv ==
    ASSUME Inv, HandlerEnds
    PROVE  Inv'
<1>1. step = "close" /\ step' = "idle" /\ UNCHANGED <<ids, disk, client, lost>>
  BY DEF HandlerEnds, others
<1>2. Running'
  BY <1>1 DEF Running, Steps
<1>3. given' \subseteq Paths \X Sids /\ ret' \in Paths \X (Paths \cup {NULL}) /\ req' \in Request
  <2>1. req \in Request /\ given \subseteq Paths \X Sids /\ path \in [Nodes -> Paths \cup {NULL}]
    BY DEF Inv, TypeOK
  <2>2. req.node # NULL => req.node \in Nodes /\ path[req.node] \in Paths
    BY <1>1, <2>1, HeldIsLive DEF Inv, LiveHasPath, Request
  <2>3. CASE req.op = "sign" /\ req.ok
    <3>1. req.sid \in Sids /\ req.node # NULL
      BY <1>1, <2>3 DEF Inv, Running
    <3> QED BY <2>1, <2>2, <2>3, <3>1 DEF HandlerEnds, NoRequest, Request, Ops
  <2>4. CASE ~(req.op = "sign" /\ req.ok)
    BY <2>1, <2>2, <2>4 DEF HandlerEnds, NoRequest, Request, Ops
  <2> QED BY <2>3, <2>4
<1>4. \A n \in Nodes : leaked[n] \in Nat /\ Own(n) \in {0, 1} /\ Transient(n) \in {0, 1}
  BY DEF Inv, TypeOK, Own, Transient
<1>5. \A n \in Nodes : refs[n] = leaked[n] + Own(n) + Transient(n)
  BY <1>1 DEF Inv, Counted
<1>6. \A n \in Nodes : Transient(n)' = 0
  BY <1>1 DEF Transient
<1>7. CASE (req.op = "sign" \/ (req.op = "mdp-init" /\ ~req.ok)) /\ req.node # NULL
  <2>1. req.node \in Nodes
    BY <1>7 DEF Inv, TypeOK, Request
  <2>2. refs[req.node] > 0
    BY <1>1, <2>1, HeldIsLive
  <2>3. serval_close_keyring(req.node) /\ UNCHANGED <<leaked, serval_dna_ctx, keyring>>
    BY <1>7 DEF HandlerEnds, svl_crypto_ctx_free
  <2>4. /\ keyring_list' \in Seq(Nodes) /\ live' \subseteq Nodes
        /\ path' = path
        /\ refs' \in [Nodes -> 0..(MaxLeaked + 2)]
        /\ file' \in [Nodes -> Files \cup {NULL}]
        /\ refs'[req.node] = refs[req.node] - 1
        /\ \A m \in Nodes \ {req.node} : refs'[m] = refs[m]
        /\ LiveIsCounted'
    BY <2>1, <2>2, <2>3, CloseInv DEF Inv
  <2>5. TypeOK'
    BY <1>1, <1>3, <2>3, <2>4 DEF Inv, TypeOK
  <2>6. Transient(req.node) = 1 /\ \A m \in Nodes \ {req.node} : Transient(m) = 0
    BY <1>1, <1>7 DEF Transient
  <2>7. \A n \in Nodes : Own(n)' = Own(n)
    BY <2>3 DEF Own
  <2>8. Counted'
    <3>1. ASSUME NEW n \in Nodes PROVE refs'[n] = leaked'[n] + Own(n)' + Transient(n)'
      <4>1. CASE n = req.node
        BY <1>4, <1>5, <1>6, <2>1, <2>3, <2>4, <2>6, <2>7, <4>1
      <4>2. CASE n # req.node
        BY <1>4, <1>5, <1>6, <2>3, <2>4, <2>6, <2>7, <4>2
      <4> QED BY <4>1, <4>2
    <3> QED BY <3>1 DEF Counted
  <2>9. LiveHasPath'
    BY <2>3, <2>4 DEF serval_close_keyring, Inv, LiveHasPath
  <2> QED BY <1>2, <2>4, <2>5, <2>8, <2>9 DEF Inv
<1>8. CASE (req.op = "sign" \/ (req.op = "mdp-init" /\ ~req.ok)) /\ req.node = NULL
  <2>1. UNCHANGED <<nodeVars, leaked, serval_dna_ctx, keyring>>
    BY <1>8 DEF HandlerEnds, svl_crypto_ctx_free, Inv, Running
  <2>2. \A n \in Nodes : Transient(n) = 0 /\ Own(n)' = Own(n)
    BY <1>8, <2>1 DEF Transient, Own
  <2>3. TypeOK'
    BY <1>1, <1>3, <2>1 DEF Inv, TypeOK, nodeVars
  <2>4. Counted'
    BY <1>5, <1>6, <2>1, <2>2 DEF Counted, nodeVars
  <2> QED BY <1>2, <2>1, <2>3, <2>4 DEF Inv, LiveIsCounted, LiveHasPath, nodeVars
<1>9. CASE req.op = "mdp-init" /\ req.ok
  <2>1. req.node \in Nodes /\ leaked[req.node] < MaxLeaked
    BY <1>1, <1>9 DEF Inv, Running, Steps
  <2>2. /\ UNCHANGED <<nodeVars, serval_dna_ctx, keyring>>
        /\ leaked' = [leaked EXCEPT ![req.node] = @ + 1]
    BY <1>9 DEF HandlerEnds
  <2>3. leaked' \in [Nodes -> 0..MaxLeaked]
    <3>1. leaked \in [Nodes -> 0..MaxLeaked] /\ MaxLeaked \in Nat
      BY KeyringsAssumption DEF Inv, TypeOK
    <3>2. leaked[req.node] + 1 \in 0..MaxLeaked
      BY <2>1, <3>1
    <3> QED BY <2>2, <3>1, <3>2
  <2>4. TypeOK'
    BY <1>1, <1>3, <2>2, <2>3 DEF Inv, TypeOK, nodeVars
  <2>5. Transient(req.node) = 1 /\ \A m \in Nodes \ {req.node} : Transient(m) = 0
    BY <1>1, <1>9 DEF Transient
  <2>6. /\ leaked'[req.node] = leaked[req.node] + 1
        /\ \A m \in Nodes \ {req.node} : leaked'[m] = leaked[m]
    BY <2>1, <2>2 DEF Inv, TypeOK
  <2>7. \A n \in Nodes : Own(n)' = Own(n)
    BY <2>2 DEF Own
  <2>8. Counted'
    BY <1>4, <1>5, <1>6, <2>2, <2>5, <2>6, <2>7 DEF Counted, nodeVars
  <2> QED BY <1>2, <2>2, <2>4, <2>8 DEF Inv, LiveIsCounted, LiveHasPath, nodeVars
<1>10. CASE req.op = "init" /\ req.ok
  <2>1. req.node \in Nodes /\ serval_dna_ctx = NULL
    BY <1>1, <1>10 DEF Inv, Running, Steps
  <2>2. /\ UNCHANGED <<nodeVars, leaked>>
        /\ serval_dna_ctx' = req.node /\ keyring' = file[req.node]
    BY <1>10 DEF HandlerEnds
  <2>3. TypeOK'
    BY <1>1, <1>3, <2>1, <2>2 DEF Inv, TypeOK, nodeVars
  <2>4. \A n \in Nodes : Own(n)' = Transient(n) /\ Own(n) = 0
    BY <1>1, <1>10, <2>1, <2>2 DEF Own, Transient
  <2>5. Counted'
    BY <1>4, <1>5, <1>6, <2>2, <2>4 DEF Counted, nodeVars
  <2> QED BY <1>2, <2>2, <2>3, <2>5 DEF Inv, LiveIsCounted, LiveHasPath, nodeVars
<1>11. CASE req.op = "reload" \/ (req.op = "init" /\ ~req.ok)
  <2>1. UNCHANGED <<nodeVars, leaked, serval_dna_ctx, keyring>>
    BY <1>11 DEF HandlerEnds
  <2>2. \A n \in Nodes : Transient(n) = 0 /\ Own(n)' = Own(n)
    BY <1>1, <1>11, <2>1 DEF Transient, Own, Inv, Running
  <2>3. TypeOK'
    BY <1>1, <1>3, <2>1 DEF Inv, TypeOK, nodeVars
  <2>4. Counted'
    BY <1>5, <1>6, <2>1, <2>2 DEF Counted, nodeVars
  <2> QED BY <1>2, <2>1, <2>3, <2>4 DEF Inv, LiveIsCounted, LiveHasPath, nodeVars
<1>12. req.op \in Ops /\ req.ok \in BOOLEAN
  BY DEF Inv, TypeOK, Request
<1> QED BY <1>7, <1>8, <1>9, <1>10, <1>11, <1>12 DEF Ops

LEMMA KnownType == ASSUME TypeOK PROVE Known \subseteq Sids
BY DEF TypeOK, Known

\* A handler begins without a context of its own.
LEMMA CallInv ==
    ASSUME Inv, NEW op \in Ops, NEW p \in Paths, NEW sid \in Sids \cup {NULL},
           NEW node \in Nodes \cup {NULL}, NEW first \in {"open", "update"},
           Call(op, p, sid, node, first),
           first = "open" => node = NULL /\ op # "reload",
           first = "update" => op = "reload" /\ node = serval_dna_ctx /\ node \in Nodes,
           op = "init" => serval_dna_ctx = NULL,
           op = "mdp-init" => \A n \in Nodes : leaked[n] < MaxLeaked
    PROVE  Inv'
<1>1. /\ step = "idle" /\ step' = first
      /\ req' = [op |-> op, path |-> p, sid |-> sid, node |-> node, ok |-> FALSE]
      /\ UNCHANGED <<nodeVars, ids, disk, serval_dna_ctx, leaked, keyring, given, ret, client, lost>>
  BY DEF Call, others
<1>2. req' \in Request
  BY <1>1 DEF Request
<1>3. TypeOK'
  BY <1>1, <1>2 DEF Inv, TypeOK, nodeVars, Steps
<1>4. \A n \in Nodes : Own(n)' = Own(n) /\ Transient(n)' = 0 /\ Transient(n) = 0
  BY <1>1 DEF Own, Transient
<1>5. Counted'
  BY <1>1, <1>4 DEF Inv, Counted, nodeVars
<1>6. Running'
  BY <1>1 DEF Running, Steps
<1> QED BY <1>1, <1>3, <1>5, <1>6 DEF Inv, LiveIsCounted, LiveHasPath, nodeVars

LEMMA ShutdownInv ==
    ASSUME Inv, co_plugin_shutdown
    PROVE  Inv'
<1>1. /\ step = "idle" /\ step' = "down" /\ serval_dna_ctx \in Nodes /\ serval_dna_ctx' = NULL
      /\ serval_close_keyring(serval_dna_ctx)
      /\ UNCHANGED <<ids, disk, leaked, keyring, req, given, ret, client, lost>>
  BY DEF co_plugin_shutdown, others, Started, svl_crypto_ctx_free, Inv, TypeOK
<1>2. \A n \in Nodes : leaked[n] \in Nat /\ refs[n] = leaked[n] + Own(n)
  BY <1>1, NoneTransient DEF Inv, TypeOK
<1>3. Own(serval_dna_ctx) = 1 /\ \A n \in Nodes \ {serval_dna_ctx} : Own(n) = 0
  BY DEF Own
<1>4. /\ keyring_list' \in Seq(Nodes) /\ live' \subseteq Nodes
      /\ path' = path
      /\ refs' \in [Nodes -> 0..(MaxLeaked + 2)]
      /\ file' \in [Nodes -> Files \cup {NULL}]
      /\ refs'[serval_dna_ctx] = refs[serval_dna_ctx] - 1
      /\ \A m \in Nodes \ {serval_dna_ctx} : refs'[m] = refs[m]
      /\ LiveIsCounted'
  BY <1>1, <1>2, <1>3, CloseInv DEF Inv
<1>5. TypeOK'
  BY <1>1, <1>4 DEF Inv, TypeOK
<1>6. \A n \in Nodes : Own(n)' = 0 /\ Transient(n)' = 0
  BY <1>1 DEF Own, Transient
<1>7. Counted'
  BY <1>1, <1>2, <1>3, <1>4, <1>6 DEF Counted
<1>8. Running'
  BY <1>1 DEF Running, Steps
<1>9. LiveHasPath'
  BY <1>1, <1>4 DEF serval_close_keyring, Inv, LiveHasPath
<1> QED BY <1>4, <1>5, <1>7, <1>8, <1>9 DEF Inv

\* What the other processes do.
OthersStep ==
    \/ \E c \in Clients : (\E p \in Shared : ClientOpens(c, p)) \/ ClientCommits(c) \/ ClientQuits(c)
    \/ \E p \in Shared : Emptied(p)

\* A file that is overwritten.
LEMMA OverwriteFacts ==
    ASSUME TypeOK, NEW p \in Paths, NEW held \in SUBSET Sids, Overwrite(p, held)
    PROVE  /\ UNCHANGED pluginVars
           /\ disk' \in [Paths -> SUBSET Sids] /\ lost' \subseteq Paths \X Sids
           /\ disk'[p] = held /\ \A q \in Paths \ {p} : disk'[q] = disk[q]
           /\ lost' = lost \cup ({p} \X (disk[p] \ held))
<1>1. disk' = [disk EXCEPT ![p] = held] /\ lost' = lost \cup ({p} \X (disk[p] \ held))
  BY DEF Overwrite
<1>2. disk \in [Paths -> SUBSET Sids] /\ lost \subseteq Paths \X Sids
  BY DEF TypeOK
<1>3. UNCHANGED pluginVars
  BY DEF Overwrite
<1> QED BY <1>1, <1>2, <1>3

\* What serval-client has read, and what it writes.
LEMMA CommitHolds ==
    ASSUME TypeOK, NEW c \in Clients, ClientCommits(c)
    PROVE  /\ client[c].path \in Paths /\ client[c].held \in SUBSET Sids
           /\ \E new \in Unseeded : /\ new \in SUBSET Sids
                                    /\ Overwrite(client[c].path, client[c].held \cup new)
           /\ client' = [client EXCEPT ![c] = NULL]
<1>1. client[c] # NULL /\ client[c] \in [path : Paths, held : SUBSET Sids]
  BY DEF ClientCommits, TypeOK
<1>2. PICK new \in Unseeded : Overwrite(client[c].path, client[c].held \cup new)
  BY DEF ClientCommits
<1>3. new \in SUBSET Sids
  BY <1>2 DEF Unseeded, Fresh
<1> QED BY <1>1, <1>2, <1>3 DEF ClientCommits

\* They leave what the plugin has, and what they take out of a file is lost.
LEMMA OthersFacts ==
    ASSUME TypeOK, OthersStep
    PROVE  /\ UNCHANGED pluginVars
           /\ disk' \in [Paths -> SUBSET Sids] /\ lost' \subseteq Paths \X Sids
           /\ client' \in [Clients -> [path : Paths, held : SUBSET Sids] \cup {NULL}]
           /\ lost \subseteq lost'
           /\ \A p \in Paths : \A s \in disk[p] : s \in disk'[p] \/ <<p, s>> \in lost'
<1>1. ASSUME NEW p \in Paths, NEW held \in SUBSET Sids, Overwrite(p, held)
      PROVE  /\ UNCHANGED pluginVars
             /\ disk' \in [Paths -> SUBSET Sids] /\ lost' \subseteq Paths \X Sids
             /\ lost \subseteq lost'
             /\ \A q \in Paths : \A s \in disk[q] : s \in disk'[q] \/ <<q, s>> \in lost'
  BY <1>1, OverwriteFacts
<1>2. client \in [Clients -> [path : Paths, held : SUBSET Sids] \cup {NULL}]
  BY DEF TypeOK
<1>3. ASSUME NEW c \in Clients, NEW p \in Shared, ClientOpens(c, p)
      PROVE  /\ UNCHANGED <<pluginVars, disk, lost>>
             /\ client' \in [Clients -> [path : Paths, held : SUBSET Sids] \cup {NULL}]
  <2>1. p \in Paths /\ disk[p] \in SUBSET Sids
    BY KeyringsAssumption DEF TypeOK
  <2>2. client' = [client EXCEPT ![c] = [path |-> p, held |-> disk[p]]]
    BY <1>3 DEF ClientOpens
  <2> QED BY <1>2, <1>3, <2>1, <2>2 DEF ClientOpens
<1>4. ASSUME NEW c \in Clients, ClientQuits(c)
      PROVE  /\ UNCHANGED <<pluginVars, disk, lost>>
             /\ client' \in [Clients -> [path : Paths, held : SUBSET Sids] \cup {NULL}]
  BY <1>2, <1>4 DEF ClientQuits
<1>5. CASE \E p \in Shared : Emptied(p)
  <2>1. PICK p \in Paths : Overwrite(p, {}) /\ UNCHANGED client
    BY <1>5, KeyringsAssumption DEF Emptied
  <2> QED BY <1>1, <1>2, <2>1
<1>6. CASE \E c \in Clients : ClientCommits(c)
  <2>1. PICK c \in Clients : ClientCommits(c)
    BY <1>6
  <2>2. PICK new \in Unseeded : /\ new \in SUBSET Sids
                                /\ Overwrite(client[c].path, client[c].held \cup new)
    BY <2>1, CommitHolds
  <2>3. client[c].path \in Paths /\ client[c].held \cup new \in SUBSET Sids
    BY <2>1, <2>2, CommitHolds
  <2>4. client' = [client EXCEPT ![c] = NULL]
    BY <2>1, CommitHolds
  <2> QED BY <1>1, <1>2, <2>2, <2>3, <2>4
<1> QED BY <1>3, <1>4, <1>5, <1>6 DEF OthersStep, TypeOK

LEMMA OthersInv ==
    ASSUME Inv, OthersStep
    PROVE  Inv'
<1>1. TypeOK'
  BY OthersFacts DEF Inv, TypeOK, pluginVars, nodeVars
<1>2. UNCHANGED pluginVars
  BY OthersFacts DEF Inv
<1> QED BY <1>1, <1>2 DEF Inv, Counted, LiveIsCounted, LiveHasPath, Running, Own, Transient,
                          pluginVars, nodeVars

LEMMA StepInv == Inv /\ [Next]_vars => Inv'
<1> SUFFICES ASSUME Inv, [Next]_vars PROVE Inv'
  OBVIOUS
<1>1. CASE co_plugin_init
  BY <1>1, CallInv DEF co_plugin_init, Ops
<1>2. CASE co_plugin_shutdown
  BY <1>2, ShutdownInv
<1>3. CASE serval_daemon_handler
  <2>1. serval_dna_ctx \in Nodes
    BY <1>3 DEF serval_daemon_handler, Started, Inv, TypeOK
  <2> QED BY <1>3, <2>1, CallInv DEF serval_daemon_handler, Ops
<1>4. CASE \E p \in Paths, sid \in Known \cup {NULL} : cmd_serval_sign(p, sid)
  BY <1>4, CallInv, KnownType DEF cmd_serval_sign, Ops, Inv
<1>5. CASE \E p \in Paths, sid \in Known : olsrd_mdp_init(p, sid)
  BY <1>5, CallInv, KnownType DEF olsrd_mdp_init, Ops, Inv
<1>6. CASE serval_open_keyring
  BY <1>6, OpenInv
<1>7. CASE serval_keyring_add_identity
  BY <1>7, IdentityInv
<1>8. CASE serval_extract_sas
  BY <1>8, ExtractInv
<1>9. CASE serval_reload_keyring
  BY <1>9, ReloadInv
<1>10. CASE HandlerEnds
  BY <1>10, EndsInv
<1>11. CASE OthersStep
  BY <1>11, OthersInv
<1>12. CASE UNCHANGED vars
  BY <1>12 DEF vars, nodeVars, others, Inv, TypeOK, Counted, LiveIsCounted, LiveHasPath, Running, Own,
               Transient
<1> QED
  BY <1>1, <1>2, <1>3, <1>4, <1>5, <1>6, <1>7, <1>8, <1>9, <1>10, <1>11, <1>12
     DEF Next, OthersStep

\* Every state of the keyrings, files and handlers is well typed; the
\* reference counts stay within the number of contexts there can be.
THEOREM KeyringsType == Spec => []TypeOK
<1>1. Inv => TypeOK
  BY DEF Inv
<1> QED BY <1>1, InitInv, StepInv, PTL DEF Spec

\* No keyring is freed while a context uses it, and none is kept without one,
\* whatever handlers ran, with whatever paths, and however they failed.
THEOREM CountsAreRight == Spec => []RefsAreContexts
<1>1. Inv => RefsAreContexts
  <2> SUFFICES ASSUME Inv, step = "idle", NEW n \in Nodes
               PROVE  LET contexts == leaked[n] + IF serval_dna_ctx = n THEN 1 ELSE 0
                      IN  refs[n] = contexts /\ (n \in live <=> contexts > 0)
    BY DEF RefsAreContexts
  <2>1. refs[n] = leaked[n] + Own(n)
    BY NoneTransient DEF Inv
  <2> QED BY <2>1 DEF Own, Inv, LiveIsCounted
<1> QED BY <1>1, InitInv, StepInv, PTL DEF Spec

-----------------------------------------------------------------------------
(* The keyring a handler works on.  An open keyring is the only one of a   *)
(* path like its own and the list leads to it, so a search that finds none *)
(* leaves none to be found.                                                *)

OpenIsListed == live \subseteq ToSet(keyring_list)

OnePath == \A m, n \in live : Alike(path[m], path[n]) => m = n

\* The keyring of the handler that runs, and the plugin's, are those of their paths.
HoldsIts ==
    /\ step \in {"identity", "extract", "update", "close"} /\ req.node # NULL =>
           Alike(path[req.node], req.path)
    /\ step \in Steps /\ req.op \in {"init", "reload"} => req.path = Default
    /\ step # "undefined" /\ serval_dna_ctx # NULL => Alike(path[serval_dna_ctx], Default)

Placed == OpenIsListed /\ OnePath /\ HoldsIts

\* The plugin's keyring has a context, and so it is allocated.
LEMMA OwnIsLive ==
    ASSUME Inv, step # "undefined", serval_dna_ctx # NULL
    PROVE  serval_dna_ctx \in live
<1>1. serval_dna_ctx \in Nodes
  BY DEF Inv, TypeOK
<1>2. /\ leaked[serval_dna_ctx] \in Nat /\ Transient(serval_dna_ctx) \in {0, 1}
      /\ Own(serval_dna_ctx) = 1
  BY <1>1 DEF Inv, TypeOK, Own, Transient
<1>3. refs[serval_dna_ctx]
        = leaked[serval_dna_ctx] + Own(serval_dna_ctx) + Transient(serval_dna_ctx)
  BY <1>1 DEF Inv, Counted
<1> QED BY <1>1, <1>2, <1>3 DEF Inv, LiveIsCounted

\* A search that finds nothing has met no keyring of a path like that.
LEMMA FindsAll ==
    ASSUME TypeOK, LiveHasPath, OpenIsListed, NEW p \in Paths, _svl_keyring_find(p) = {}
    PROVE  \A n \in live : ~Alike(path[n], p)
<1> DEFINE hits == {i \in DOMAIN keyring_list : Alike(path[keyring_list[i]], p)}
<1>1. hits \subseteq Nat
  BY DEF TypeOK
<1>2. hits = {}
  <2> SUFFICES ASSUME hits # {} PROVE FALSE
    OBVIOUS
  <2>1. PICK j \in hits : \A k \in hits : ~(<<k, j>> \in OpToRel(<, Nat))
    BY <1>1, NatLessThanWellFounded, WFMin, Zenon
  <2>2. \A k \in hits : j <= k
    <3> SUFFICES ASSUME NEW k \in hits PROVE j <= k
      OBVIOUS
    <3>1. j \in Nat /\ k \in Nat
      BY <1>1, <2>1
    <3>2. ~(<<k, j>> \in OpToRel(<, Nat))
      BY <2>1
    <3> QED BY <3>1, <3>2 DEF OpToRel
  <2>3. keyring_list[j] \in _svl_keyring_find(p)
    BY <2>1, <2>2 DEF _svl_keyring_find
  <2> QED BY <2>3
<1>3. ASSUME NEW n \in live, Alike(path[n], p) PROVE FALSE
  <2>1. PICK i \in DOMAIN keyring_list : keyring_list[i] = n
    BY ToSetMeans, <1>3 DEF OpenIsListed, TypeOK, ToSet
  <2>2. Alike(path[keyring_list[i]], p)
    BY <1>3, <2>1
  <2> QED BY <1>2, <2>1, <2>2
<1> QED BY <1>3

LEMMA ToSetConcat ==
    ASSUME NEW S, NEW e, NEW s \in Seq(S), <<e>> \in Seq(S)
    PROVE  ToSet(<<e>> \o s) = ToSet(s) \cup {e}
<1> DEFINE r == <<e>> \o s
<1>1. r \in Seq(S) /\ Len(r) = Len(s) + 1 /\ Len(s) \in Nat
  BY ConcatProperties
<1>2. r[1] = e /\ \A i \in 1..Len(s) : r[i + 1] = s[i]
  OBVIOUS
<1> HIDE DEF r
<1>3. ASSUME NEW x \in ToSet(r) PROVE x \in ToSet(s) \cup {e}
  <2>1. PICK i \in 1..Len(r) : r[i] = x
    BY <1>1, <1>3, ToSetMeans
  <2>2. CASE i = 1
    BY <1>2, <2>1, <2>2
  <2>3. CASE i # 1
    <3>1. i - 1 \in 1..Len(s) /\ (i - 1) + 1 = i
      BY <1>1, <2>1, <2>3
    <3>2. s[i - 1] = x
      BY <1>2, <2>1, <3>1
    <3> QED BY <3>1, <3>2, ToSetMeans
  <2> QED BY <2>2, <2>3
<1>4. ASSUME NEW x \in ToSet(s) \cup {e} PROVE x \in ToSet(r)
  <2>1. CASE x = e
    BY <1>1, <1>2, <2>1, ToSetMeans
  <2>2. CASE x \in ToSet(s)
    <3>1. PICK i \in 1..Len(s) : s[i] = x
      BY <2>2, ToSetMeans
    <3>2. i + 1 \in 1..Len(r) /\ r[i + 1] = x
      BY <1>1, <1>2, <3>1
    <3> QED BY <1>1, <3>2, ToSetMeans
  <2> QED BY <1>4, <2>1, <2>2
<1> QED BY <1>3, <1>4 DEF r

LEMMA FoundIsAlike ==
    ASSUME NEW p, NEW n \in _svl_keyring_find(p)
    PROVE  Alike(path[n], p)
BY DEF _svl_keyring_find

\* A keyring that is given up leaves the others where they are.
LEMMA ClosePlaces ==
    ASSUME TypeOK, OpenIsListed, NEW n \in Nodes, serval_close_keyring(n)
    PROVE  /\ OpenIsListed'
           /\ live' \subseteq live /\ path' = path
           /\ \A m \in live' : file'[m] = file[m]
<1>1. live' \subseteq live /\ path' = path
  BY DEF serval_close_keyring
<1>2. \A m \in live' : file'[m] = file[m]
  BY DEF serval_close_keyring, TypeOK
<1>3. ASSUME NEW m \in live' PROVE m \in ToSet(keyring_list')
  <2>1. m \in ToSet(keyring_list)
    BY <1>1, <1>3 DEF OpenIsListed
  <2> DEFINE at == {i \in 2..Len(keyring_list) : keyring_list[i] = n}
             i == CHOOSE j \in at : TRUE
  <2>2. CASE refs[n] = 1 /\ at # {}
    <3>1. i \in 2..Len(keyring_list) /\ keyring_list[i] = n
      BY <2>2
    <3>2. keyring_list' = RemoveAt(keyring_list, i)
      BY <2>2 DEF serval_close_keyring, _svl_keyring_remove
    <3>3. keyring_list \in Seq(Nodes) /\ Len(keyring_list) \in Nat
      BY DEF TypeOK
    <3>4. PICK k \in 1..Len(keyring_list) : keyring_list[k] = m
      BY <2>1, <3>3, ToSetMeans
    <3> HIDE DEF i
    <3>5. m # n
      BY <1>3, <2>2 DEF serval_close_keyring
    <3>6. k # i /\ i \in 1..Len(keyring_list)
      BY <3>1, <3>3, <3>4, <3>5
    <3> DEFINE r == RemoveAt(keyring_list, i)
    <3>7. /\ r \in Seq(Nodes) /\ Len(r) = Len(keyring_list) - 1
          /\ \A j \in 1..Len(keyring_list) - 1 :
                r[j] = IF j < i THEN keyring_list[j] ELSE keyring_list[j + 1]
      BY <3>3, <3>6, RemoveAtFacts
    <3> HIDE DEF r
    <3>8. \E j \in 1..Len(r) : r[j] = m
      <4>1. CASE k < i
        BY <3>1, <3>3, <3>4, <3>7, <4>1
      <4>2. CASE k > i
        <5>1. k - 1 \in 1..Len(keyring_list) - 1 /\ ~(k - 1 < i) /\ (k - 1) + 1 = k
          BY <3>1, <3>3, <3>4, <4>2
        <5>2. r[k - 1] = m
          BY <3>4, <3>7, <5>1
        <5> QED BY <3>7, <5>1, <5>2
      <4> QED BY <3>1, <3>3, <3>4, <3>6, <4>1, <4>2
    <3>9. m \in ToSet(r)
      BY <3>7, <3>8, ToSetMeans
    <3> QED BY <3>2, <3>9 DEF r
  <2>3. CASE ~(refs[n] = 1 /\ at # {})
    <3>1. keyring_list' = keyring_list
      BY <2>3 DEF serval_close_keyring, _svl_keyring_remove
    <3> QED BY <2>1, <3>1
  <2> QED BY <2>2, <2>3
<1> QED BY <1>1, <1>2, <1>3 DEF OpenIsListed

LEMMA OpenPlaces ==
    ASSUME Inv, Placed, serval_open_keyring
    PROVE  Placed'
<1>1. step = "open" /\ UNCHANGED serval_dna_ctx
  BY DEF serval_open_keyring
<1>2. req.path \in Paths /\ TypeOK /\ req \in Request
  BY DEF Inv, TypeOK, Request
<1>3. serval_dna_ctx # NULL => serval_dna_ctx \in live /\ Alike(path[serval_dna_ctx], Default)
  BY <1>1, OwnIsLive DEF Placed, HoldsIts
<1>4. CASE Undefine
  BY <1>1, <1>4 DEF Undefine, nodeVars, Placed, OpenIsListed, OnePath, HoldsIts, Steps
<1>5. ASSUME NEW n \in Nodes, UseKeyring(n)
      PROVE  /\ step' \in Steps /\ step' # "undefined"
             /\ req'.node = n /\ req'.op = req.op /\ req'.path = req.path
  <2>1. /\ step' \in {"close", "identity", "extract"}
        /\ req'.node = n /\ req'.op = req.op /\ req'.path = req.path
    BY <1>1, <1>5, UseInv DEF serval_open_keyring
  <2> QED BY <2>1 DEF Steps
<1>6. CASE /\ ToSet(keyring_list) \subseteq live
           /\ \E n \in _svl_keyring_find(req.path) : OpenShared(n)
  <2>1. PICK n \in _svl_keyring_find(req.path) : OpenShared(n)
    BY <1>6
  <2>2. n \in live /\ n \in Nodes
    BY <1>2, <1>6, FoundIsListed
  <2>3. Alike(path[n], req.path)
    BY <2>1, FoundIsAlike
  <2>4. UNCHANGED <<keyring_list, live, path>>
    BY <2>1 DEF OpenShared
  <2>5. /\ step' \in Steps /\ step' # "undefined"
        /\ req'.node = n /\ req'.op = req.op /\ req'.path = req.path
    BY <1>5, <2>1, <2>2 DEF OpenShared
  <2> QED BY <1>1, <1>3, <2>3, <2>4, <2>5 DEF Placed, OpenIsListed, OnePath, HoldsIts, Steps
<1>7. CASE _svl_keyring_find(req.path) = {} /\ \E n \in Nodes \ live : OpenNew(n)
  <2>1. PICK n \in Nodes \ live : OpenNew(n)
    BY <1>7
  <2>2. CASE Fail /\ UNCHANGED nodeVars
    <3>1. step' = "close" /\ UNCHANGED <<req, keyring_list, live, path>>
      BY <2>2 DEF Fail, nodeVars
    <3>2. req.node = NULL
      BY <1>1 DEF Inv, Running
    <3> QED BY <1>1, <1>3, <3>1, <3>2 DEF Placed, OpenIsListed, OnePath, HoldsIts, Steps
  <2>3. CASE /\ live' = live \cup {n}
             /\ path' = [path EXCEPT ![n] = req.path]
             /\ keyring_list' = <<n>> \o keyring_list
             /\ UseKeyring(n)
    <3>1. /\ live' = live \cup {n}
          /\ path' = [path EXCEPT ![n] = req.path]
          /\ keyring_list' = <<n>> \o keyring_list
          /\ UseKeyring(n)
      BY <2>3
    <3>2. path'[n] = req.path /\ \A m \in live : path'[m] = path[m]
      BY <1>2, <2>1, <3>1 DEF TypeOK
    <3>3. \A m \in live : ~Alike(path[m], req.path) /\ ~Alike(req.path, path[m])
      <4>1. \A m \in live : ~Alike(path[m], req.path) /\ path[m] \in Paths
        BY <1>2, <1>7, FindsAll DEF Inv, Placed, LiveHasPath
      <4> QED BY <1>2, <4>1, KeyringsAssumption
    <3>4. OnePath'
      BY <3>1, <3>2, <3>3 DEF Placed, OnePath
    <3>5. ToSet(keyring_list') = ToSet(keyring_list) \cup {n}
      <4>1. keyring_list \in Seq(Nodes) /\ <<n>> \in Seq(Nodes)
        BY <1>2, <2>1 DEF TypeOK
      <4>2. keyring_list' = <<n>> \o keyring_list
        BY <3>1
      <4> QED BY <4>1, <4>2, ToSetConcat
    <3>6. OpenIsListed'
      BY <3>1, <3>5 DEF Placed, OpenIsListed
    <3>7. /\ step' \in Steps /\ step' # "undefined"
          /\ req'.node = n /\ req'.op = req.op /\ req'.path = req.path
      BY <1>5, <2>1, <3>1
    <3>8. HoldsIts'
      <4>1. Alike(req.path, req.path)
        BY <1>2, KeyringsAssumption
      <4> QED BY <1>1, <1>3, <3>2, <3>7, <4>1 DEF Placed, HoldsIts, Steps
    <3> QED BY <3>4, <3>6, <3>8 DEF Placed
  <2> QED BY <2>1, <2>2, <2>3 DEF OpenNew, nodeVars
<1> QED BY <1>4, <1>6, <1>7 DEF serval_open_keyring

\* The other calls of a handler go on with the keyring it has.
LEMMA CallPlaces ==
    ASSUME Inv, Placed,
           serval_keyring_add_identity \/ serval_extract_sas \/ serval_reload_keyring
    PROVE  Placed'
<1>1. /\ UNCHANGED <<keyring_list, live, path, serval_dna_ctx>>
      /\ step \in {"identity", "extract", "update"}
  BY DEF serval_keyring_add_identity, serval_extract_sas, serval_reload_keyring, Undefine, nodeVars
<1>2. \/ step' = "undefined"
      \/ /\ step' \in {"update", "close"}
         /\ req'.op = req.op /\ req'.node = req.node /\ req'.path = req.path
  <2>1. CASE Succeed \/ Fail
    BY <2>1, CallEnds DEF Inv
  <2>2. CASE Undefine
    BY <2>2 DEF Undefine
  <2>3. ASSUME NEW s, step' = "update", req' = [req EXCEPT !.sid = s]
        PROVE  /\ step' \in {"update", "close"}
               /\ req'.op = req.op /\ req'.node = req.node /\ req'.path = req.path
    BY <2>3 DEF Inv, TypeOK, Request
  <2>4. CASE serval_keyring_add_identity
    BY <2>1, <2>2, <2>3, <2>4 DEF serval_keyring_add_identity
  <2>5. CASE serval_extract_sas \/ serval_reload_keyring
    BY <2>1, <2>2, <2>5 DEF serval_extract_sas, serval_reload_keyring
  <2> QED BY <2>4, <2>5
<1> QED BY <1>1, <1>2 DEF Placed, OpenIsListed, OnePath, HoldsIts, Steps

LEMMA EndPlaces ==
    ASSUME Inv, Placed, HandlerEnds
    PROVE  Placed'
<1>1. step = "close" /\ step' = "idle" /\ TypeOK
  BY DEF HandlerEnds, Inv
<1>2. live' \subseteq live /\ path' = path /\ OpenIsListed'
  <2>1. CASE UNCHANGED nodeVars
    BY <2>1 DEF nodeVars, Placed, OpenIsListed
  <2>2. CASE req.node # NULL /\ serval_close_keyring(req.node)
    <3>1. req.node \in Nodes
      BY <1>1, <2>2 DEF TypeOK, Request
    <3> QED BY <1>1, <2>2, <3>1, ClosePlaces DEF Placed
  <2> QED BY <2>1, <2>2 DEF HandlerEnds, svl_crypto_ctx_free
<1>3. OnePath'
  BY <1>2 DEF Placed, OnePath
<1>4. serval_dna_ctx' # NULL => Alike(path'[serval_dna_ctx'], Default)
  <2>1. CASE req.op = "init" /\ req.ok
    <3>1. serval_dna_ctx' = req.node /\ req.node # NULL
      BY <1>1, <2>1 DEF HandlerEnds, Inv, Running
    <3> QED BY <1>1, <1>2, <2>1, <3>1 DEF Placed, HoldsIts, Steps
  <2>2. CASE ~(req.op = "init" /\ req.ok)
    <3>1. UNCHANGED serval_dna_ctx
      BY <2>2 DEF HandlerEnds
    <3> QED BY <1>1, <1>2, <3>1 DEF Placed, HoldsIts
  <2> QED BY <2>1, <2>2
<1> QED BY <1>1, <1>2, <1>3, <1>4 DEF Placed, HoldsIts, Steps

LEMMA PlacedStep ==
    ASSUME Inv, Placed, [Next]_vars
    PROVE  Placed'
<1>1. ASSUME NEW op, NEW p, NEW sid, NEW node, NEW first \in {"open", "update"},
             Call(op, p, sid, node, first),
             op \in {"init", "reload"} => p = Default,
             first = "update" => node = serval_dna_ctx /\ p = Default
      PROVE  Placed'
  <2>1. /\ step = "idle" /\ step' = first /\ UNCHANGED <<keyring_list, live, path, serval_dna_ctx>>
        /\ req'.op = op /\ req'.path = p /\ req'.node = node
    BY <1>1 DEF Call, nodeVars
  <2> QED BY <1>1, <2>1 DEF Placed, OpenIsListed, OnePath, HoldsIts, Steps
<1>2. CASE co_plugin_init \/ serval_daemon_handler
  BY <1>1, <1>2 DEF co_plugin_init, serval_daemon_handler
<1>3. CASE \E p \in Paths, sid \in Known \cup {NULL} : cmd_serval_sign(p, sid)
  <2>1. PICK p \in Paths, sid \in Known \cup {NULL} : Call("sign", p, sid, NULL, "open")
    BY <1>3 DEF cmd_serval_sign
  <2> QED BY <1>1, <2>1
<1>4. CASE \E p \in Paths, sid \in Known : olsrd_mdp_init(p, sid)
  <2>1. PICK p \in Paths, sid \in Known : Call("mdp-init", p, sid, NULL, "open")
    BY <1>4 DEF olsrd_mdp_init
  <2> QED BY <1>1, <2>1
<1>5. CASE co_plugin_shutdown
  <2>1. serval_dna_ctx \in Nodes /\ serval_close_keyring(serval_dna_ctx) /\ TypeOK
    BY <1>5 DEF co_plugin_shutdown, Started, svl_crypto_ctx_free, Inv, TypeOK
  <2>2. OpenIsListed' /\ live' \subseteq live /\ path' = path
    BY <2>1, ClosePlaces DEF Placed
  <2>3. step' = "down" /\ serval_dna_ctx' = NULL
    BY <1>5 DEF co_plugin_shutdown
  <2> QED BY <2>2, <2>3 DEF Placed, OnePath, HoldsIts, Steps
<1>6. CASE UNCHANGED <<nodeVars, serval_dna_ctx, step, req>>
  BY <1>6 DEF nodeVars, Placed, OpenIsListed, OnePath, HoldsIts
<1>7. CASE OthersStep
  BY <1>6, <1>7, OthersFacts DEF Inv, pluginVars
<1>8. CASE UNCHANGED vars
  BY <1>6, <1>8 DEF vars
<1> QED
  BY <1>2, <1>3, <1>4, <1>5, <1>7, <1>8, OpenPlaces, CallPlaces, EndPlaces
     DEF Next, OthersStep

LEMMA InitPlaced == Init => Placed
BY DEF Init, Placed, OpenIsListed, OnePath, HoldsIts, Steps

\* A handler that comes to its end has worked on the keyring of the path it was
\* given, or of one that differs from it in case, however keyrings were shared,
\* freed and reloaded before.
THEOREM WorksOnGiven == Spec => []WorksOnItsOwn
<1>1. Init => WorksOnItsOwn
  BY DEF Init, WorksOnItsOwn
<1>2. Inv /\ Placed /\ [Next]_vars => Placed'
  BY PlacedStep
<1>3. Inv /\ Placed /\ WorksOnItsOwn /\ [Next]_vars => WorksOnItsOwn'
  <2> SUFFICES ASSUME Inv, Placed, WorksOnItsOwn, [Next]_vars PROVE WorksOnItsOwn'
    OBVIOUS
  <2>1. CASE HandlerEnds
    <3>1. step = "close" /\ ret' = <<req.path, IF req.node = NULL THEN NULL ELSE path[req.node]>>
      BY <2>1 DEF HandlerEnds
    <3> QED BY <3>1 DEF Placed, HoldsIts, WorksOnItsOwn
  <2>2. CASE UNCHANGED ret
    BY <2>2 DEF WorksOnItsOwn
  <2>3. CASE OthersStep
    BY <2>2, <2>3, OthersFacts DEF Inv, pluginVars
  <2> QED
    BY <2>1, <2>2, <2>3 DEF Next, OthersStep, vars, co_plugin_init, co_plugin_shutdown,
       serval_daemon_handler, Call, cmd_serval_sign, olsrd_mdp_init, serval_open_keyring,
       serval_keyring_add_identity, serval_extract_sas, serval_reload_keyring
<1> QED BY <1>1, <1>2, <1>3, InitInv, InitPlaced, StepInv, PTL DEF Spec

-----------------------------------------------------------------------------
(* The global keyring file.  A reload that failed leaves the library with  *)
(* the old file; until the next one that succeeds nothing of what the      *)
(* plugin's keyring then has in memory is in its file, or will be written  *)
(* into it by another process (Dark).                                      *)

LEMMA FreshIsNowhere ==
    ASSUME NEW s \in Fresh
    PROVE  /\ s \in Sids
           /\ \A p \in Paths : s \notin disk[p] /\ <<p, s>> \notin lost /\ <<p, s>> \notin given
           /\ \A n \in live : s \notin ids[n]
           /\ \A c \in Clients : client[c] # NULL => s \notin client[c].held
<1>1. s \in Sids /\ s \notin Known /\ s \notin UNION {ids[n] : n \in live} /\ s \notin HeldByClients
  BY DEF Fresh
<1>2. ASSUME NEW p \in Paths
      PROVE  s \notin disk[p] /\ <<p, s>> \notin lost /\ <<p, s>> \notin given
  BY <1>1 DEF Known
<1>3. \A c \in Clients : client[c] # NULL => s \notin client[c].held
  BY <1>1 DEF HeldByClients
<1> QED BY <1>1, <1>2, <1>3

LEMMA OpenedHolds ==
    ASSUME NEW p \in Paths, NEW held \in Opened(p)
    PROVE  /\ disk[p] \subseteq held
           /\ \A s \in held : s \in disk[p] \/ s \in Fresh
<1>1. CASE disk[p] # {}
  BY <1>1 DEF Opened
<1>2. CASE disk[p] = {}
  BY <1>2 DEF Opened
<1> QED BY <1>1, <1>2

Dark(n) ==
    \A s \in ids[n] :
        /\ s \notin disk[path[n]]
        /\ \A c \in Clients : client[c] # NULL /\ client[c].path = path[n] => s \notin client[c].held

LoadedAt(n) ==
    file[n] # NULL /\ ~(step = "update" /\ req.node = n) => keyring = file[n] \/ Dark(n)

Loaded == step # "undefined" /\ serval_dna_ctx # NULL => LoadedAt(serval_dna_ctx)

\* A keyring that is given up has the file it had, or none.
LEMMA CloseKeepsFile ==
    ASSUME TypeOK, NEW n \in Nodes, serval_close_keyring(n)
    PROVE  \A m \in Nodes : file'[m] \in {file[m], NULL}
BY DEF serval_close_keyring, TypeOK

\* Live keyrings have different paths.
LEMMA PathsApart ==
    ASSUME LiveHasPath, OnePath, NEW m \in live, NEW n \in live, path[m] = path[n]
    PROVE  m = n
<1>1. Alike(path[m], path[n])
  BY KeyringsAssumption DEF LiveHasPath
<1> QED BY <1>1 DEF OnePath

\* The plugin's keyring while others are opened, written and closed.
LEMMA LoadedElsewhere ==
    ASSUME NEW n, LoadedAt(n), UNCHANGED <<keyring, client>>,
           file'[n] \in {file[n], NULL}, ids'[n] = ids[n], path'[n] = path[n],
           disk'[path[n]] = disk[path[n]],
           step = "update" => req.node # n
    PROVE  LoadedAt(n)'
BY DEF LoadedAt, Dark

LEMMA LoadedOpen ==
    ASSUME Inv, Placed, NEW n \in live, LoadedAt(n), serval_open_keyring, step' # "undefined"
    PROVE  LoadedAt(n)'
<1>1. /\ step = "open" /\ UNCHANGED <<keyring, client>>
      /\ TypeOK /\ n \in Nodes /\ req.path \in Paths /\ LiveHasPath
  BY DEF serval_open_keyring, others, Inv, TypeOK, Request
<1>2. CASE \E m \in _svl_keyring_find(req.path) : OpenShared(m)
  BY <1>1, <1>2, LoadedElsewhere DEF OpenShared
<1>3. CASE _svl_keyring_find(req.path) = {} /\ \E m \in Nodes \ live : OpenNew(m)
  <2>1. PICK m \in Nodes \ live : OpenNew(m)
    BY <1>3
  <2>2. CASE UNCHANGED <<nodeVars, ids, disk>>
    BY <1>1, <2>2, LoadedElsewhere DEF nodeVars
  <2>3. CASE _svl_keyring_open(m, req.path, TRUE) /\ path' = [path EXCEPT ![m] = req.path]
    <3>1. path[n] # req.path /\ path[n] \in Paths
      <4>1. ~Alike(path[n], req.path)
        BY <1>1, <1>3, FindsAll DEF Placed
      <4> QED BY <1>1, <4>1, KeyringsAssumption DEF LiveHasPath
    <3>2. /\ file'[n] = file[n] /\ ids'[n] = ids[n] /\ path'[n] = path[n]
          /\ disk'[path[n]] = disk[path[n]]
      BY <1>1, <2>1, <2>3, <3>1 DEF _svl_keyring_open, TypeOK
    <3> QED BY <1>1, <3>2, LoadedElsewhere
  <2> QED BY <2>1, <2>2, <2>3 DEF OpenNew
<1> QED BY <1>2, <1>3 DEF serval_open_keyring, Undefine

LEMMA LoadedIdentity ==
    ASSUME Inv, Placed, NEW n \in live, LoadedAt(n), serval_keyring_add_identity,
           step' # "undefined"
    PROVE  LoadedAt(n)'
<1>1. /\ step = "identity" /\ UNCHANGED <<nodeVars, keyring, client>>
      /\ TypeOK /\ n \in Nodes /\ req.node \in Nodes /\ LiveHasPath
  BY DEF serval_keyring_add_identity, others, Undefine, Inv, Running, TypeOK
<1>2. req.node \in live
  BY <1>1, HeldIsLive
<1>3. PICK s \in Fresh :
          /\ ids' = [ids EXCEPT ![req.node] = @ \cup {s}]
          /\ \/ /\ step' = "update" /\ req' = [req EXCEPT !.sid = s]
                /\ disk' = [disk EXCEPT ![path[req.node]] = ids'[req.node]]
             \/ Fail /\ UNCHANGED disk
  BY DEF serval_keyring_add_identity, Undefine
<1>4. CASE req.node # n
  <2>1. path[n] # path[req.node] /\ path[n] \in Paths
    BY <1>1, <1>2, <1>4, PathsApart DEF Placed, LiveHasPath
  <2>2. ids'[n] = ids[n] /\ disk'[path[n]] = disk[path[n]]
    BY <1>1, <1>3, <1>4, <2>1 DEF TypeOK
  <2> QED BY <1>1, <2>2, LoadedElsewhere DEF nodeVars
<1>5. CASE req.node = n /\ step' = "update" /\ req' = [req EXCEPT !.sid = s]
  <2>1. req'.node = n
    BY <1>1, <1>5 DEF TypeOK, Request
  <2> QED BY <1>5, <2>1 DEF LoadedAt
<1>6. CASE req.node = n /\ Fail /\ UNCHANGED disk
  <2>1. ids'[n] = ids[n] \cup {s}
    BY <1>1, <1>3, <1>6 DEF TypeOK
  <2>2. /\ s \notin disk[path[n]]
        /\ \A c \in Clients : client[c] # NULL => s \notin client[c].held
    BY <1>1, FreshIsNowhere DEF LiveHasPath
  <2>3. Dark(n) => Dark(n)'
    BY <1>1, <1>6, <2>1, <2>2 DEF Dark, nodeVars
  <2> QED BY <1>1, <2>3 DEF LoadedAt, nodeVars
<1> QED BY <1>3, <1>4, <1>5, <1>6

LEMMA LoadedReload ==
    ASSUME Inv, Placed, NEW n \in live, n = serval_dna_ctx, LoadedAt(n), serval_reload_keyring
    PROVE  LoadedAt(n)'
<1>1. /\ step = "update" /\ step' = "close" /\ UNCHANGED <<path, live, client>>
      /\ TypeOK /\ n \in Nodes /\ req.node \in Nodes /\ LiveHasPath
  BY DEF serval_reload_keyring, Fail, Succeed, others, Inv, Running, TypeOK
<1>2. req.node \in live /\ path[n] \in Paths
  BY <1>1, HeldIsLive DEF LiveHasPath
<1>3. CASE file[req.node] = NULL /\ UNCHANGED <<file, ids, disk, keyring>>
  BY <1>1, <1>3 DEF LoadedAt, Dark
<1>4. CASE file[req.node] # NULL
  <2>1. PICK ok \in BOOLEAN :
            /\ _svl_keyring_open(req.node, path[req.node], ok)
            /\ keyring' = IF ok /\ req.node = serval_dna_ctx THEN file'[req.node] ELSE keyring
    BY <1>4 DEF serval_reload_keyring
  <2>2. CASE req.node # n
    <3>1. path[n] # path[req.node]
      BY <1>1, <1>2, <2>2, PathsApart DEF Placed
    <3>2. file'[n] = file[n] /\ ids'[n] = ids[n] /\ disk'[path[n]] = disk[path[n]]
      BY <1>1, <1>2, <2>1, <2>2, <3>1 DEF _svl_keyring_open, TypeOK
    <3>3. UNCHANGED keyring
      BY <2>1, <2>2
    <3> QED BY <1>1, <2>2, <3>2, <3>3, LoadedElsewhere
  <2>3. CASE req.node = n /\ ok
    BY <2>1, <2>3 DEF LoadedAt
  <2>4. CASE req.node = n /\ ~ok
    <3>1. CASE file'[n] = NULL
      BY <3>1 DEF LoadedAt
    <3>2. CASE file'[n] # NULL
      <4>1. disk[path[n]] = {} /\ UNCHANGED disk /\ \E held \in Unseeded : ids' = [ids EXCEPT ![n] = held]
        BY <1>1, <2>1, <2>4, <3>2 DEF _svl_keyring_open, TypeOK
      <4>2. \A s \in ids'[n] : s \in Fresh
        BY <1>1, <4>1 DEF Unseeded, TypeOK
      <4>3. Dark(n)'
        BY <1>1, <4>1, <4>2, FreshIsNowhere DEF Dark
      <4> QED BY <4>3 DEF LoadedAt
    <3> QED BY <3>1, <3>2
  <2> QED BY <2>2, <2>3, <2>4
<1> QED BY <1>3, <1>4 DEF serval_reload_keyring

\* What serval-client writes is what it has read, or new.
LEMMA LoadedOthers ==
    ASSUME Inv, NEW n \in live, LoadedAt(n), OthersStep
    PROVE  LoadedAt(n)'
<1>1. UNCHANGED pluginVars /\ TypeOK /\ path[n] \in Paths
  BY OthersFacts DEF Inv, LiveHasPath
<1>2. CASE ~Dark(n)
  BY <1>1, <1>2 DEF LoadedAt, pluginVars, nodeVars
<1>3. CASE Dark(n)
  <2>1. ASSUME NEW c \in Clients, NEW p \in Shared, ClientOpens(c, p) PROVE Dark(n)'
    <3>1. disk' = disk /\ client' = [client EXCEPT ![c] = [path |-> p, held |-> disk[p]]]
      BY <2>1 DEF ClientOpens
    <3> QED BY <1>1, <1>3, <3>1 DEF Dark, pluginVars, nodeVars, TypeOK
  <2>2. ASSUME NEW c \in Clients, ClientQuits(c) PROVE Dark(n)'
    BY <1>1, <1>3, <2>2 DEF ClientQuits, Dark, pluginVars, nodeVars, TypeOK
  <2>3. ASSUME NEW c \in Clients, ClientCommits(c) PROVE Dark(n)'
    <3>1. /\ client[c].path \in Paths /\ client[c].held \in SUBSET Sids /\ client[c] # NULL
          /\ client' = [client EXCEPT ![c] = NULL]
      BY <1>1, <2>3, CommitHolds DEF ClientCommits
    <3>2. PICK new \in Unseeded : /\ new \in SUBSET Sids
                                  /\ Overwrite(client[c].path, client[c].held \cup new)
      BY <1>1, <2>3, CommitHolds
    <3>3. /\ disk'[client[c].path] = client[c].held \cup new
          /\ \A q \in Paths \ {client[c].path} : disk'[q] = disk[q]
      BY <1>1, <3>1, <3>2, OverwriteFacts
    <3>4. \A s \in ids[n] : s \notin new
      BY <3>2, FreshIsNowhere DEF Unseeded
    <3>5. \A s \in ids[n] : s \notin disk'[path[n]]
      BY <1>1, <1>3, <3>1, <3>3, <3>4 DEF Dark
    <3> QED BY <1>1, <1>3, <3>1, <3>5 DEF Dark, pluginVars, nodeVars, TypeOK
  <2>4. ASSUME NEW p \in Shared, Emptied(p) PROVE Dark(n)'
    <3>1. disk' = [disk EXCEPT ![p] = {}] /\ client' = client
      BY <2>4 DEF Emptied, Overwrite
    <3> QED BY <1>1, <1>3, <3>1 DEF Dark, pluginVars, nodeVars, TypeOK
  <2>5. Dark(n)'
    BY <2>1, <2>2, <2>3, <2>4 DEF OthersStep
  <2> QED BY <1>1, <2>5 DEF LoadedAt
<1> QED BY <1>2, <1>3

LEMMA LoadedStep ==
    ASSUME Inv, Placed, Loaded, [Next]_vars
    PROVE  Loaded'
<1>1. CASE step = "undefined"
  <2>1. step' = "undefined"
    <3>1. CASE OthersStep
      BY <1>1, <3>1, OthersFacts DEF Inv, pluginVars
    <3>2. CASE ~OthersStep
      BY <1>1, <3>2 DEF Next, OthersStep, vars, co_plugin_init, co_plugin_shutdown,
         serval_daemon_handler, Call, cmd_serval_sign, olsrd_mdp_init, serval_open_keyring,
         serval_keyring_add_identity, serval_extract_sas, serval_reload_keyring, HandlerEnds
    <3> QED BY <3>1, <3>2
  <2> QED BY <2>1 DEF Loaded
<1>2. CASE HandlerEnds /\ req.op = "init" /\ req.ok
  BY <1>2 DEF HandlerEnds, nodeVars, Loaded, LoadedAt
<1>3. ASSUME NEW n \in Nodes, n = serval_dna_ctx, serval_dna_ctx' = n,
             step # "undefined", step' # "undefined"
      PROVE  LoadedAt(n)'
  <2>1. n \in live /\ n \in Nodes /\ LoadedAt(n) /\ TypeOK
    BY <1>3, OwnIsLive DEF Inv, TypeOK, Loaded
  <2>2. CASE UNCHANGED <<nodeVars, ids, disk, client, keyring>> /\ step # "update"
    BY <2>1, <2>2, LoadedElsewhere DEF nodeVars
  <2>3. CASE HandlerEnds /\ ~(req.op = "init" /\ req.ok)
    <3>1. step = "close" /\ UNCHANGED <<ids, disk, client, keyring>>
      BY <2>3 DEF HandlerEnds, others
    <3>2. CASE UNCHANGED nodeVars
      BY <2>2, <3>1, <3>2
    <3>3. CASE req.node # NULL /\ serval_close_keyring(req.node)
      <4>1. req.node \in Nodes
        BY <2>1, <3>3 DEF TypeOK, Request
      <4>2. file'[n] \in {file[n], NULL} /\ path' = path
        BY <2>1, <3>3, <4>1, CloseKeepsFile DEF serval_close_keyring
      <4> QED BY <2>1, <3>1, <4>2, LoadedElsewhere
    <3> QED BY <2>3, <3>2, <3>3 DEF HandlerEnds, svl_crypto_ctx_free
  <2>4. CASE co_plugin_shutdown
    BY <1>3, <2>4 DEF co_plugin_shutdown
  <2>5. CASE co_plugin_init
    BY <1>3, <2>5 DEF co_plugin_init
  <2>6. CASE serval_daemon_handler
    BY <1>3, <2>6 DEF serval_daemon_handler, Call, LoadedAt
  <2>7. CASE \E p \in Paths, sid \in Known \cup {NULL} : cmd_serval_sign(p, sid)
    BY <2>2, <2>7 DEF cmd_serval_sign, Call, others
  <2>8. CASE \E p \in Paths, sid \in Known : olsrd_mdp_init(p, sid)
    BY <2>2, <2>8 DEF olsrd_mdp_init, Call, others
  <2>9. CASE serval_extract_sas
    BY <1>3, <2>2, <2>9 DEF serval_extract_sas, Undefine, others
  <2>10. CASE UNCHANGED vars
    <3>1. UNCHANGED <<path, file, ids, disk, client, keyring, step, req>>
      BY <2>10 DEF vars, nodeVars, others
    <3> QED BY <2>1, <3>1 DEF LoadedAt, Dark
  <2>11. CASE serval_open_keyring \/ serval_keyring_add_identity
    BY <1>3, <2>1, <2>11, LoadedOpen, LoadedIdentity
  <2>12. CASE serval_reload_keyring
    BY <1>3, <2>1, <2>12, LoadedReload
  <2>13. CASE OthersStep
    BY <1>3, <2>1, <2>13, LoadedOthers
  <2>14. CASE HandlerEnds /\ req.op = "init" /\ req.ok
    BY <1>3, <2>14 DEF Inv, Running, Steps, HandlerEnds
  <2> QED
    BY <2>3, <2>4, <2>5, <2>6, <2>7, <2>8, <2>9, <2>10, <2>11, <2>12, <2>13, <2>14
       DEF Next, OthersStep
<1>4. CASE step' = "undefined" \/ serval_dna_ctx' = NULL
  BY <1>4 DEF Loaded
<1>5. CASE serval_dna_ctx = NULL /\ serval_dna_ctx' # NULL
  <2>1. HandlerEnds /\ req.op = "init" /\ req.ok
    <3>1. CASE OthersStep
      BY <1>5, <3>1, OthersFacts DEF Inv, pluginVars
    <3>2. CASE ~OthersStep
      BY <1>5, <3>2 DEF Next, OthersStep, vars, co_plugin_init, co_plugin_shutdown,
         serval_daemon_handler, Call, cmd_serval_sign, olsrd_mdp_init, serval_open_keyring,
         serval_keyring_add_identity, serval_extract_sas, serval_reload_keyring, HandlerEnds
    <3> QED BY <3>1, <3>2
  <2> QED BY <1>2, <2>1
<1>6. CASE serval_dna_ctx # NULL /\ serval_dna_ctx' \notin {NULL, serval_dna_ctx}
  <2>1. HandlerEnds /\ req.op = "init" /\ req.ok
    <3>1. CASE OthersStep
      BY <1>6, <3>1, OthersFacts DEF Inv, pluginVars
    <3>2. CASE ~OthersStep
      BY <1>6, <3>2 DEF Next, OthersStep, vars, co_plugin_init, co_plugin_shutdown,
         serval_daemon_handler, Call, cmd_serval_sign, olsrd_mdp_init, serval_open_keyring,
         serval_keyring_add_identity, serval_extract_sas, serval_reload_keyring, HandlerEnds
    <3> QED BY <3>1, <3>2
  <2> QED BY <1>2, <2>1
<1>7. CASE /\ step # "undefined" /\ step' # "undefined"
           /\ serval_dna_ctx # NULL /\ serval_dna_ctx' = serval_dna_ctx
  <2>1. serval_dna_ctx \in Nodes
    BY <1>7 DEF Inv, TypeOK
  <2>2. PICK n \in Nodes : n = serval_dna_ctx
    BY <2>1
  <2>3. LoadedAt(n)' /\ serval_dna_ctx' = n
    BY <1>3, <1>7, <2>2
  <2> QED BY <2>3 DEF Loaded, LoadedAt, Dark
<1> QED BY <1>1, <1>4, <1>5, <1>6, <1>7

\* The plugin's keyring is never freed while the plugin runs, and the library's
\* global keyring is its file whenever it holds an identity that is saved there,
\* whatever other keyrings are opened, reloaded and freed, whatever fails, and
\* whatever other processes write into the files.
THEOREM GlobalLoaded == Spec => []GlobalIsLoaded
<1>1. Init => Loaded
  BY DEF Init, Loaded
<1>2. Inv /\ Placed /\ Loaded /\ [Next]_vars => (Placed /\ Loaded)'
  BY LoadedStep, PlacedStep
<1>3. Inv /\ Loaded => GlobalIsLoaded
  <2> SUFFICES ASSUME Inv, Loaded, step # "undefined", serval_dna_ctx # NULL
               PROVE  LET n == serval_dna_ctx
                      IN  /\ n \in live
                          /\ (/\ file[n] # NULL /\ ids[n] \cap disk[path[n]] # {}
                              /\ ~(step = "update" /\ req.node = n))
                             => keyring = file[n]
    BY DEF GlobalIsLoaded, Started
  <2> QED BY OwnIsLive DEF Loaded, LoadedAt, Dark
<1> QED BY <1>1, <1>2, <1>3, InitInv, InitPlaced, StepInv, PTL DEF Spec

-----------------------------------------------------------------------------
(* What the files and the open keyrings hold.  An identity belongs to one  *)
(* path (OneFile): a sign with an identity that some file has, or had, and *)
(* that is found in the memory of a keyring, is one of the file of that    *)
(* keyring.  A commit overwrites a file with the memory of its keyring,    *)
(* which has the identities clients were told of (Covers).                 *)

Safe(p, s) == s \in disk[p] \/ <<p, s>> \in lost

At(p, s) ==
    \/ Safe(p, s)
    \/ \E n \in live : path[n] = p /\ s \in ids[n]
    \/ \E c \in Clients : client[c] # NULL /\ client[c].path = p /\ s \in client[c].held

OneFile == \A p, q \in Paths, s \in Sids : At(p, s) /\ At(q, s) => p = q

Covers ==
    \A n \in live : file[n] # NULL =>
        \A s \in Sids : <<path[n], s>> \in given => s \in ids[n] \/ <<path[n], s>> \in lost

\* A sign that was given an identity was given one that is, or was, in some file;
\* one that succeeds answers with an identity of its file, and has it in memory.
Answers ==
    req.op = "sign" =>
        /\ step \in {"open", "extract"} /\ req.sid # NULL => \E q \in Paths : Safe(q, req.sid)
        /\ step = "update" => Safe(path[req.node], req.sid)
        /\ step = "close" /\ req.ok =>
              Safe(path[req.node], req.sid)
              /\ (req.sid \in ids[req.node] \/ <<path[req.node], req.sid>> \in lost)

Kept == OneFile /\ Covers /\ Answers /\ ReturnedIsSaved

\* Identities come to a path from nowhere.
LEMMA OneFileKept ==
    ASSUME OneFile, NEW P,
           \A p \in Paths, s \in Sids : At(p, s)' => At(p, s) \/ (s \in Fresh /\ p = P)
    PROVE  OneFile'
<1>1. \A s \in Fresh, p \in Paths : ~At(p, s)
  BY FreshIsNowhere DEF At, Safe
<1> QED BY <1>1 DEF OneFile

\* Nothing is opened and nothing is written.
LEMMA AtWithFewer ==
    ASSUME live' \subseteq live, UNCHANGED <<path, ids, disk, lost, client>>
    PROVE  \A p \in Paths, s \in Sids : At(p, s)' => At(p, s)
BY DEF At, Safe

\* A file is opened for a keyring, which is then the only new one.
LEMMA AtOpen ==
    ASSUME TypeOK, LiveHasPath, NEW n \in Nodes, NEW p \in Paths, NEW ok \in BOOLEAN,
           _svl_keyring_open(n, p, ok), UNCHANGED <<lost, client>>,
           live' \subseteq live \cup {n}, path'[n] = p,
           \A m \in live \ {n} : path'[m] = path[m]
    PROVE  \A q \in Paths, s \in Sids : At(q, s)' => At(q, s) \/ (s \in Fresh /\ q = p)
<1>1. \A s \in ids'[n] \cup disk'[p] : s \in disk[p] \/ s \in Fresh
  <2>1. CASE \E held \in Opened(p) :
                 ids' = [ids EXCEPT ![n] = held] /\ disk' = [disk EXCEPT ![p] = held]
    <3>1. PICK held \in Opened(p) :
                 ids' = [ids EXCEPT ![n] = held] /\ disk' = [disk EXCEPT ![p] = held]
      BY <2>1
    <3>2. \A s \in held : s \in disk[p] \/ s \in Fresh
      BY OpenedHolds
    <3> QED BY <3>1, <3>2 DEF TypeOK
  <2>2. CASE UNCHANGED disk /\ \E held \in Unseeded : ids' = [ids EXCEPT ![n] = held]
    BY <2>2 DEF Unseeded, TypeOK
  <2>3. CASE UNCHANGED disk /\ ids' = [ids EXCEPT ![n] = {}]
    BY <2>3 DEF TypeOK
  <2> QED BY <2>1, <2>2, <2>3 DEF _svl_keyring_open
<1>2. /\ \A m \in Nodes \ {n} : ids'[m] = ids[m]
      /\ \A q \in Paths \ {p} : disk'[q] = disk[q]
  BY DEF _svl_keyring_open, TypeOK
<1>3. ASSUME NEW q \in Paths, NEW s \in Sids, At(q, s)'
      PROVE  At(q, s) \/ (s \in Fresh /\ q = p)
  <2>1. CASE s \in disk'[q]
    BY <1>1, <1>2, <2>1 DEF At, Safe
  <2>2. CASE <<q, s>> \in lost
    BY <2>2 DEF At, Safe
  <2>3. CASE \E m \in live' : path'[m] = q /\ s \in ids'[m]
    <3>1. PICK m \in live' : path'[m] = q /\ s \in ids'[m]
      BY <2>3
    <3>2. CASE m = n
      BY <1>1, <3>1, <3>2 DEF At, Safe
    <3>3. CASE m # n
      BY <1>2, <3>1, <3>3 DEF At, TypeOK
    <3> QED BY <3>2, <3>3
  <2>4. CASE \E c \in Clients : client[c] # NULL /\ client[c].path = q /\ s \in client[c].held
    BY <2>4 DEF At
  <2> QED BY <1>3, <2>1, <2>2, <2>3, <2>4 DEF At, Safe
<1> QED BY <1>3

\* An identity is added to a keyring, and maybe written.
LEMMA AtIdentity ==
    ASSUME TypeOK, LiveHasPath, NEW n \in live, NEW new \in Fresh,
           UNCHANGED <<nodeVars, lost, client>>,
           ids' = [ids EXCEPT ![n] = @ \cup {new}],
           disk' = [disk EXCEPT ![path[n]] = ids'[n]] \/ UNCHANGED disk
    PROVE  \A q \in Paths, s \in Sids : At(q, s)' => At(q, s) \/ (s \in Fresh /\ q = path[n])
<1>1. n \in Nodes /\ path[n] \in Paths
  BY DEF TypeOK, LiveHasPath
<1>2. ids'[n] = ids[n] \cup {new} /\ \A m \in Nodes \ {n} : ids'[m] = ids[m]
  BY <1>1 DEF TypeOK
<1>3. /\ \A q \in Paths \ {path[n]} : disk'[q] = disk[q]
      /\ disk'[path[n]] \in {disk[path[n]], ids'[n]}
  BY <1>1 DEF TypeOK
<1>4. ASSUME NEW q \in Paths, NEW s \in Sids, At(q, s)'
      PROVE  At(q, s) \/ (s \in Fresh /\ q = path[n])
  <2>1. CASE s \in disk'[q]
    BY <1>2, <1>3, <2>1 DEF At, Safe
  <2>2. CASE <<q, s>> \in lost
    BY <2>2 DEF At, Safe
  <2>3. CASE \E m \in live : path[m] = q /\ s \in ids'[m]
    BY <1>2, <2>3 DEF At, TypeOK
  <2>4. CASE \E c \in Clients : client[c] # NULL /\ client[c].path = q /\ s \in client[c].held
    BY <2>4 DEF At
  <2> QED BY <1>4, <2>1, <2>2, <2>3, <2>4 DEF At, Safe, nodeVars
<1> QED BY <1>4

\* Another process reads a file, or writes what it has read and what is new.
LEMMA AtOthers ==
    ASSUME TypeOK, OthersStep
    PROVE  \E P : \A p \in Paths, s \in Sids : At(p, s)' => At(p, s) \/ (s \in Fresh /\ p = P)
<1>1. /\ UNCHANGED <<live, path, ids>>
      /\ client \in [Clients -> [path : Paths, held : SUBSET Sids] \cup {NULL}]
  BY OthersFacts DEF pluginVars, nodeVars, TypeOK
<1>2. ASSUME NEW c \in Clients, NEW p \in Shared, ClientOpens(c, p)
      PROVE  \A q \in Paths, s \in Sids : At(q, s)' => At(q, s)
  <2>1. /\ UNCHANGED <<disk, lost>>
        /\ client' = [client EXCEPT ![c] = [path |-> p, held |-> disk[p]]]
    BY <1>2 DEF ClientOpens
  <2>2. \A d \in Clients : client'[d] = IF d = c THEN [path |-> p, held |-> disk[p]] ELSE client[d]
    BY <1>1, <2>1
  <2> QED BY <1>1, <2>1, <2>2 DEF At, Safe
<1>3. ASSUME NEW c \in Clients, ClientQuits(c)
      PROVE  \A q \in Paths, s \in Sids : At(q, s)' => At(q, s)
  <2>1. UNCHANGED <<disk, lost>> /\ client' = [client EXCEPT ![c] = NULL]
    BY <1>3 DEF ClientQuits
  <2>2. \A d \in Clients : client'[d] = IF d = c THEN NULL ELSE client[d]
    BY <1>1, <2>1
  <2> QED BY <1>1, <2>1, <2>2 DEF At, Safe
<1>4. ASSUME NEW c \in Clients, ClientCommits(c)
      PROVE  \A q \in Paths, s \in Sids :
                At(q, s)' => At(q, s) \/ (s \in Fresh /\ q = client[c].path)
  <2>1. /\ client[c].path \in Paths /\ client[c].held \in SUBSET Sids /\ client[c] # NULL
        /\ client' = [client EXCEPT ![c] = NULL]
    BY <1>4, CommitHolds DEF ClientCommits
  <2>2. PICK new \in Unseeded : /\ new \in SUBSET Sids
                                /\ Overwrite(client[c].path, client[c].held \cup new)
    BY <1>4, CommitHolds
  <2>3. /\ disk'[client[c].path] = client[c].held \cup new
        /\ \A q \in Paths \ {client[c].path} : disk'[q] = disk[q]
        /\ lost' = lost \cup ({client[c].path}
                              \X (disk[client[c].path] \ (client[c].held \cup new)))
    BY <2>1, <2>2, OverwriteFacts
  <2>4. \A s \in new : s \in Fresh
    BY <2>2 DEF Unseeded
  <2>5. \A d \in Clients : client'[d] = IF d = c THEN NULL ELSE client[d]
    BY <1>1, <2>1
  <2>6. ASSUME NEW q \in Paths, NEW s \in Sids, At(q, s)'
        PROVE  At(q, s) \/ (s \in Fresh /\ q = client[c].path)
    <3>1. CASE s \in disk'[q]
      BY <2>1, <2>3, <2>4, <3>1 DEF At, Safe
    <3>2. CASE <<q, s>> \in lost'
      BY <2>3, <3>2 DEF At, Safe
    <3>3. CASE \E m \in live : path[m] = q /\ s \in ids[m]
      BY <3>3 DEF At
    <3>4. CASE \E d \in Clients : client'[d] # NULL /\ client'[d].path = q /\ s \in client'[d].held
      BY <2>5, <3>4 DEF At
    <3> QED BY <1>1, <2>6, <3>1, <3>2, <3>3, <3>4 DEF At, Safe
  <2> QED BY <2>6
<1>5. ASSUME NEW p \in Shared, Emptied(p)
      PROVE  \A q \in Paths, s \in Sids : At(q, s)' => At(q, s)
  <2>1. p \in Paths /\ Overwrite(p, {}) /\ client' = client
    BY <1>5, KeyringsAssumption DEF Emptied
  <2>2. /\ disk'[p] = {} /\ \A q \in Paths \ {p} : disk'[q] = disk[q]
        /\ lost' = lost \cup ({p} \X (disk[p] \ {}))
    BY <2>1, OverwriteFacts
  <2> QED BY <1>1, <2>1, <2>2 DEF At, Safe
<1> QED BY <1>2, <1>3, <1>4, <1>5 DEF OthersStep

LEMMA OneFileStep ==
    ASSUME Inv, Placed, OneFile, [Next]_vars
    PROVE  OneFile'
<1>0. TypeOK /\ LiveHasPath /\ OnePath /\ OpenIsListed /\ live \subseteq Nodes
  BY DEF Inv, Placed, TypeOK
<1>1. CASE live' \subseteq live /\ UNCHANGED <<path, ids, disk, lost, client>>
  BY <1>1, AtWithFewer, OneFileKept
<1>2. CASE serval_open_keyring
  <2>1. step = "open" /\ req.path \in Paths /\ UNCHANGED <<lost, client>>
    BY <1>0, <1>2 DEF serval_open_keyring, others, TypeOK, Request
  <2>2. CASE Undefine
    BY <1>1, <2>1, <2>2 DEF Undefine, nodeVars
  <2>3. CASE \E n \in _svl_keyring_find(req.path) : OpenShared(n)
    BY <1>1, <2>1, <2>3 DEF OpenShared
  <2>4. CASE \E n \in Nodes \ live : OpenNew(n)
    <3>1. PICK n \in Nodes \ live : OpenNew(n)
      BY <2>4
    <3>2. CASE UNCHANGED <<nodeVars, ids, disk>>
      BY <1>1, <2>1, <3>2 DEF nodeVars
    <3>3. CASE /\ _svl_keyring_open(n, req.path, TRUE)
               /\ live' = live \cup {n} /\ path' = [path EXCEPT ![n] = req.path]
      <4>1. path'[n] = req.path /\ \A m \in live \ {n} : path'[m] = path[m]
        BY <1>0, <3>1, <3>3 DEF TypeOK
      <4>2. \A q \in Paths, s \in Sids : At(q, s)' => At(q, s) \/ (s \in Fresh /\ q = req.path)
        BY <1>0, <2>1, <3>1, <3>3, <4>1, AtOpen
      <4> QED BY <4>2, OneFileKept
    <3> QED BY <3>1, <3>2, <3>3 DEF OpenNew
  <2> QED BY <1>2, <2>2, <2>3, <2>4 DEF serval_open_keyring
<1>3. CASE serval_keyring_add_identity
  <2>1. CASE Undefine
    BY <1>1, <1>3, <2>1 DEF Undefine, nodeVars, serval_keyring_add_identity, others
  <2>2. CASE ~Undefine
    <3>1. req.node \in live /\ UNCHANGED <<nodeVars, lost, client>>
      BY <1>3, <2>2, HeldIsLive DEF serval_keyring_add_identity, Inv, Running, others
    <3>2. PICK s \in Fresh :
              /\ ids' = [ids EXCEPT ![req.node] = @ \cup {s}]
              /\ disk' = [disk EXCEPT ![path[req.node]] = ids'[req.node]] \/ UNCHANGED disk
      BY <1>3, <2>2 DEF serval_keyring_add_identity
    <3>3. \A q \in Paths, x \in Sids :
              At(q, x)' => At(q, x) \/ (x \in Fresh /\ q = path[req.node])
      BY <1>0, <3>1, <3>2, AtIdentity
    <3> QED BY <3>3, OneFileKept
  <2> QED BY <2>1, <2>2
<1>4. CASE serval_extract_sas
  BY <1>1, <1>4 DEF serval_extract_sas, Undefine, nodeVars, others
<1>5. CASE serval_reload_keyring
  <2>1. /\ req.node \in live /\ req.node \in Nodes /\ path[req.node] \in Paths
        /\ UNCHANGED <<live, path, lost, client>>
    BY <1>0, <1>5, HeldIsLive DEF serval_reload_keyring, Inv, Running, LiveHasPath, others
  <2>2. CASE UNCHANGED <<ids, disk>>
    BY <1>1, <2>1, <2>2
  <2>3. CASE \E ok \in BOOLEAN : _svl_keyring_open(req.node, path[req.node], ok)
    <3>1. \A q \in Paths, s \in Sids :
              At(q, s)' => At(q, s) \/ (s \in Fresh /\ q = path[req.node])
      BY <1>0, <2>1, <2>3, AtOpen
    <3> QED BY <3>1, OneFileKept
  <2> QED BY <1>5, <2>2, <2>3 DEF serval_reload_keyring
<1>6. CASE HandlerEnds
  <2>1. UNCHANGED <<ids, disk, lost, client>>
    BY <1>6 DEF HandlerEnds, others
  <2>2. live' \subseteq live /\ path' = path
    BY <1>6 DEF HandlerEnds, svl_crypto_ctx_free, serval_close_keyring, nodeVars
  <2> QED BY <1>1, <2>1, <2>2
<1>7. CASE co_plugin_shutdown
  BY <1>1, <1>7 DEF co_plugin_shutdown, svl_crypto_ctx_free, serval_close_keyring, nodeVars, others
<1>8. CASE OthersStep
  <2>1. \E P : \A p \in Paths, s \in Sids : At(p, s)' => At(p, s) \/ (s \in Fresh /\ p = P)
    BY <1>0, <1>8, AtOthers
  <2> QED BY <2>1, OneFileKept
<1>9. CASE co_plugin_init \/ serval_daemon_handler
  BY <1>1, <1>9 DEF co_plugin_init, serval_daemon_handler, Call, nodeVars, others
<1>10. CASE \E p \in Paths, sid \in Known \cup {NULL} : cmd_serval_sign(p, sid)
  BY <1>1, <1>10 DEF cmd_serval_sign, Call, nodeVars, others
<1>11. CASE \E p \in Paths, sid \in Known : olsrd_mdp_init(p, sid)
  BY <1>1, <1>11 DEF olsrd_mdp_init, Call, nodeVars, others
<1>12. CASE UNCHANGED vars
  BY <1>1, <1>12 DEF vars, nodeVars, others
<1> QED
  BY <1>2, <1>3, <1>4, <1>5, <1>6, <1>7, <1>8, <1>9, <1>10, <1>11, <1>12 DEF Next, OthersStep

\* Only a commit of the plugin takes an identity out of a file that is not lost.
SafeGrows == \A p \in Paths : \A s : Safe(p, s) => Safe(p, s)'

LEMMA SafeStep ==
    ASSUME Inv, [Next]_vars, ~serval_keyring_add_identity \/ UNCHANGED disk
    PROVE  SafeGrows
<1>0. TypeOK /\ LiveHasPath
  BY DEF Inv
<1>1. CASE UNCHANGED <<disk, lost>>
  BY <1>1 DEF SafeGrows, Safe
<1>2. ASSUME NEW n \in Nodes, NEW p \in Paths, NEW ok \in BOOLEAN,
             _svl_keyring_open(n, p, ok), UNCHANGED lost
      PROVE  SafeGrows
  <2>1. CASE UNCHANGED disk
    BY <1>1, <1>2, <2>1
  <2>2. CASE \E held \in Opened(p) : disk' = [disk EXCEPT ![p] = held]
    <3>1. PICK held \in Opened(p) : disk' = [disk EXCEPT ![p] = held]
      BY <2>2
    <3>2. disk[p] \subseteq held
      BY OpenedHolds
    <3> QED BY <1>0, <1>2, <3>1, <3>2 DEF SafeGrows, Safe, TypeOK
  <2> QED BY <1>2, <2>1, <2>2 DEF _svl_keyring_open
<1>3. CASE serval_open_keyring
  <2>1. req.path \in Paths /\ UNCHANGED lost
    BY <1>0, <1>3 DEF serval_open_keyring, others, TypeOK, Request
  <2>2. CASE UNCHANGED disk
    BY <1>1, <2>1, <2>2
  <2>3. CASE \E n \in Nodes \ live : _svl_keyring_open(n, req.path, TRUE)
    BY <1>2, <2>1, <2>3
  <2> QED BY <1>3, <2>2, <2>3 DEF serval_open_keyring, Undefine, OpenShared, OpenNew
<1>4. CASE serval_reload_keyring
  <2>1. req.node \in Nodes /\ path[req.node] \in Paths /\ UNCHANGED lost
    BY <1>0, <1>4, HeldIsLive DEF serval_reload_keyring, Inv, Running, LiveHasPath, others
  <2>2. CASE UNCHANGED disk
    BY <1>1, <2>1, <2>2
  <2>3. CASE \E ok \in BOOLEAN : _svl_keyring_open(req.node, path[req.node], ok)
    BY <1>2, <2>1, <2>3
  <2> QED BY <1>4, <2>2, <2>3 DEF serval_reload_keyring
<1>5. CASE OthersStep
  BY <1>0, <1>5, OthersFacts DEF SafeGrows, Safe
<1>6. CASE serval_keyring_add_identity
  BY <1>1, <1>6 DEF serval_keyring_add_identity, others
<1> QED
  BY <1>1, <1>3, <1>4, <1>5, <1>6 DEF Next, OthersStep, vars, co_plugin_init, co_plugin_shutdown,
     serval_daemon_handler, Call, cmd_serval_sign, olsrd_mdp_init, serval_extract_sas, Undefine,
     HandlerEnds, others

\* A commit of the plugin keeps what clients were told of.
LEMMA CommitSaves ==
    ASSUME Inv, Covers, ReturnedIsSaved, serval_keyring_add_identity
    PROVE  ReturnedIsSaved'
<1>0. TypeOK /\ LiveHasPath /\ UNCHANGED <<given, lost, path>>
  BY DEF Inv, serval_keyring_add_identity, Undefine, others, nodeVars
<1>1. CASE UNCHANGED disk
  BY <1>0, <1>1 DEF ReturnedIsSaved
<1>2. CASE ~UNCHANGED disk
  <2>1. /\ file[req.node] # NULL /\ step = "identity"
        /\ disk' = [disk EXCEPT ![path[req.node]] = ids'[req.node]]
    BY <1>2 DEF serval_keyring_add_identity, Undefine
  <2>2. req.node \in live /\ req.node \in Nodes /\ path[req.node] \in Paths
    BY <1>0, <2>1, HeldIsLive DEF Inv, Running, LiveHasPath
  <2>3. ids[req.node] \subseteq ids'[req.node]
    BY <1>0, <1>2, <2>2 DEF serval_keyring_add_identity, Undefine, TypeOK
  <2>4. ASSUME NEW g \in given PROVE g[2] \in disk'[g[1]] \/ g \in lost
    <3>1. g \in Paths \X Sids /\ g = <<g[1], g[2]>> /\ g[1] \in Paths /\ g[2] \in Sids
      BY <1>0, <2>4 DEF TypeOK
    <3>2. CASE g[1] = path[req.node]
      <4>1. g[2] \in ids[req.node] \/ g \in lost
        BY <2>1, <2>2, <3>1, <3>2 DEF Covers
      <4> QED BY <1>0, <2>1, <2>2, <2>3, <3>2, <4>1 DEF TypeOK
    <3>3. CASE g[1] # path[req.node]
      BY <1>0, <2>1, <3>1, <3>3 DEF ReturnedIsSaved, TypeOK
    <3> QED BY <3>2, <3>3
  <2> QED BY <1>0, <2>4 DEF ReturnedIsSaved
<1> QED BY <1>1, <1>2

LEMMA SavedStep ==
    ASSUME Inv, Covers, Answers, ReturnedIsSaved, [Next]_vars
    PROVE  ReturnedIsSaved'
<1>0. given \subseteq Paths \X Sids
  BY DEF Inv, TypeOK
<1>1. CASE serval_keyring_add_identity
  BY <1>1, CommitSaves
<1>2. CASE ~serval_keyring_add_identity
  <2>1. SafeGrows
    BY <1>2, SafeStep
  <2>2. \A g \in given : g[2] \in disk'[g[1]] \/ g \in lost'
    <3> SUFFICES ASSUME NEW g \in given PROVE g[2] \in disk'[g[1]] \/ g \in lost'
      OBVIOUS
    <3>1. g = <<g[1], g[2]>> /\ g[1] \in Paths
      BY <1>0
    <3>2. Safe(g[1], g[2])
      BY <3>1 DEF ReturnedIsSaved, Safe
    <3> QED BY <2>1, <3>1, <3>2 DEF SafeGrows, Safe
  <2>3. CASE given' = given
    BY <2>2, <2>3 DEF ReturnedIsSaved
  <2>4. CASE HandlerEnds /\ req.op = "sign" /\ req.ok
    <3>1. /\ step = "close" /\ given' = given \cup {<<path[req.node], req.sid>>}
          /\ UNCHANGED <<disk, lost>>
      BY <2>4 DEF HandlerEnds, others
    <3>2. Safe(path[req.node], req.sid)
      BY <2>4, <3>1 DEF Answers
    <3> QED BY <2>2, <3>1, <3>2 DEF ReturnedIsSaved, Safe
  <2>5. CASE OthersStep
    BY <2>3, <2>5, OthersFacts DEF Inv, pluginVars
  <2> QED
    BY <1>2, <2>3, <2>4, <2>5 DEF Next, OthersStep, vars, co_plugin_init, co_plugin_shutdown,
       serval_daemon_handler, Call, cmd_serval_sign, olsrd_mdp_init, serval_open_keyring, Undefine,
       serval_extract_sas, serval_reload_keyring, HandlerEnds
<1> QED BY <1>1, <1>2

\* A file that is opened has what clients were told is in it.
LEMMA OpenedCovers ==
    ASSUME TypeOK, ReturnedIsSaved, NEW n \in Nodes, NEW p \in Paths, NEW ok \in BOOLEAN,
           _svl_keyring_open(n, p, ok)
    PROVE  /\ ok => /\ disk[p] \subseteq ids'[n]
                    /\ disk'[p] = ids'[n]
           /\ file'[n] # NULL =>
                 \A s \in Sids : <<p, s>> \in given => s \in ids'[n] \/ <<p, s>> \in lost
           /\ \A m \in Nodes \ {n} : file'[m] = file[m] /\ ids'[m] = ids[m]
<1>1. CASE ok
  <2>1. PICK held \in Opened(p) :
               ids' = [ids EXCEPT ![n] = held] /\ disk' = [disk EXCEPT ![p] = held]
    BY <1>1 DEF _svl_keyring_open
  <2>2. disk[p] \subseteq held
    BY OpenedHolds
  <2>3. ids'[n] = held /\ disk'[p] = held
    BY <2>1 DEF TypeOK
  <2>4. \A s \in Sids : <<p, s>> \in given => s \in ids'[n] \/ <<p, s>> \in lost
    BY <2>2, <2>3 DEF ReturnedIsSaved
  <2> QED BY <2>2, <2>3, <2>4 DEF _svl_keyring_open, TypeOK
<1>2. CASE ~ok
  <2>1. /\ \E f : file' = [file EXCEPT ![n] = f] /\ (f = NULL \/ disk[p] = {})
        /\ \E held : ids' = [ids EXCEPT ![n] = held]
    BY <1>2 DEF _svl_keyring_open
  <2>2. \A m \in Nodes \ {n} : file'[m] = file[m] /\ ids'[m] = ids[m]
    BY <2>1 DEF TypeOK
  <2>3. disk[p] = {} => \A s \in Sids : <<p, s>> \in given => <<p, s>> \in lost
    BY DEF ReturnedIsSaved
  <2> QED BY <1>2, <2>1, <2>2, <2>3 DEF TypeOK
<1> QED BY <1>1, <1>2

\* Nothing but what is read again leaves the memory of a keyring.
LEMMA CoversKept ==
    ASSUME TypeOK, Covers, live' \subseteq live, lost \subseteq lost', UNCHANGED <<path, given>>,
           \A m \in live' : file'[m] \in {file[m], NULL} /\ ids[m] \subseteq ids'[m]
    PROVE  Covers'
BY DEF Covers

LEMMA CoversStep ==
    ASSUME Inv, Placed, Covers, Answers, ReturnedIsSaved, [Next]_vars
    PROVE  Covers'
<1>0. TypeOK /\ LiveHasPath /\ OnePath /\ live \subseteq Nodes
  BY DEF Inv, Placed, TypeOK
<1>1. CASE UNCHANGED <<live, path, given, file, ids, lost>>
  BY <1>0, <1>1, CoversKept
<1>2. CASE serval_open_keyring
  <2>1. req.path \in Paths /\ UNCHANGED <<lost, given>>
    BY <1>0, <1>2 DEF serval_open_keyring, others, TypeOK, Request
  <2>2. CASE UNCHANGED <<live, path, file, ids>>
    BY <1>1, <2>1, <2>2
  <2>3. CASE \E n \in Nodes \ live : OpenNew(n)
    <3>1. PICK n \in Nodes \ live : OpenNew(n)
      BY <2>3
    <3>2. CASE UNCHANGED <<nodeVars, ids, disk>>
      BY <2>2, <3>2 DEF nodeVars
    <3>3. CASE /\ _svl_keyring_open(n, req.path, TRUE)
               /\ live' = live \cup {n} /\ path' = [path EXCEPT ![n] = req.path]
      <4>1. path'[n] = req.path /\ \A m \in live : path'[m] = path[m] /\ m \in Nodes \ {n}
        BY <1>0, <3>1, <3>3 DEF TypeOK
      <4>2. /\ file'[n] # NULL =>
                  \A s \in Sids :
                      <<req.path, s>> \in given => s \in ids'[n] \/ <<req.path, s>> \in lost
            /\ \A m \in Nodes \ {n} : file'[m] = file[m] /\ ids'[m] = ids[m]
        BY <1>0, <2>1, <3>1, <3>3, OpenedCovers
      <4>3. ASSUME NEW m \in live', file'[m] # NULL, NEW s \in Sids, <<path'[m], s>> \in given
            PROVE  s \in ids'[m] \/ <<path'[m], s>> \in lost
        <5>1. CASE m = n
          BY <4>1, <4>2, <4>3, <5>1
        <5>2. CASE m # n
          BY <3>3, <4>1, <4>2, <4>3, <5>2 DEF Covers
        <5> QED BY <5>1, <5>2
      <4> QED BY <2>1, <4>3 DEF Covers
    <3> QED BY <3>1, <3>2, <3>3 DEF OpenNew
  <2> QED BY <1>2, <2>2, <2>3 DEF serval_open_keyring, Undefine, OpenShared, nodeVars
<1>3. CASE serval_keyring_add_identity
  <2>1. UNCHANGED <<live, path, given, file, lost>>
    BY <1>3 DEF serval_keyring_add_identity, Undefine, nodeVars, others
  <2>2. ids' = ids \/ \E x : ids' = [ids EXCEPT ![req.node] = @ \cup {x}]
    BY <1>3 DEF serval_keyring_add_identity, Undefine
  <2>3. ASSUME NEW m \in live PROVE ids[m] \subseteq ids'[m] /\ file'[m] = file[m]
    <3>1. m \in Nodes /\ ids \in [Nodes -> SUBSET Sids]
      BY <1>0 DEF TypeOK
    <3>2. CASE m = req.node
      BY <2>1, <2>2, <3>1, <3>2
    <3>3. CASE m # req.node
      BY <2>1, <2>2, <3>1, <3>3
    <3> QED BY <3>2, <3>3
  <2> QED BY <1>0, <2>1, <2>3, CoversKept
<1>4. CASE serval_reload_keyring
  <2>1. /\ req.node \in Nodes /\ path[req.node] \in Paths
        /\ UNCHANGED <<live, path, lost, given>>
    BY <1>0, <1>4, HeldIsLive DEF serval_reload_keyring, Inv, Running, LiveHasPath, others
  <2>2. CASE UNCHANGED <<file, ids>>
    BY <1>1, <2>1, <2>2
  <2>3. CASE \E ok \in BOOLEAN : _svl_keyring_open(req.node, path[req.node], ok)
    <3>1. /\ file'[req.node] # NULL =>
                \A s \in Sids : <<path[req.node], s>> \in given =>
                    s \in ids'[req.node] \/ <<path[req.node], s>> \in lost
          /\ \A m \in Nodes \ {req.node} : file'[m] = file[m] /\ ids'[m] = ids[m]
      BY <1>0, <2>1, <2>3, OpenedCovers
    <3> QED BY <1>0, <2>1, <3>1 DEF Covers
  <2> QED BY <1>4, <2>2, <2>3 DEF serval_reload_keyring
<1>5. CASE HandlerEnds
  <2>1. step = "close" /\ UNCHANGED <<ids, lost>>
    BY <1>5 DEF HandlerEnds, others
  <2>2. live' \subseteq live /\ path' = path /\ \A m \in live' : file'[m] = file[m]
    <3>1. CASE UNCHANGED nodeVars
      BY <3>1 DEF nodeVars
    <3>2. CASE req.node # NULL /\ serval_close_keyring(req.node)
      <4>1. req.node \in Nodes
        BY <1>0, <3>2 DEF TypeOK, Request
      <4> QED BY <1>0, <3>2, <4>1, ClosePlaces DEF Placed
    <3> QED BY <1>5, <3>1, <3>2 DEF HandlerEnds, svl_crypto_ctx_free
  <2>3. CASE given' = given
    BY <1>0, <2>1, <2>2, <2>3, CoversKept
  <2>4. CASE req.op = "sign" /\ req.ok /\ given' = given \cup {<<path[req.node], req.sid>>}
    <3>1. /\ req.sid \in ids[req.node] \/ <<path[req.node], req.sid>> \in lost
          /\ req.node \in live
      BY <2>1, <2>4, HeldIsLive DEF Answers, Inv, Running
    <3>2. ASSUME NEW m \in live', file'[m] # NULL, NEW s \in Sids, <<path[m], s>> \in given'
          PROVE  s \in ids[m] \/ <<path[m], s>> \in lost
      <4>1. CASE <<path[m], s>> \in given
        BY <2>2, <3>2, <4>1 DEF Covers
      <4>2. CASE path[m] = path[req.node] /\ s = req.sid
        <5>1. m = req.node
          BY <1>0, <2>2, <3>1, <4>2, PathsApart
        <5> QED BY <3>1, <4>2, <5>1
      <4> QED BY <2>4, <3>2, <4>1, <4>2
    <3> QED BY <2>1, <2>2, <3>2 DEF Covers
  <2> QED BY <1>5, <2>3, <2>4 DEF HandlerEnds
<1>6. CASE co_plugin_shutdown
  <2>1. /\ serval_dna_ctx \in Nodes /\ serval_close_keyring(serval_dna_ctx)
        /\ UNCHANGED <<ids, lost, given>>
    BY <1>0, <1>6 DEF co_plugin_shutdown, Started, svl_crypto_ctx_free, TypeOK, others
  <2>2. live' \subseteq live /\ path' = path /\ \A m \in live' : file'[m] = file[m]
    BY <1>0, <2>1, ClosePlaces DEF Placed
  <2> QED BY <1>0, <2>1, <2>2, CoversKept
<1>7. CASE OthersStep
  BY <1>0, <1>7, OthersFacts, CoversKept DEF pluginVars, nodeVars
<1>8. CASE \/ co_plugin_init \/ serval_daemon_handler \/ serval_extract_sas
           \/ \E p \in Paths, sid \in Known \cup {NULL} : cmd_serval_sign(p, sid)
           \/ \E p \in Paths, sid \in Known : olsrd_mdp_init(p, sid)
           \/ UNCHANGED vars
  BY <1>1, <1>8 DEF co_plugin_init, serval_daemon_handler, serval_extract_sas, Undefine,
     cmd_serval_sign, olsrd_mdp_init, Call, nodeVars, others, vars
<1> QED BY <1>2, <1>3, <1>4, <1>5, <1>6, <1>7, <1>8 DEF Next, OthersStep

\* An identity a client can know of is, or was, in some file.
LEMMA KnownIsSafe ==
    ASSUME TypeOK, ReturnedIsSaved, NEW s \in Known
    PROVE  \E q \in Paths : Safe(q, s)
<1>1. CASE \E p \in Paths : s \in disk[p]
  BY <1>1 DEF Safe
<1>2. CASE \E l \in lost : s = l[2]
  <2>1. PICK l \in lost : s = l[2]
    BY <1>2
  <2>2. l = <<l[1], s>> /\ l[1] \in Paths
    BY <2>1 DEF TypeOK
  <2> QED BY <2>1, <2>2 DEF Safe
<1>3. CASE \E g \in given : s = g[2]
  <2>1. PICK g \in given : s = g[2]
    BY <1>3
  <2>2. g = <<g[1], s>> /\ g[1] \in Paths
    BY <2>1 DEF TypeOK
  <2>3. Safe(g[1], s)
    BY <2>1, <2>2 DEF ReturnedIsSaved, Safe
  <2> QED BY <2>2, <2>3
<1> QED BY <1>1, <1>2, <1>3 DEF Known

LEMMA AnswersStep ==
    ASSUME Inv, OneFile, Answers, ReturnedIsSaved, [Next]_vars
    PROVE  Answers'
<1>0. TypeOK /\ LiveHasPath /\ live \subseteq Nodes
  BY DEF Inv, TypeOK
<1>1. CASE step' \in {"idle", "down", "undefined"}
  BY <1>1 DEF Answers
<1>2. ASSUME NEW op, NEW p, NEW sid, NEW node, NEW first, Call(op, p, sid, node, first),
             op = "sign" => first = "open" /\ sid \in Known \cup {NULL}
      PROVE  Answers'
  <2>1. /\ step' = first /\ req'.op = op /\ req'.sid = sid
        /\ UNCHANGED <<disk, lost>>
    BY <1>2 DEF Call, others
  <2>2. op = "sign" /\ sid # NULL => \E q \in Paths : Safe(q, sid)
    BY <1>0, <1>2, KnownIsSafe
  <2> QED BY <1>2, <2>1, <2>2 DEF Answers, Safe
<1>3. CASE serval_open_keyring /\ step' # "undefined"
  <2>1. /\ step = "open" /\ req \in Request /\ lost' = lost
        /\ step' \in {"identity", "extract", "close"}
        /\ req'.op = req.op /\ req'.sid = req.sid
        /\ step' = "extract" => req.sid # NULL
        /\ step' = "close" => req.op = "init" \/ ~req'.ok
    <3>1. step = "open" /\ req \in Request /\ lost' = lost /\ ~Undefine
      BY <1>0, <1>3 DEF serval_open_keyring, TypeOK, others, Undefine
    <3>2. \/ \E n \in Nodes : UseKeyring(n)
          \/ Fail
      BY <1>0, <1>3, <3>1, FoundIsListed DEF serval_open_keyring, OpenShared, OpenNew
    <3>3. ASSUME NEW n \in Nodes, UseKeyring(n)
          PROVE  /\ step' \in {"identity", "extract", "close"}
                 /\ req'.op = req.op /\ req'.sid = req.sid
                 /\ step' = "extract" => req.sid # NULL
                 /\ step' = "close" => req.op = "init"
      BY <3>1, <3>3 DEF UseKeyring, AfterOpen, Request
    <3>4. CASE Fail
      BY <3>1, <3>4 DEF Fail, Inv, Running
    <3> QED BY <3>1, <3>2, <3>3, <3>4
  <2>2. SafeGrows
    BY <1>3, SafeStep DEF serval_open_keyring, serval_keyring_add_identity
  <2>3. step' = "extract" /\ req.op = "sign" =>
            \E q \in Paths : req.sid \in disk'[q] \/ <<q, req.sid>> \in lost'
    <3> SUFFICES ASSUME step' = "extract", req.op = "sign"
                 PROVE  \E q \in Paths : req.sid \in disk'[q] \/ <<q, req.sid>> \in lost'
      OBVIOUS
    <3>1. PICK q \in Paths : Safe(q, req.sid)
      BY <2>1 DEF Answers
    <3> QED BY <2>2, <3>1 DEF SafeGrows, Safe
  <2> QED BY <2>1, <2>3 DEF Answers, Safe
<1>4. CASE serval_keyring_add_identity /\ step' # "undefined"
  <2>1. PICK s \in Fresh :
            /\ ids' = [ids EXCEPT ![req.node] = @ \cup {s}]
            /\ \/ /\ step' = "update" /\ req' = [req EXCEPT !.sid = s]
                  /\ disk' = [disk EXCEPT ![path[req.node]] = ids'[req.node]]
               \/ Fail
    BY <1>4 DEF serval_keyring_add_identity, Undefine
  <2>2. /\ req.node \in live /\ req.node \in Nodes /\ path[req.node] \in Paths
        /\ path' = path /\ ~req.ok
    BY <1>0, <1>4, HeldIsLive DEF serval_keyring_add_identity, Undefine, nodeVars, Inv, Running,
       LiveHasPath
  <2>3. CASE Fail
    BY <2>2, <2>3 DEF Fail, Answers
  <2>4. CASE /\ step' = "update" /\ req' = [req EXCEPT !.sid = s]
             /\ disk' = [disk EXCEPT ![path[req.node]] = ids'[req.node]]
    <3>1. s \in ids'[req.node] /\ req'.sid = s /\ req'.node = req.node
      BY <1>0, <2>1, <2>2, <2>4 DEF TypeOK, Request
    <3>2. s \in disk'[path[req.node]]
      BY <1>0, <2>2, <2>4, <3>1 DEF TypeOK
    <3> QED BY <2>2, <2>4, <3>1, <3>2 DEF Answers, Safe
  <2> QED BY <2>1, <2>3, <2>4
<1>5. CASE serval_extract_sas /\ step' # "undefined"
  <2>1. /\ UNCHANGED <<nodeVars, ids, disk, lost>> /\ step = "extract" /\ step' = "close"
        /\ req'.op = req.op /\ req'.sid = req.sid /\ req'.node = req.node
        /\ req'.ok => req.sid \in ids[req.node]
    <3>1. /\ UNCHANGED <<nodeVars, ids, disk, lost>> /\ step = "extract" /\ ~req.ok
          /\ Succeed \/ Fail
          /\ req.sid \in ids[req.node] \/ Fail
      <4>1. step = "extract" /\ ~req.ok /\ lost' = lost
        BY <1>5 DEF serval_extract_sas, others, Inv, Running
      <4>2. /\ UNCHANGED <<nodeVars, ids, disk>>
            /\ IF req.sid \in ids[req.node] THEN Succeed ELSE Fail
        BY <1>5 DEF serval_extract_sas, Undefine
      <4> QED BY <4>1, <4>2
    <3> QED BY <1>0, <3>1, CallEnds
  <2>2. req.node \in live /\ req.sid \in Sids /\ path[req.node] \in Paths
    BY <1>0, <2>1, HeldIsLive DEF Inv, Running, LiveHasPath
  <2>3. CASE req.op = "sign" /\ req.sid \in ids[req.node]
    <3>1. PICK q \in Paths : Safe(q, req.sid)
      BY <2>1, <2>2, <2>3 DEF Answers
    <3>2. At(q, req.sid) /\ At(path[req.node], req.sid)
      BY <2>2, <2>3, <3>1 DEF At
    <3>3. Safe(path[req.node], req.sid)
      BY <2>2, <3>1, <3>2 DEF OneFile
    <3> QED BY <2>1, <2>3, <3>3 DEF Answers, Safe, nodeVars
  <2>4. CASE ~(req.op = "sign" /\ req.sid \in ids[req.node])
    BY <2>1, <2>4 DEF Answers
  <2> QED BY <2>3, <2>4
<1>6. CASE serval_reload_keyring
  <2>1. /\ step = "update" /\ req.node \in Nodes /\ req.node \in live /\ path[req.node] \in Paths
        /\ ~req.ok /\ UNCHANGED <<path, lost>>
    BY <1>0, <1>6, HeldIsLive DEF serval_reload_keyring, Inv, Running, LiveHasPath, others
  <2>2. CASE Fail
    BY <2>1, <2>2 DEF Fail, Answers
  <2>3. CASE ~Fail
    <3>1. Succeed /\ _svl_keyring_open(req.node, path[req.node], TRUE)
      BY <1>6, <2>3 DEF serval_reload_keyring
    <3>2. /\ disk[path[req.node]] \subseteq ids'[req.node]
          /\ disk'[path[req.node]] = ids'[req.node]
      BY <1>0, <2>1, <3>1, OpenedCovers
    <3>3. step' = "close" /\ req'.op = req.op /\ req'.node = req.node /\ req'.sid = req.sid
      BY <1>0, <3>1, CallEnds
    <3>4. req.op = "sign" => /\ req.sid \in disk'[path[req.node]] \/ <<path[req.node], req.sid>> \in lost
                             /\ req.sid \in ids'[req.node] \/ <<path[req.node], req.sid>> \in lost
      BY <2>1, <3>2 DEF Answers, Safe
    <3> QED BY <2>1, <3>3, <3>4 DEF Answers, Safe
  <2> QED BY <2>2, <2>3
<1>7. CASE OthersStep
  <2>1. UNCHANGED pluginVars /\ lost \subseteq lost'
    BY <1>0, <1>7, OthersFacts
  <2>2. SafeGrows
    BY <1>0, <1>7, OthersFacts DEF SafeGrows, Safe
  <2>3. ASSUME req.op = "sign" PROVE Answers'
    <3>1. CASE step \in {"open", "extract"} /\ req.sid # NULL
      <4>1. PICK q \in Paths : Safe(q, req.sid)
        BY <2>3, <3>1 DEF Answers
      <4>2. req.sid \in disk'[q] \/ <<q, req.sid>> \in lost'
        BY <2>2, <4>1 DEF SafeGrows, Safe
      <4> QED BY <2>1, <3>1, <4>2 DEF Answers, Safe, pluginVars
    <3>2. CASE step = "update" \/ (step = "close" /\ req.ok)
      <4>1. path[req.node] \in Paths
        BY <1>0, <3>2, HeldIsLive DEF Inv, Running, LiveHasPath
      <4>2. Safe(path[req.node], req.sid)
        BY <2>3, <3>2 DEF Answers
      <4>3. req.sid \in disk'[path[req.node]] \/ <<path[req.node], req.sid>> \in lost'
        BY <2>2, <4>1, <4>2 DEF SafeGrows, Safe
      <4> QED BY <2>1, <2>3, <3>2, <4>3 DEF Answers, Safe, pluginVars, nodeVars
    <3> QED BY <2>1, <3>1, <3>2 DEF Answers, pluginVars
  <2>4. CASE req.op # "sign"
    BY <2>1, <2>4 DEF Answers, pluginVars
  <2> QED BY <2>3, <2>4
<1>8. CASE UNCHANGED vars
  BY <1>8 DEF vars, nodeVars, others, Answers, Safe
<1>9. CASE HandlerEnds \/ co_plugin_shutdown
  BY <1>1, <1>9 DEF HandlerEnds, co_plugin_shutdown
<1>10. CASE co_plugin_init
  <2>1. Call("init", Default, NULL, NULL, "open")
    BY <1>10 DEF co_plugin_init
  <2> QED BY <1>2, <2>1
<1>11. CASE serval_daemon_handler
  <2>1. Call("reload", Default, NULL, serval_dna_ctx, "update")
    BY <1>11 DEF serval_daemon_handler
  <2> QED BY <1>2, <2>1
<1>12. CASE \E p \in Paths, sid \in Known \cup {NULL} : cmd_serval_sign(p, sid)
  <2>1. PICK p \in Paths, sid \in Known \cup {NULL} : Call("sign", p, sid, NULL, "open")
    BY <1>12 DEF cmd_serval_sign
  <2> QED BY <1>2, <2>1
<1>13. CASE \E p \in Paths, sid \in Known : olsrd_mdp_init(p, sid)
  <2>1. PICK p \in Paths, sid \in Known : Call("mdp-init", p, sid, NULL, "open")
    BY <1>13 DEF olsrd_mdp_init
  <2> QED BY <1>2, <2>1
<1> QED
  BY <1>1, <1>3, <1>4, <1>5, <1>6, <1>7, <1>8, <1>9, <1>10, <1>11, <1>12, <1>13
     DEF Next, OthersStep

\* An identity a client was told of stays in the file of its keyring, whatever
\* fails, whichever handlers share the keyring, and whatever other processes write
\* into the file, until one of those processes takes it out of the file.
THEOREM AnswersAreSaved == Spec => []ReturnedIsSaved
<1>1. Init => Kept
  <2> SUFFICES ASSUME Init PROVE Kept
    OBVIOUS
  <2>1. \A p \in Paths, s \in Sids : ~At(p, s)
    BY DEF Init, At, Safe
  <2> QED BY <2>1 DEF Init, Kept, OneFile, Covers, Answers, NoRequest, ReturnedIsSaved
<1>2. Inv /\ Placed /\ Kept /\ [Next]_vars => Placed' /\ Kept'
  BY PlacedStep, OneFileStep, CoversStep, AnswersStep, SavedStep DEF Kept
<1>3. Kept => ReturnedIsSaved
  BY DEF Kept
<1> QED BY <1>1, <1>2, <1>3, InitInv, InitPlaced, StepInv, PTL DEF Spec

-----------------------------------------------------------------------------
(* The alarms.                                                             *)

HIDE KeyringsAssumption

\* The operators of the library, as Alarms and as the lemmas name them.
LEMMA AlarmsLibrary ==
    /\ \A s : A!ToSet(s) = ToSet(s) /\ A!IsInjective(s) = IsInjective(s)
    /\ \A s, e : A!Contains(s, e) = Contains(s, e) /\ A!RemoveFirst(s, e) = RemoveFirst(s, e)
<1>1. \A s : A!ToSet(s) = ToSet(s) /\ A!IsInjective(s) = IsInjective(s)
  BY DEF A!ToSet, ToSet, A!IsInjective, IsInjective
<1>2. \A s, e : A!RemoveFirst(s, e) = RemoveFirst(s, e)
  BY DEF A!RemoveFirst, RemoveFirst, A!SelectInSeq, SelectInSeq, A!RemoveAt, RemoveAt, A!Min, Min
<1>3. \A s, e : A!Contains(s, e) = Contains(s, e)
  BY DEF A!Contains, Contains
<1> QED BY <1>1, <1>2, <1>3

USE AlarmsLibrary

\* A socket's callback runs for the first of the events.
ForAnEvent == phase = "socket_cb" => events # <<>>

Base == A!TypeOK /\ A!TimersMatch /\ IsInjective(sock_alarms) /\ ForAnEvent

\* What co_list_parse finds in a list is in it.
LEMMA ContainsMeans ==
    ASSUME NEW S, NEW s \in Seq(S), NEW e
    PROVE  Contains(s, e) <=> e \in ToSet(s)
BY ToSetMeans DEF Contains

-----------------------------------------------------------------------------
(* Types and timers.                                                       *)

LEMMA InitBase == ASSUME A!AlarmsAssumption PROVE A!Init => Base
<1> SUFFICES ASSUME A!Init PROVE Base
  OBVIOUS
<1>1. A!TypeOK
  BY DEF A!AlarmsAssumption, A!Init, A!TypeOK
<1>2. ToSet(<<>>) = {} /\ IsInjective(<<>>)
  BY DEF ToSet, IsInjective
<1>3. A!TimersMatch /\ IsInjective(sock_alarms) /\ ForAnEvent
  BY <1>2 DEF A!Init, A!TimersMatch, ForAnEvent
<1> QED BY <1>1, <1>3 DEF Base

\* A timer is added for an alarm that has none, in the step that lists it.
LEMMA ScheduleBase ==
    ASSUME Base, NEW a \in Alarms, NEW time \in Times \cup {Never}, NEW later \in Instants,
           A!_schedule(a, time, later)
    PROVE  Base'
<1> DEFINE timer == [alarm |-> a, time |-> time]
<1>1. A!TypeOK /\ A!TimersMatch /\ IsInjective(sock_alarms)
  BY DEF Base
<1>2. UNCHANGED <<A!sockVars, events, phase>> /\ clock' \in Instants
  BY DEF A!_schedule
<1>3. CASE UNCHANGED <<timers, timer_alarms>>
  BY <1>1, <1>2, <1>3 DEF Base, ForAnEvent, A!TypeOK, A!TimersMatch, A!sockVars
<1>4. CASE ~UNCHANGED <<timers, timer_alarms>>
  <2>1. A!ScheduleCheck(a, time) = "ok" /\ A!co_loop_add_timer(a, time, later)
    BY <1>4 DEF A!_schedule
  <2>2. /\ timers' = timers \cup {timer} /\ timer_alarms' = Append(timer_alarms, a)
    BY <2>1 DEF A!_schedule
  <2>3. time \in Times /\ ~Contains(timer_alarms, a)
    BY <2>1 DEF A!ScheduleCheck
  <2>4. timer_alarms \in Seq(Alarms) /\ IsInjective(timer_alarms)
    BY <1>1 DEF A!TypeOK, A!TimersMatch
  <2>5. a \notin ToSet(timer_alarms)
    BY <2>3, <2>4, ContainsMeans
  <2>6. /\ timer_alarms' \in Seq(Alarms) /\ IsInjective(timer_alarms')
        /\ ToSet(timer_alarms') = ToSet(timer_alarms) \cup {a}
    BY <2>2, <2>4, <2>5, AppendFacts
  <2>7. \A t \in timers : t.alarm # a
    BY <2>1 DEF A!co_loop_add_timer
  <2>8. A!TimersMatch'
    <3>1. \A t1, t2 \in timers' : t1.alarm = t2.alarm => t1 = t2
      BY <1>1, <2>2, <2>7 DEF A!TimersMatch
    <3>2. {t.alarm : t \in timers'} = {t.alarm : t \in timers} \cup {a}
      <4>1. timer.alarm = a
        OBVIOUS
      <4> HIDE DEF timer
      <4> QED BY <2>2, <4>1
    <3> QED BY <1>1, <2>6, <3>1, <3>2 DEF A!TimersMatch
  <2>9. A!TypeOK'
    BY <1>1, <1>2, <2>2, <2>3, <2>6 DEF A!TypeOK, A!sockVars, A!Timer
  <2> QED BY <1>1, <1>2, <2>8, <2>9 DEF Base, ForAnEvent, A!sockVars
<1> QED BY <1>3, <1>4

\* The timers of an alarm that is listed leave together with it.
LEMMA ForgetTimers ==
    ASSUME Base, NEW a \in ToSet(timer_alarms),
           timer_alarms' = RemoveFirst(timer_alarms, a),
           timers' = {t \in timers : t.alarm # a}
    PROVE  A!TimersMatch' /\ timer_alarms' \in Seq(Alarms) /\ timers' \subseteq A!Timer
<1>1. timer_alarms \in Seq(Alarms) /\ timers \subseteq A!Timer /\ A!TimersMatch
  BY DEF Base, A!TypeOK
<1>2. /\ timer_alarms' \in Seq(Alarms) /\ IsInjective(timer_alarms')
      /\ ToSet(timer_alarms') = ToSet(timer_alarms) \ {a}
  BY <1>1, RemoveFirstFacts DEF A!TimersMatch
<1> QED BY <1>1, <1>2 DEF A!TimersMatch

LEMMA UnscheduleBase ==
    ASSUME Base, NEW a \in Alarms, A!_unschedule(a)
    PROVE  Base'
<1>1. A!TypeOK /\ A!TimersMatch /\ timer_alarms \in Seq(Alarms)
  BY DEF Base, A!TypeOK
<1>2. UNCHANGED <<clock, A!sockVars, events, phase>>
  BY DEF A!_unschedule
<1>3. A!TimersMatch' /\ timer_alarms' \in Seq(Alarms) /\ timers' \subseteq A!Timer
  <2>1. CASE Contains(timer_alarms, a)
    BY <1>1, <2>1, ContainsMeans, ForgetTimers DEF A!_unschedule
  <2>2. CASE ~Contains(timer_alarms, a)
    BY <1>1, <2>2 DEF A!_unschedule, RemoveFirst, Contains, A!TimersMatch, A!TypeOK
  <2> QED BY <2>1, <2>2
<1> QED BY <1>1, <1>2, <1>3 DEF Base, ForAnEvent, A!TypeOK, A!sockVars

\* The timer that fires is the only one of its alarm, which is listed.
LEMMA FireBase ==
    ASSUME Base, A!FireTimer
    PROVE  Base'
<1>1. A!TypeOK /\ A!TimersMatch /\ timer_alarms \in Seq(Alarms)
  BY DEF Base, A!TypeOK
<1>2. UNCHANGED <<clock, A!sockVars, events>>
  BY DEF A!FireTimer
<1>3. PICK timer \in timers : A!serval_timer_cb(timer)
  BY DEF A!FireTimer
<1>4. timer.alarm \in ToSet(timer_alarms)
  BY <1>1, <1>3 DEF A!TimersMatch
<1>5. Contains(timer_alarms, timer.alarm)
  BY <1>1, <1>4, ContainsMeans
<1>6. timer_alarms' = RemoveFirst(timer_alarms, timer.alarm) /\ phase' = "timer_cb"
  BY <1>3, <1>5 DEF A!serval_timer_cb
<1>7. timers' = {t \in timers : t.alarm # timer.alarm}
  BY <1>1, <1>3 DEF A!serval_timer_cb, A!TimersMatch
<1>8. A!TimersMatch' /\ timer_alarms' \in Seq(Alarms) /\ timers' \subseteq A!Timer
  BY <1>4, <1>6, <1>7, ForgetTimers
<1> QED BY <1>1, <1>2, <1>6, <1>8 DEF Base, ForAnEvent, A!TypeOK, A!sockVars

LEMMA DestroyBase ==
    ASSUME A!AlarmsAssumption, Base, A!co_loop_destroy
    PROVE  Base'
<1>1. A!TypeOK'
  BY DEF Base, A!TypeOK, A!co_loop_destroy
<1>2. A!TimersMatch' /\ IsInjective(sock_alarms') /\ ForAnEvent'
  <2>1. ToSet(<<>>) = {} /\ IsInjective(<<>>)
    BY DEF ToSet, IsInjective
  <2> QED BY <2>1 DEF A!co_loop_destroy, A!TimersMatch, ForAnEvent, Base
<1> QED BY <1>1, <1>2 DEF Base

-----------------------------------------------------------------------------
(* The steps that leave the timers alone.                                  *)

\* A step that changes only the loop's events.
LEMMA EventsBase ==
    ASSUME A!AlarmsAssumption, Base,
           A!EpollWait \/ A!DispatchEnds \/ A!SocketCbReturns \/ A!CallbackReturns
    PROVE  Base'
<1>1. UNCHANGED <<A!timeVars, A!sockVars>>
  BY DEF A!EpollWait, A!DispatchEnds, A!SocketCbReturns, A!CallbackReturns
<1>2. events' \in Seq(A!Event) /\ Len(events') <= MaxEvents
  <2>1. CASE A!EpollWait
    <3>1. PICK n \in 1..MaxEvents : events' \in [1..n -> [sock : epoll, kind : A!Kinds]]
      BY <2>1 DEF A!EpollWait
    <3>2. [sock : epoll, kind : A!Kinds] \subseteq A!Event
      BY DEF Base, A!TypeOK, A!Event, A!Kinds
    <3>3. events' \in [1..n -> A!Event] /\ n \in Nat
      BY <3>1, <3>2 DEF A!AlarmsAssumption
    <3> QED BY <3>1, <3>3 DEF A!AlarmsAssumption
  <2>2. CASE A!DispatchEnds \/ A!CallbackReturns
    BY <2>2 DEF Base, A!TypeOK, A!DispatchEnds, A!CallbackReturns
  <2>3. CASE A!SocketCbReturns
    <3>1. events \in Seq(A!Event) /\ Len(events) <= MaxEvents /\ events # <<>>
      BY <2>3 DEF Base, A!TypeOK, ForAnEvent, A!SocketCbReturns
    <3>2. Tail(events) \in Seq(A!Event) /\ Len(Tail(events)) = Len(events) - 1
      BY <3>1, HeadTailProperties
    <3>3. events' \in {events, Tail(events)}
      BY <2>3 DEF A!SocketCbReturns
    <3> QED BY <3>1, <3>2, <3>3 DEF A!AlarmsAssumption
  <2> QED BY <2>1, <2>2, <2>3
<1>3. phase' \in {"loop", "dispatch", "undefined"}
  BY DEF A!EpollWait, A!DispatchEnds, A!SocketCbReturns, A!CallbackReturns
<1> QED BY <1>1, <1>2, <1>3 DEF Base, ForAnEvent, A!TypeOK, A!TimersMatch, A!timeVars, A!sockVars

LEMMA DispatchBase ==
    ASSUME A!AlarmsAssumption, Base, A!Dispatch
    PROVE  Base'
<1> DEFINE e == Head(events)
<1>1. events \in Seq(A!Event) /\ Len(events) <= MaxEvents /\ events # <<>>
  BY DEF Base, A!TypeOK, A!Dispatch
<1>2. /\ e \in A!Event
      /\ Tail(events) \in Seq(A!Event) /\ Len(Tail(events)) = Len(events) - 1
  BY <1>1, HeadTailProperties
<1>3. events' \in {events, Tail(events)} /\ (phase' = "socket_cb" => events' = events)
  BY DEF A!Dispatch
<1>4. /\ UNCHANGED <<A!timeVars, sock_alarms, _poll_index, fd, sockets, allocated, sockfd>>
      /\ phase' \in {"dispatch", "socket_cb", "undefined"}
  BY DEF A!Dispatch, A!sockVars
<1>5. UNCHANGED <<owner, epoll>> \/ A!close(sockfd[e.sock])
  BY DEF A!Dispatch, A!sockVars
<1>6. owner' \in [Fds -> Alarms \cup {Free, Other}] /\ epoll' \subseteq Socks
  BY <1>5 DEF Base, A!TypeOK, A!close
<1>7. events' \in Seq(A!Event) /\ Len(events') <= MaxEvents
  BY <1>1, <1>2, <1>3 DEF A!AlarmsAssumption
<1> QED BY <1>1, <1>3, <1>4, <1>6, <1>7 DEF Base, ForAnEvent, A!TypeOK, A!TimersMatch, A!timeVars

\* Serval's calls about sockets, as far as types and the plugin's list go.
LEMMA WatchBase ==
    ASSUME Base, NEW a \in Alarms, A!_watch(a)
    PROVE  Base'
<1>1. UNCHANGED <<A!timeVars, events, phase>> /\ fd[a] \in Fds
  BY DEF A!_watch, Base, A!TypeOK
<1>2. CASE UNCHANGED A!sockVars
  BY <1>1, <1>2 DEF Base, ForAnEvent, A!TypeOK, A!TimersMatch, A!timeVars, A!sockVars
<1>3. CASE ~Contains(sock_alarms, a) /\ \E s \in Socks \ allocated : A!WatchNew(a, s)
  <2>1. PICK s \in Socks \ allocated : A!WatchNew(a, s)
    BY <1>3
  <2>2. sock_alarms \in Seq(Alarms) /\ IsInjective(sock_alarms) /\ a \notin ToSet(sock_alarms)
    BY <1>3, ContainsMeans DEF Base, A!TypeOK
  <2>3. sock_alarms' \in {sock_alarms, Append(sock_alarms, a)}
    BY <2>1 DEF A!WatchNew
  <2>4. sock_alarms' \in Seq(Alarms) /\ IsInjective(sock_alarms')
    <3>1. Append(sock_alarms, a) \in Seq(Alarms) /\ IsInjective(Append(sock_alarms, a))
      BY <2>2, AppendFacts
    <3> QED BY <2>2, <2>3, <3>1
  <2>5. A!TypeOK'
    BY <1>1, <2>1, <2>4
       DEF Base, A!TypeOK, A!timeVars, A!WatchNew, A!co_socket_create, A!co_loop_add_socket, A!close
  <2> QED BY <1>1, <2>4, <2>5 DEF Base, ForAnEvent, A!TimersMatch, A!timeVars
<1> QED BY <1>2, <1>3 DEF A!_watch

LEMMA UnwatchBase ==
    ASSUME Base, NEW a \in Alarms, A!_unwatch(a)
    PROVE  Base'
<1>1. UNCHANGED <<A!timeVars, events, phase>>
  BY DEF A!_unwatch
<1>2. CASE UNCHANGED A!sockVars
  BY <1>1, <1>2 DEF Base, ForAnEvent, A!TypeOK, A!TimersMatch, A!timeVars, A!sockVars
<1>3. CASE A!Unwatch(a)
  <2>1. sock_alarms' \in Seq(Alarms) /\ IsInjective(sock_alarms')
    BY <1>3, RemoveFirstFacts DEF Base, A!TypeOK, A!Unwatch
  <2>2. A!TypeOK'
    BY <1>1, <1>3, <2>1
       DEF Base, A!TypeOK, A!timeVars, A!Unwatch, A!co_loop_remove_socket, A!co_socket_destroy,
           A!close
  <2> QED BY <1>1, <2>1, <2>2 DEF Base, ForAnEvent, A!TimersMatch, A!timeVars
<1> QED BY <1>2, <1>3 DEF A!_unwatch

\* Descriptors that are opened and closed, and the clock.
LEMMA OthersBase ==
    ASSUME Base,
           \/ \E a \in Alarms, f \in Fds : A!ServalOpens(a, f)
           \/ \E f \in Fds : A!OtherOpens(f) \/ A!OtherCloses(f)
           \/ \E t \in Instants : A!Tick(t)
    PROVE  Base'
<1>1. UNCHANGED <<timer_alarms, timers, sock_alarms, events, phase, _poll_index, sockets,
                  allocated, sockfd, epoll>>
  BY DEF A!ServalOpens, A!OtherOpens, A!OtherCloses, A!Tick, A!timeVars, A!sockVars
<1>2. clock' \in Instants
  BY DEF A!ServalOpens, A!OtherOpens, A!OtherCloses, A!Tick, Base, A!TypeOK, A!timeVars
<1>3. fd' \in [Alarms -> Fds \cup {NULL}] /\ owner' \in [Fds -> Alarms \cup {Free, Other}]
  <2>1. fd \in [Alarms -> Fds \cup {NULL}] /\ owner \in [Fds -> Alarms \cup {Free, Other}]
    BY DEF Base, A!TypeOK
  <2>2. CASE \E a \in Alarms, f \in Fds : A!ServalOpens(a, f)
    BY <2>1, <2>2 DEF A!ServalOpens
  <2>3. CASE \E f \in Fds : A!OtherOpens(f) \/ A!OtherCloses(f)
    BY <2>1, <2>3 DEF A!OtherOpens, A!OtherCloses
  <2>4. CASE \E t \in Instants : A!Tick(t)
    BY <2>1, <2>4 DEF A!Tick, A!sockVars
  <2> QED BY <2>2, <2>3, <2>4
<1> QED BY <1>1, <1>2, <1>3 DEF Base, ForAnEvent, A!TypeOK, A!TimersMatch

LEMMA StepBase ==
    ASSUME A!AlarmsAssumption, Base, [A!Next]_(A!vars)
    PROVE  Base'
<1>1. CASE \E a \in Alarms : \E time \in Times \cup {Never}, later \in Instants :
              A!_schedule(a, time, later)
  BY <1>1, ScheduleBase
<1>2. CASE \E a \in Alarms : A!_unschedule(a)
  BY <1>2, UnscheduleBase
<1>3. CASE \E a \in Alarms : A!_watch(a) \/ A!_unwatch(a)
  BY <1>3, WatchBase, UnwatchBase
<1>4. CASE \/ \E a \in Alarms, f \in Fds : A!ServalOpens(a, f)
           \/ \E f \in Fds : A!OtherOpens(f) \/ A!OtherCloses(f)
           \/ \E t \in Instants : A!Tick(t)
  BY <1>4, OthersBase
<1>5. CASE A!EpollWait \/ A!DispatchEnds \/ A!SocketCbReturns \/ A!CallbackReturns
  BY <1>5, EventsBase
<1>6. CASE A!Dispatch
  BY <1>6, DispatchBase
<1>7. CASE A!FireTimer \/ A!co_loop_destroy
  BY <1>7, FireBase, DestroyBase
<1>8. CASE UNCHANGED A!vars
  BY <1>8 DEF A!vars, A!timeVars, A!sockVars, Base, ForAnEvent, A!TypeOK, A!TimersMatch
<1> QED BY <1>1, <1>2, <1>3, <1>4, <1>5, <1>6, <1>7, <1>8 DEF A!Next, A!Calls

\* Every state of the plugin's lists, the loop's sockets and the kernel's
\* descriptors is well typed.
THEOREM AlarmsType == ASSUME A!AlarmsAssumption PROVE A!Spec => []A!TypeOK
<1>1. A!Init => Base
  BY InitBase
<1>2. Base /\ [A!Next]_(A!vars) => Base'
  BY StepBase
<1>3. Base => A!TypeOK
  BY DEF Base
<1> QED BY <1>1, <1>2, <1>3, PTL DEF A!Spec

\* The plugin and the loop know the same timers of alarms, in whatever order
\* callbacks schedule, unschedule and fire, and whatever the kernel reports.
THEOREM TimersAlwaysMatch == ASSUME A!AlarmsAssumption PROVE A!Spec => []A!TimersMatch
<1>1. A!Init => Base
  BY InitBase
<1>2. Base /\ [A!Next]_(A!vars) => Base'
  BY StepBase
<1>3. Base => A!TimersMatch
  BY DEF Base
<1> QED BY <1>1, <1>2, <1>3, PTL DEF A!Spec

-----------------------------------------------------------------------------
(* Sockets, whatever the kernel reports and callbacks unwatch.             *)

\* Believed watched, in Serval's words.
Believed == {a \in Alarms : _poll_index[a] = 1}

\* While the loop exists it has a socket with the descriptor of every alarm
\* that is believed watched, and no two of these have the same descriptor.
HasSocket ==
    /\ \A a \in Believed : fd[a] \in Fds /\ \E s \in sockets : sockfd[s] = fd[a]
    /\ \A a, b \in Believed : fd[a] = fd[b] => a = b

Held == /\ sockets \subseteq allocated
        /\ phase # "down" => HasSocket
        /\ A!ShutdownCloses

LEMMA InitHeld == A!Init => Held
BY DEF A!Init, Held, HasSocket, Believed, A!ShutdownCloses

\* Steps that leave the sockets alone, whoever owns their descriptors.
LEMMA HeldKept ==
    ASSUME Held, UNCHANGED <<sockets, allocated, _poll_index, fd, sockfd>>,
           phase # "down", phase' # "down"
    PROVE  Held'
BY DEF Held, HasSocket, Believed, A!ShutdownCloses

\* A socket is made only for a descriptor that no socket of the loop has.
LEMMA WatchHeld ==
    ASSUME Base, Held, NEW a \in Alarms, A!_watch(a)
    PROVE  Held'
<1>1. phase # "down" /\ phase' = phase /\ fd[a] \in Fds /\ HasSocket
  BY DEF A!_watch, A!UserCode, Base, A!TypeOK, Held
<1>2. CASE UNCHANGED <<sockets, allocated, _poll_index, fd, sockfd>>
  BY <1>1, <1>2, HeldKept
<1>3. CASE ~UNCHANGED <<sockets, allocated, _poll_index, fd, sockfd>>
  <2>1. PICK s \in Socks \ allocated : A!WatchNew(a, s) /\ A!Registered(fd[a]) = {}
    BY <1>3 DEF A!_watch, A!sockVars, A!WatchNew
  <2>2. /\ sockfd' = [sockfd EXCEPT ![s] = fd[a]]
        /\ allocated' = allocated \cup {s} /\ sockets' = sockets \cup {s}
        /\ _poll_index' = [_poll_index EXCEPT ![a] = 1] /\ fd' = fd
    BY <2>1 DEF A!WatchNew, A!co_socket_create, A!co_loop_add_socket
  <2>3. s \notin sockets /\ sockfd'[s] = fd[a] /\ \A r \in sockets : sockfd'[r] = sockfd[r]
    BY <2>1, <2>2 DEF Base, A!TypeOK, Held
  <2>4. \A b \in Believed : fd[b] # fd[a]
    BY <1>1, <2>1 DEF HasSocket, A!Registered
  <2>5. Believed' \subseteq Believed \cup {a}
    BY <2>2 DEF Believed, Base, A!TypeOK
  <2>6. HasSocket'
    BY <1>1, <2>2, <2>3, <2>4, <2>5 DEF HasSocket
  <2> QED BY <1>1, <2>2, <2>6 DEF Held, A!ShutdownCloses
<1> QED BY <1>2, <1>3

\* The sockets that go have the descriptor of the alarm, and so of no other.
LEMMA UnwatchHeld ==
    ASSUME Base, Held, NEW a \in Alarms, A!_unwatch(a)
    PROVE  Held'
<1>1. phase # "down" /\ phase' = phase /\ HasSocket
  BY DEF A!_unwatch, A!UserCode, Held
<1>2. CASE UNCHANGED <<sockets, allocated, _poll_index, fd, sockfd>>
  BY <1>1, <1>2, HeldKept
<1>3. CASE ~UNCHANGED <<sockets, allocated, _poll_index, fd, sockfd>>
  <2>1. a \in Believed
    BY <1>3 DEF A!_unwatch, A!sockVars, Believed
  <2>2. /\ sockets' = sockets \ A!Registered(fd[a]) /\ allocated' = allocated \ A!Registered(fd[a])
        /\ _poll_index' = [_poll_index EXCEPT ![a] = -1] /\ UNCHANGED <<fd, sockfd>>
    BY <1>3 DEF A!_unwatch, A!sockVars, A!Unwatch, A!co_loop_remove_socket, A!co_socket_destroy
  <2>3. Believed' = Believed \ {a}
    BY <2>2 DEF Believed, Base, A!TypeOK
  <2>4. HasSocket'
    BY <1>1, <2>1, <2>2, <2>3 DEF HasSocket, A!Registered
  <2> QED BY <1>1, <2>2, <2>4 DEF Held, A!ShutdownCloses
<1> QED BY <1>2, <1>3

\* Serval opens descriptors only for alarms it does not believe watched.
LEMMA OpensHeld ==
    ASSUME Base, Held, NEW a \in Alarms, NEW f \in Fds, A!ServalOpens(a, f)
    PROVE  Held'
<1>1. phase # "down" /\ phase' = phase /\ HasSocket /\ a \notin Believed
  BY DEF A!ServalOpens, A!UserCode, Held, Believed
<1>2. UNCHANGED <<sockets, allocated, sockfd>> /\ Believed' = Believed
  BY DEF A!ServalOpens, Believed
<1>3. \A b \in Believed : fd'[b] = fd[b]
  BY <1>1 DEF A!ServalOpens, Base, A!TypeOK, Believed
<1> QED BY <1>1, <1>2, <1>3 DEF Held, HasSocket, A!ShutdownCloses

\* co_loop_destroy closes the descriptors of all sockets the loop has.
LEMMA DestroyHeld ==
    ASSUME A!AlarmsAssumption, Base, Held, A!co_loop_destroy
    PROVE  Held'
<1>1. HasSocket /\ UNCHANGED <<_poll_index, fd>>
  BY DEF A!co_loop_destroy, Held
<1>2. \A a \in Believed : owner'[fd[a]] = Free
  BY <1>1 DEF HasSocket, A!co_loop_destroy, A!Registered
<1>3. A!ShutdownCloses'
  BY <1>1, <1>2 DEF A!ShutdownCloses, Believed, A!AlarmsAssumption
<1> QED BY <1>3 DEF Held, A!co_loop_destroy

LEMMA StepHeld ==
    ASSUME A!AlarmsAssumption, Base, Held, [A!Next]_(A!vars)
    PROVE  Held'
<1>1. CASE \E a \in Alarms : A!_watch(a) \/ A!_unwatch(a) \/ \E f \in Fds : A!ServalOpens(a, f)
  BY <1>1, WatchHeld, UnwatchHeld, OpensHeld
<1>2. CASE A!co_loop_destroy
  BY <1>2, DestroyHeld
<1>3. CASE \/ \E a \in Alarms : \/ \E time \in Times \cup {Never}, later \in Instants :
                                      A!_schedule(a, time, later)
                                \/ A!_unschedule(a)
           \/ A!FireTimer \/ \E t \in Instants : A!Tick(t)
  BY <1>3, HeldKept
     DEF A!_schedule, A!_unschedule, A!FireTimer, A!serval_timer_cb, A!Tick, A!UserCode, A!sockVars
<1>4. CASE A!EpollWait \/ A!Dispatch \/ A!DispatchEnds \/ A!SocketCbReturns \/ A!CallbackReturns
  BY <1>4, HeldKept
     DEF A!EpollWait, A!Dispatch, A!DispatchEnds, A!SocketCbReturns, A!CallbackReturns, A!sockVars
<1>5. CASE \E f \in Fds : A!OtherOpens(f) \/ A!OtherCloses(f)
  BY <1>5, HeldKept DEF A!OtherOpens, A!OtherCloses
<1>6. CASE UNCHANGED A!vars
  BY <1>6 DEF A!vars, A!sockVars, Held, HasSocket, Believed, A!ShutdownCloses
<1> QED BY <1>1, <1>2, <1>3, <1>4, <1>5, <1>6 DEF A!Next, A!Calls

\* After the shutdown no alarm that was believed watched has an open
\* descriptor, even if hangups and errors closed descriptors before, and their
\* numbers were given to others.
THEOREM ShutdownAlwaysCloses == ASSUME A!AlarmsAssumption PROVE A!Spec => []A!ShutdownCloses
<1>1. A!Init => Base /\ Held
  BY InitBase, InitHeld
<1>2. Base /\ Held /\ [A!Next]_(A!vars) => (Base /\ Held)'
  BY StepBase, StepHeld
<1>3. Held => A!ShutdownCloses
  BY DEF Held
<1> QED BY <1>1, <1>2, <1>3, PTL DEF A!Spec

-----------------------------------------------------------------------------
(* What the loop polls, whatever the kernel reports and callbacks unwatch.  *)

\* The loop's sockets are those allocated, one for a number; and a socket of an
\* alarm that is believed watched is polled as long as the alarm has the number.
OneToOne ==
    /\ epoll \subseteq sockets /\ allocated = sockets
    /\ Believed = ToSet(sock_alarms)
    /\ \A r, s \in sockets : sockfd[r] = sockfd[s] => r = s
    /\ \A a \in Believed, s \in sockets :
           sockfd[s] = fd[a] => (s \in epoll <=> owner[fd[a]] = a)

Exact == phase # "down" => OneToOne

LEMMA InitExact == A!Init => Exact
BY DEF A!Init, Exact, OneToOne, Believed, ToSet

\* Steps that leave the sockets alone.
LEMMA ExactKept ==
    ASSUME Exact, UNCHANGED A!sockVars, phase # "down"
    PROVE  Exact'
BY DEF Exact, OneToOne, Believed, A!sockVars

\* A number is closed: nobody has it, and nothing with it is polled.
LEMMA CloseExact ==
    ASSUME A!AlarmsAssumption, Base, Held, Exact, NEW f \in Fds, A!close(f), phase # "down",
           UNCHANGED <<sock_alarms, _poll_index, fd, sockets, allocated, sockfd>>
    PROVE  Exact'
<1>1. OneToOne /\ HasSocket /\ Believed' = Believed
  BY DEF Held, Exact, Believed
<1>2. /\ epoll' = {s \in epoll : sockfd[s] # f}
      /\ owner' = [owner EXCEPT ![f] = Free] /\ owner \in [Fds -> Alarms \cup {Free, Other}]
  BY DEF A!close, Base, A!TypeOK
<1>3. ASSUME NEW a \in Believed, NEW s \in sockets, sockfd[s] = fd[a]
      PROVE  s \in epoll' <=> owner'[fd[a]] = a
  <2>1. a \in Alarms /\ a # Free /\ fd[a] \in Fds /\ (s \in epoll <=> owner[fd[a]] = a)
    BY <1>1, <1>3 DEF OneToOne, HasSocket, Believed, A!AlarmsAssumption
  <2>2. CASE fd[a] = f
    BY <1>2, <1>3, <2>1, <2>2
  <2>3. CASE fd[a] # f
    BY <1>2, <1>3, <2>1, <2>3
  <2> QED BY <2>2, <2>3
<1> QED BY <1>1, <1>2, <1>3 DEF Exact, OneToOne

\* A new socket is polled for the alarm; one that is refused takes with it a
\* descriptor that no socket is polled with.
LEMMA WatchExact ==
    ASSUME A!AlarmsAssumption, Base, Held, Exact, NEW a \in Alarms, A!_watch(a)
    PROVE  Exact'
<1>1. /\ phase # "down" /\ UNCHANGED phase
      /\ fd[a] \in Fds /\ owner[fd[a]] = a /\ OneToOne /\ HasSocket
  BY DEF A!_watch, A!UserCode, Base, A!TypeOK, Held, Exact
<1>2. CASE UNCHANGED A!sockVars
  BY <1>1, <1>2, ExactKept
<1>3. CASE ~UNCHANGED A!sockVars /\ A!Registered(fd[a]) # {}
  <2>1. A!close(fd[a]) /\ UNCHANGED <<sock_alarms, _poll_index, fd, sockets, allocated, sockfd>>
    BY <1>3 DEF A!_watch, A!WatchNew
  <2> QED BY <1>1, <2>1, CloseExact
<1>4. CASE ~UNCHANGED A!sockVars /\ A!Registered(fd[a]) = {}
  <2>1. PICK s \in Socks \ allocated : A!WatchNew(a, s) /\ a \notin Believed
    BY <1>4 DEF A!_watch, Believed
  <2>2. /\ sockfd' = [sockfd EXCEPT ![s] = fd[a]]
        /\ allocated' = allocated \cup {s} /\ sockets' = sockets \cup {s} /\ epoll' = epoll \cup {s}
        /\ _poll_index' = [_poll_index EXCEPT ![a] = 1] /\ UNCHANGED <<fd, owner>>
        /\ sock_alarms' = Append(sock_alarms, a)
    BY <1>4, <2>1 DEF A!WatchNew, A!co_socket_create, A!co_loop_add_socket
  <2>3. s \notin sockets /\ sockfd'[s] = fd[a] /\ \A r \in sockets : sockfd'[r] = sockfd[r]
    BY <1>1, <2>1, <2>2 DEF Base, A!TypeOK, OneToOne
  <2>4. Believed' = Believed \cup {a}
    BY <2>2 DEF Believed, Base, A!TypeOK
  <2>5. ToSet(sock_alarms') = ToSet(sock_alarms) \cup {a}
    BY <1>1, <2>1, <2>2, AppendFacts DEF Base, A!TypeOK, OneToOne
  <2>6. \A r \in sockets : sockfd[r] # fd[a]
    BY <1>4 DEF A!Registered
  <2>7. \A b \in Believed : fd[b] # fd[a]
    BY <1>1, <2>6 DEF HasSocket
  <2>8. ASSUME NEW b \in Believed', NEW r \in sockets', sockfd'[r] = fd'[b]
        PROVE  r \in epoll' <=> owner'[fd'[b]] = b
    <3>1. CASE b = a
      <4>1. r = s
        BY <2>2, <2>3, <2>6, <2>8, <3>1
      <4> QED BY <1>1, <2>2, <3>1, <4>1
    <3>2. CASE b # a
      <4>1. b \in Believed /\ fd[b] # fd[a]
        BY <2>4, <2>7, <3>2
      <4>2. r \in sockets /\ r # s /\ sockfd[r] = fd[b]
        BY <2>2, <2>3, <2>8, <4>1
      <4> QED BY <1>1, <2>2, <4>1, <4>2 DEF OneToOne
    <3> QED BY <3>1, <3>2
  <2>9. \A r, q \in sockets' : sockfd'[r] = sockfd'[q] => r = q
    BY <1>1, <2>2, <2>3, <2>6 DEF OneToOne
  <2>10. epoll' \subseteq sockets' /\ allocated' = sockets' /\ Believed' = ToSet(sock_alarms')
    BY <1>1, <2>2, <2>4, <2>5 DEF OneToOne
  <2> QED BY <2>8, <2>9, <2>10 DEF Exact, OneToOne
<1> QED BY <1>2, <1>3, <1>4

\* Exactly the alarm's socket goes, and exactly its number is closed.
LEMMA UnwatchDoes ==
    ASSUME Base, Held, Exact, NEW a \in Alarms, A!_unwatch(a), ~UNCHANGED A!sockVars
    PROVE  /\ a \in Believed /\ fd[a] \in Fds
           /\ sockets' = sockets \ A!Registered(fd[a])
           /\ allocated' = allocated \ A!Registered(fd[a])
           /\ epoll' = {s \in epoll : sockfd[s] # fd[a]}
           /\ owner' = [owner EXCEPT ![fd[a]] = Free]
           /\ _poll_index' = [_poll_index EXCEPT ![a] = -1] /\ UNCHANGED <<fd, sockfd>>
           /\ ToSet(sock_alarms') = ToSet(sock_alarms) \ {a}
<1>1. a \in Believed /\ A!Unwatch(a) /\ HasSocket
  BY DEF A!_unwatch, Believed, Held, A!UserCode
<1>2. fd[a] \in Fds /\ A!Registered(fd[a]) # {}
  BY <1>1 DEF HasSocket, A!Registered
<1>3. ToSet(sock_alarms') = ToSet(sock_alarms) \ {a}
  BY <1>1, RemoveFirstFacts DEF A!Unwatch, Base, A!TypeOK
<1> QED
  BY <1>1, <1>2, <1>3 DEF A!Unwatch, A!co_loop_remove_socket, A!co_socket_destroy, A!close

LEMMA UnwatchExact ==
    ASSUME Base, Held, Exact, NEW a \in Alarms, A!_unwatch(a)
    PROVE  Exact'
<1>1. phase # "down" /\ UNCHANGED phase /\ OneToOne /\ HasSocket
  BY DEF A!_unwatch, A!UserCode, Held, Exact
<1>2. CASE UNCHANGED A!sockVars
  BY <1>1, <1>2, ExactKept
<1>3. CASE ~UNCHANGED A!sockVars
  <2>1. /\ a \in Believed /\ fd[a] \in Fds
        /\ sockets' = sockets \ A!Registered(fd[a]) /\ allocated' = allocated \ A!Registered(fd[a])
        /\ epoll' = {s \in epoll : sockfd[s] # fd[a]}
        /\ owner' = [owner EXCEPT ![fd[a]] = Free]
        /\ _poll_index' = [_poll_index EXCEPT ![a] = -1] /\ UNCHANGED <<fd, sockfd>>
        /\ ToSet(sock_alarms') = ToSet(sock_alarms) \ {a}
    BY <1>3, UnwatchDoes
  <2>2. Believed' = Believed \ {a}
    BY <2>1 DEF Believed, Base, A!TypeOK
  <2>3. epoll' \subseteq sockets' /\ allocated' = sockets' /\ Believed' = ToSet(sock_alarms')
    BY <1>1, <2>1, <2>2 DEF OneToOne, A!Registered
  <2>4. ASSUME NEW b \in Believed', NEW s \in sockets', sockfd'[s] = fd'[b]
        PROVE  s \in epoll' <=> owner'[fd'[b]] = b
    <3>1. b \in Believed /\ s \in sockets /\ sockfd[s] = fd[b] /\ fd[b] # fd[a] /\ fd[b] \in Fds
      BY <1>1, <2>1, <2>2, <2>4 DEF A!Registered, HasSocket
    <3> QED BY <1>1, <2>1, <3>1 DEF OneToOne, Base, A!TypeOK
  <2>5. \A r, s \in sockets' : sockfd'[r] = sockfd'[s] => r = s
    BY <1>1, <2>1 DEF OneToOne
  <2> QED BY <2>3, <2>4, <2>5 DEF Exact, OneToOne
<1> QED BY <1>2, <1>3

\* A number that is opened or closed beside them is polled for no alarm.
LEMMA OpensExact ==
    ASSUME A!AlarmsAssumption, Base, Held, Exact,
           \/ \E a \in Alarms, f \in Fds : A!ServalOpens(a, f)
           \/ \E f \in Fds : A!OtherOpens(f) \/ A!OtherCloses(f)
    PROVE  Exact'
<1>1. /\ phase # "down" /\ UNCHANGED phase
      /\ UNCHANGED <<sock_alarms, _poll_index, sockets, allocated, sockfd, epoll>>
  BY DEF A!ServalOpens, A!OtherOpens, A!OtherCloses, A!UserCode, Exact
<1>2. OneToOne /\ HasSocket /\ Believed' = Believed
  BY <1>1 DEF Held, Exact, Believed
<1>3. \A b \in Believed : fd'[b] = fd[b] /\ (owner'[fd[b]] = b <=> owner[fd[b]] = b)
  BY <1>2 DEF A!ServalOpens, A!OtherOpens, A!OtherCloses, HasSocket, Believed, Base, A!TypeOK,
              A!AlarmsAssumption
<1> QED BY <1>1, <1>2, <1>3 DEF Exact, OneToOne

\* An event of a socket; a hangup closes its number.
LEMMA DispatchExact ==
    ASSUME A!AlarmsAssumption, Base, Held, Exact, A!Dispatch
    PROVE  Exact'
<1>1. phase # "down" /\ OneToOne
  BY DEF A!Dispatch, Exact
<1>2. CASE UNCHANGED A!sockVars
  BY <1>1, <1>2, ExactKept
<1>3. CASE ~UNCHANGED A!sockVars
  <2> DEFINE f == sockfd[Head(events).sock]
  <2>1. /\ A!close(f) /\ UNCHANGED <<sock_alarms, _poll_index, fd, sockets, allocated, sockfd>>
        /\ Head(events).sock \in allocated
    BY <1>3 DEF A!Dispatch
  <2>2. CASE f \in Fds
    BY <1>1, <2>1, <2>2, CloseExact
  <2>3. CASE f \notin Fds
    <3>1. UNCHANGED owner /\ epoll' = {s \in epoll : sockfd[s] # f}
      BY <2>1, <2>3 DEF A!close, Base, A!TypeOK
    <3>2. \A a \in Believed : fd[a] # f
      BY <1>1, <2>3 DEF Held, HasSocket
    <3>3. Believed' = Believed
      BY <2>1 DEF Believed
    <3> QED BY <1>1, <2>1, <3>1, <3>2, <3>3 DEF Exact, OneToOne
  <2> QED BY <2>2, <2>3
<1> QED BY <1>2, <1>3

LEMMA StepExact ==
    ASSUME A!AlarmsAssumption, Base, Held, Exact, [A!Next]_(A!vars)
    PROVE  Exact'
<1>1. CASE \E a \in Alarms : A!_watch(a) \/ A!_unwatch(a)
  BY <1>1, WatchExact, UnwatchExact
<1>2. CASE \/ \E a \in Alarms, f \in Fds : A!ServalOpens(a, f)
           \/ \E f \in Fds : A!OtherOpens(f) \/ A!OtherCloses(f)
  BY <1>2, OpensExact
<1>3. CASE A!Dispatch
  BY <1>3, DispatchExact
<1>4. CASE \/ \E a \in Alarms : \/ \E time \in Times \cup {Never}, later \in Instants :
                                      A!_schedule(a, time, later)
                                \/ A!_unschedule(a)
           \/ A!FireTimer \/ \E t \in Instants : A!Tick(t)
  BY <1>4, ExactKept DEF A!_schedule, A!_unschedule, A!FireTimer, A!Tick, A!UserCode
<1>5. CASE A!EpollWait \/ A!DispatchEnds \/ A!SocketCbReturns \/ A!CallbackReturns
  BY <1>5, ExactKept DEF A!EpollWait, A!DispatchEnds, A!SocketCbReturns, A!CallbackReturns
<1>6. CASE A!co_loop_destroy
  BY <1>6 DEF A!co_loop_destroy, Exact
<1>7. CASE UNCHANGED A!vars
  BY <1>7 DEF A!vars, A!sockVars, Exact, OneToOne, Believed
<1> QED BY <1>1, <1>2, <1>3, <1>4, <1>5, <1>6, <1>7 DEF A!Next, A!Calls

AlarmsInv == Base /\ Held /\ Exact

LEMMA ExactAlways == ASSUME A!AlarmsAssumption PROVE A!Spec => []AlarmsInv
<1>1. A!Init => AlarmsInv
  BY InitBase, InitHeld, InitExact DEF AlarmsInv
<1>2. AlarmsInv /\ [A!Next]_(A!vars) => AlarmsInv'
  BY StepBase, StepHeld, StepExact DEF AlarmsInv
<1> QED BY <1>1, <1>2, PTL DEF A!Spec

\* What Serval believes watched has one socket of the loop with its descriptor,
\* and is polled as long as the descriptor is the alarm's own, whatever callbacks
\* unwatch, the kernel reports and numbers are used again for.
THEOREM AlwaysPolled == ASSUME A!AlarmsAssumption PROVE A!Spec => []A!WatchedIsPolled
<1>1. ASSUME AlarmsInv PROVE A!WatchedIsPolled
  <2>1. SUFFICES ASSUME phase # "down"
                 PROVE  /\ \A a \in Alarms : _poll_index[a] = 1 <=> Contains(sock_alarms, a)
                        /\ \A a \in ToSet(sock_alarms) :
                               \E s \in sockets : /\ A!Registered(fd[a]) = {s}
                                                 /\ s \in epoll <=> owner[fd[a]] = a
                        /\ epoll \subseteq sockets /\ allocated = sockets
    BY DEF A!WatchedIsPolled
  <2>2. OneToOne /\ HasSocket /\ sock_alarms \in Seq(Alarms)
    BY <1>1, <2>1 DEF AlarmsInv, Exact, Held, Base, A!TypeOK
  <2>3. \A a \in Alarms : _poll_index[a] = 1 <=> Contains(sock_alarms, a)
    <3>1. \A a \in Alarms : Contains(sock_alarms, a) <=> a \in Believed
      BY <2>2, ContainsMeans DEF OneToOne
    <3> QED BY <3>1 DEF Believed
  <2>4. ASSUME NEW a \in ToSet(sock_alarms)
        PROVE  \E s \in sockets : /\ A!Registered(fd[a]) = {s}
                                 /\ s \in epoll <=> owner[fd[a]] = a
    <3>1. a \in Believed
      BY <2>2 DEF OneToOne
    <3>2. PICK s \in sockets : sockfd[s] = fd[a]
      BY <2>2, <3>1 DEF HasSocket
    <3>3. A!Registered(fd[a]) = {s} /\ (s \in epoll <=> owner[fd[a]] = a)
      BY <2>2, <3>1, <3>2 DEF OneToOne, A!Registered
    <3> QED BY <3>3
  <2> QED BY <2>2, <2>3, <2>4 DEF OneToOne
<1> QED BY <1>1, ExactAlways, PTL

\* Unwatching an alarm closes its own number and no other, and the descriptor
\* is still the alarm's unless a hangup has closed it before.
THEOREM AlwaysClosesItsOwn ==
    ASSUME A!AlarmsAssumption PROVE A!Spec => A!ClosesItsOwn
<1>1. ASSUME AlarmsInv, [A!Next]_(A!vars) PROVE A!ClosesItsOwnStep
  <2> SUFFICES ASSUME phase' # "down", NEW a \in ToSet(sock_alarms) \ ToSet(sock_alarms'),
                      NEW f \in Fds, owner'[f] # owner[f]
               PROVE  f = fd[a] /\ (owner[f] = a \/ A!Registered(f) \cap epoll = {})
    BY DEF A!ClosesItsOwnStep
  <2>1. CASE \E b \in Alarms : A!_unwatch(b)
    <3>1. PICK b \in Alarms : A!_unwatch(b)
      BY <2>1
    <3>2. ~UNCHANGED A!sockVars /\ phase # "down"
      BY <3>1 DEF A!sockVars, A!_unwatch, A!UserCode
    <3>3. /\ b \in Believed /\ owner' = [owner EXCEPT ![fd[b]] = Free]
          /\ ToSet(sock_alarms') = ToSet(sock_alarms) \ {b}
      BY <1>1, <3>1, <3>2, UnwatchDoes DEF AlarmsInv
    <3>4. f = fd[b] /\ a = b
      BY <1>1, <3>3 DEF AlarmsInv, Base, A!TypeOK
    <3>5. owner[fd[b]] = b \/ A!Registered(fd[b]) \cap epoll = {}
      BY <1>1, <3>2, <3>3 DEF AlarmsInv, Exact, OneToOne, A!Registered
    <3> QED BY <3>4, <3>5
  <2>2. CASE \E b \in Alarms : A!_watch(b)
    <3>1. PICK b \in Alarms : A!_watch(b)
      BY <2>2
    <3>2. sock_alarms' \in {sock_alarms, Append(sock_alarms, b)}
      BY <3>1 DEF A!_watch, A!WatchNew, A!sockVars
    <3>3. CASE sock_alarms' = sock_alarms
      BY <3>3
    <3>4. CASE sock_alarms' # sock_alarms
      <4>1. ~Contains(sock_alarms, b) /\ sock_alarms' = Append(sock_alarms, b)
        BY <3>1, <3>2, <3>4 DEF A!_watch, A!sockVars
      <4>2. sock_alarms \in Seq(Alarms) /\ IsInjective(sock_alarms)
        BY <1>1 DEF AlarmsInv, Base, A!TypeOK
      <4>3. ToSet(sock_alarms') = ToSet(sock_alarms) \cup {b}
        BY <4>1, <4>2, ContainsMeans, AppendFacts
      <4> QED BY <4>3
    <3> QED BY <3>3, <3>4
  <2>3. CASE UNCHANGED sock_alarms
    BY <2>3
  <2>4. CASE A!co_loop_destroy
    BY <2>4 DEF A!co_loop_destroy
  <2> QED
    BY <1>1, <2>1, <2>2, <2>3, <2>4
       DEF A!Next, A!Calls, A!_schedule, A!_unschedule, A!ServalOpens, A!OtherOpens, A!OtherCloses,
           A!EpollWait,
           A!Dispatch, A!DispatchEnds, A!SocketCbReturns, A!CallbackReturns, A!FireTimer, A!Tick,
           A!vars, A!sockVars
<1> QED BY <1>1, ExactAlways, PTL DEF A!Spec, A!ClosesItsOwn

-----------------------------------------------------------------------------
(* The plugin as a whole: its behaviours are those of its parts.           *)

LEMMA PartsRun == ServalSpec => Spec /\ A!Spec
<1>1. ServalInit => Init /\ A!Init
  BY DEF ServalInit
<1>2. [ServalNext]_servalVars => [Next]_vars /\ [A!Next]_(A!vars)
  BY DEF ServalNext, servalVars, alarmVars, A!vars, A!timeVars, A!sockVars
<1> QED BY <1>1, <1>2, PTL DEF ServalSpec, Spec, A!Spec

\* Contexts, keyrings, files, alarms, the loop's sockets and the kernel's
\* descriptors are well typed, whatever handlers and callbacks run and fail.
THEOREM ServalType == ASSUME A!AlarmsAssumption PROVE ServalSpec => []PartsTypeOK
BY PartsRun, KeyringsType, AlarmsType, PTL DEF PartsTypeOK

\* Whatever the order in which callbacks schedule, unschedule and fire alarms,
\* the plugin's timer_alarms and the loop's timers are of the same alarms.
THEOREM ServalTimersMatch == ASSUME A!AlarmsAssumption PROVE ServalSpec => []TimersMatch
BY PartsRun, TimersAlwaysMatch, PTL DEF TimersMatch

\* co_loop_destroy closes the descriptors of all alarms that are believed watched.
THEOREM ServalShutdownCloses == ASSUME A!AlarmsAssumption PROVE ServalSpec => []ShutdownCloses
BY PartsRun, ShutdownAlwaysCloses, PTL DEF ShutdownCloses

\* What Serval believes watched has one socket of the loop with its descriptor,
\* and is polled as long as the descriptor is the alarm's own, whatever callbacks
\* unwatch, the kernel reports and numbers are used again for.
THEOREM ServalAlwaysPolled == ASSUME A!AlarmsAssumption PROVE ServalSpec => []WatchedIsPolled
BY PartsRun, AlwaysPolled, PTL DEF WatchedIsPolled

\* _unwatch closes its alarm's own number and no other, and the descriptor is
\* still the alarm's unless a hangup has closed it before.
THEOREM ServalClosesItsOwn == ASSUME A!AlarmsAssumption PROVE ServalSpec => ClosesItsOwn
<1>1. [A!ClosesItsOwnStep]_(A!vars) => [A!ClosesItsOwnStep]_alarmVars
  BY DEF alarmVars, A!vars, A!timeVars, A!sockVars
<1> QED BY <1>1, PartsRun, AlwaysClosesItsOwn, PTL DEF A!ClosesItsOwn, ClosesItsOwn

=============================================================================
