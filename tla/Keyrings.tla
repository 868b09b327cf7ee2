------------------------------ MODULE Keyrings ------------------------------
(***************************************************************************)
(* The keyrings of the Serval plugin: the shared, counted keyrings of      *)
(* plugins/serval-dna/keyring.c and the commands that use them,            *)
(* serval-crypto sign (crypto.c), mdp-init (olsr_mdp.c) and serval-daemon  *)
(* reload (serval-dna.c), with the plugin's own context and the global     *)
(* variable keyring of the Serval library that points into it.             *)
(*                                                                         *)
(* A handler runs alone; it is cut into its calls, each of which may fail. *)
(* Identities (SIDs) stand for their keys: an identity that is found gives *)
(* its keys and so its signature.  The library that reads and writes a     *)
(* keyring file is external.  The files are shared: serval-client          *)
(* (serval-client.c) reads and writes them in processes of its own, and an *)
(* administrator may empty one.                                            *)
(***************************************************************************)
EXTENDS Integers, Sequences, SequencesExt, FiniteSets

CONSTANTS
    Paths, Default,     \* paths of keyring files, and the plugin's own
    Alike(_, _),        \* strcasecmp of two paths is 0
    Sids,               \* identities
    Nodes,              \* addresses of svl_keyring
    Files,              \* addresses of keyring_file
    Clients, Shared,    \* processes of serval-client, and the files they use
    MaxLeaked,          \* bound on the successful mdp-inits
    Faults,             \* opening and writing files may fail
    NULL

ASSUME KeyringsAssumption ==
    /\ Default \in Paths /\ Shared \subseteq Paths
    /\ \A p, q \in Paths : Alike(p, p) /\ (Alike(p, q) => Alike(q, p))
    /\ MaxLeaked \in Nat
    /\ Faults \in BOOLEAN
    /\ NULL \notin Paths \cup Sids \cup Nodes \cup Files

VARIABLES
    keyring_list,       \* the nodes the list leads to
    live,               \* the allocated nodes
    path, refs, file,   \* of each node
    ids,                \* the identities in the memory of its file
    disk,               \* the identities in each file, {} before it exists
    serval_dna_ctx,     \* the keyring of the plugin's context
    leaked,             \* the contexts mdp-init keeps, by keyring
    keyring,            \* the library's global keyring file
    step,               \* the call the handler that runs has come to
    req,                \* that handler: its arguments, keyring and success
    client,             \* what each serval-client has read, and of which file
    lost,               \* the identities others have taken out of a file
    given,              \* the identities clients were told of, with the path of
                        \* the keyring they are from
    ret                 \* the path the last handler was given, and that of
                        \* the keyring it worked on

nodeVars == <<keyring_list, live, path, refs, file>>
others == <<client, lost>>
vars == <<nodeVars, ids, disk, serval_dna_ctx, leaked, keyring, step, req, others, given, ret>>

Ops == {"init", "sign", "mdp-init", "reload"}
Steps == {"open", "identity", "extract", "update", "close"}
Request == [op : Ops, path : Paths, sid : Sids \cup {NULL}, node : Nodes \cup {NULL}, ok : BOOLEAN]
NoRequest == [op |-> "init", path |-> Default, sid |-> NULL, node |-> NULL, ok |-> FALSE]

TypeOK ==
    /\ keyring_list \in Seq(Nodes) /\ live \subseteq Nodes
    /\ path \in [Nodes -> Paths \cup {NULL}]
    /\ refs \in [Nodes -> 0..(MaxLeaked + 2)]
    /\ file \in [Nodes -> Files \cup {NULL}]
    /\ ids \in [Nodes -> SUBSET Sids] /\ disk \in [Paths -> SUBSET Sids]
    /\ serval_dna_ctx \in Nodes \cup {NULL}
    /\ leaked \in [Nodes -> 0..MaxLeaked]
    /\ keyring \in Files \cup {NULL}
    /\ step \in Steps \cup {"idle", "down", "undefined"}
    /\ req \in Request
    /\ client \in [Clients -> [path : Paths, held : SUBSET Sids] \cup {NULL}]
    /\ lost \subseteq Paths \X Sids
    /\ given \subseteq Paths \X Sids
    /\ ret \in Paths \X (Paths \cup {NULL})

Fail == step' = "close" /\ UNCHANGED req
Succeed == step' = "close" /\ req' = [req EXCEPT !.ok = TRUE]

\* A freed node, or a null pointer for a file, is read.
Undefine == step' = "undefined" /\ UNCHANGED <<nodeVars, ids, disk, leaked, req, given>>

-----------------------------------------------------------------------------
(* The Serval library.                                                     *)

\* The identities clients can know of: those that are in some file, those
\* they were told of, and those that were lost.
Known == (UNION {disk[p] : p \in Paths}) \cup {g[2] : g \in given} \cup {l[2] : l \in lost}

\* What the processes of serval-client have read.
HeldByClients == UNION {client[c].held : c \in {d \in Clients : client[d] # NULL}}

\* Identities that were nowhere yet.
Fresh == Sids \ (Known \cup (UNION {ids[n] : n \in live}) \cup HeldByClients)

\* keyring_open and keyring_enter_pin, with keyring_seed for a file without
\* identities: what the file then holds.
Opened(p) == IF disk[p] # {} THEN {disk[p]} ELSE {{s} : s \in Fresh}

\* A seed that failed may have left its identity in memory.
Unseeded == {{}} \cup {{s} : s \in Fresh}

-----------------------------------------------------------------------------
(* The list of keyrings.                                                   *)

\* Mutant: the first keyring is taken.
FindFirst(p) == {n \in ToSet(keyring_list) : n = Head(keyring_list)}

_svl_keyring_find(p) ==
    LET hits == {i \in DOMAIN keyring_list : Alike(path[keyring_list[i]], p)}
    IN  {keyring_list[i] : i \in {j \in hits : \A k \in hits : j <= k}}

\* A keyring is unlinked from the one before it: the first one stays.
_svl_keyring_remove(n) ==
    LET at == {i \in 2..Len(keyring_list) : keyring_list[i] = n}
    IN  IF at = {} THEN keyring_list ELSE RemoveAt(keyring_list, CHOOSE i \in at : TRUE)

\* _svl_keyring_open: the file is read again; or keyring_open fails, and there
\* is none; or keyring_seed fails, and the file that was opened stays.
_svl_keyring_open(n, p, ok) ==
    LET unused == Files \ {file[m] : m \in live \ {n}}
    IN  \/ /\ ok
           /\ \E f \in unused, held \in Opened(p) :
                  /\ file' = [file EXCEPT ![n] = f]
                  /\ ids' = [ids EXCEPT ![n] = held]
                  /\ disk' = [disk EXCEPT ![p] = held]
        \/ /\ Faults /\ ~ok
           /\ file' = [file EXCEPT ![n] = NULL]
           /\ ids' = [ids EXCEPT ![n] = {}]
           /\ UNCHANGED disk
        \/ /\ Faults /\ ~ok /\ disk[p] = {}
           /\ \E f \in unused, held \in Unseeded :
                  file' = [file EXCEPT ![n] = f] /\ ids' = [ids EXCEPT ![n] = held]
           /\ UNCHANGED disk

\* cmd_serval_sign adds an identity when it was given none, and otherwise,
\* like mdp-init, takes the keys of the given one.
AfterOpen == IF req.op = "init" THEN "close" ELSE IF req.sid = NULL THEN "identity" ELSE "extract"

\* Mutant: a keyring that is shared is not counted.
OpenUncounted ==
    /\ step = "open"
    /\ step' = AfterOpen
    /\ IF _svl_keyring_find(req.path) # {}
       THEN \E n \in _svl_keyring_find(req.path) :
                req' = [req EXCEPT !.node = n] /\ UNCHANGED <<nodeVars, ids, disk>>
       ELSE \E n \in Nodes \ live :
                /\ live' = live \cup {n}
                /\ path' = [path EXCEPT ![n] = req.path]
                /\ refs' = [refs EXCEPT ![n] = 1]
                /\ keyring_list' = <<n>> \o keyring_list
                /\ req' = [req EXCEPT !.node = n, !.ok = (AfterOpen = "close")]
                /\ _svl_keyring_open(n, req.path, TRUE)
    /\ UNCHANGED <<serval_dna_ctx, leaked, keyring, others, given, ret>>

\* The context gets the keyring and the handler goes on.
UseKeyring(n) ==
    /\ step' = AfterOpen
    /\ req' = [req EXCEPT !.node = n, !.ok = (AfterOpen = "close")]

\* A keyring that is found is shared and counted.
OpenShared(n) ==
    /\ UseKeyring(n)
    /\ refs' = [refs EXCEPT ![n] = @ + 1]
    /\ UNCHANGED <<keyring_list, live, path, file, ids, disk>>

\* A new one is opened and put first; it is freed, without its file, when
\* that fails.
OpenNew(n) ==
    \/ /\ _svl_keyring_open(n, req.path, TRUE)
       /\ live' = live \cup {n}
       /\ path' = [path EXCEPT ![n] = req.path]
       /\ refs' = [refs EXCEPT ![n] = 1]
       /\ keyring_list' = <<n>> \o keyring_list
       /\ UseKeyring(n)
    \/ Faults /\ Fail /\ UNCHANGED <<nodeVars, ids, disk>>

\* The walk over the list reads the paths of its nodes.
serval_open_keyring ==
    /\ step = "open"
    /\ IF ~ ToSet(keyring_list) \subseteq live THEN Undefine
       ELSE \/ \E n \in _svl_keyring_find(req.path) : OpenShared(n)
            \/ _svl_keyring_find(req.path) = {} /\ \E n \in Nodes \ live : OpenNew(n)
    /\ UNCHANGED <<serval_dna_ctx, leaked, keyring, others, given, ret>>

-----------------------------------------------------------------------------
(* Identities.                                                             *)

\* Mutant: the new identity is not written to the file.
AddUncommitted ==
    /\ step = "identity"
    /\ \E s \in Fresh :
           /\ step' = "close" /\ req' = [req EXCEPT !.sid = s, !.ok = TRUE]
           /\ ids' = [ids EXCEPT ![req.node] = @ \cup {s}]
    /\ UNCHANGED <<nodeVars, disk, serval_dna_ctx, leaked, keyring, others, given, ret>>

\* serval_keyring_add_identity up to the commit, which writes all identities
\* in memory.  One that could not be written stays there.
serval_keyring_add_identity ==
    /\ step = "identity"
    /\ IF file[req.node] = NULL THEN Undefine
       ELSE /\ \E s \in Fresh :
                   /\ ids' = [ids EXCEPT ![req.node] = @ \cup {s}]
                   /\ \/ /\ step' = "update" /\ req' = [req EXCEPT !.sid = s]
                         /\ disk' = [disk EXCEPT ![path[req.node]] = ids'[req.node]]
                      \/ Faults /\ Fail /\ UNCHANGED disk
            /\ UNCHANGED <<nodeVars, leaked, given>>
    /\ UNCHANGED <<serval_dna_ctx, keyring, others, ret>>

\* serval_extract_sas: the keys of an identity of the keyring.
serval_extract_sas ==
    /\ step = "extract"
    /\ IF file[req.node] = NULL THEN Undefine
       ELSE /\ IF req.sid \in ids[req.node] THEN Succeed ELSE Fail
            /\ UNCHANGED <<nodeVars, ids, disk, leaked, given>>
    /\ UNCHANGED <<serval_dna_ctx, keyring, others, ret>>

\* Mutant: the library keeps the old file.
ReloadForgets ==
    /\ step = "update"
    /\ \E ok \in BOOLEAN :
           _svl_keyring_open(req.node, path[req.node], ok) /\ IF ok THEN Succeed ELSE Fail
    /\ UNCHANGED <<keyring_list, live, path, refs, serval_dna_ctx, leaked, keyring, others,
                  given, ret>>

\* serval_reload_keyring, and what the plugin's keyring and the command
\* reload add to it: the file is freed and opened again, and the library's
\* variable follows when that succeeds.  Without a file nothing is done.
serval_reload_keyring ==
    /\ step = "update"
    /\ \/ /\ file[req.node] = NULL
          /\ Fail
          /\ UNCHANGED <<file, ids, disk, keyring>>
       \/ \E ok \in BOOLEAN :
             /\ file[req.node] # NULL
             /\ _svl_keyring_open(req.node, path[req.node], ok)
             /\ IF ok THEN Succeed ELSE Fail
             /\ keyring' = IF ok /\ req.node = serval_dna_ctx THEN file'[req.node] ELSE keyring
    /\ UNCHANGED <<keyring_list, live, path, refs, serval_dna_ctx, leaked, others, given, ret>>

-----------------------------------------------------------------------------
(* The end of a handler.                                                   *)

\* Mutant: a context is given up twice, by the error path and by the handler.
CloseTwice(n) ==
    /\ refs' = [refs EXCEPT ![n] = @ - 2]
    /\ UNCHANGED <<keyring_list, live, file, path>>

\* The last context of a keyring frees it, and its file.
serval_close_keyring(n) ==
    LET last == refs[n] = 1
    IN  /\ refs' = [refs EXCEPT ![n] = @ - 1]
        /\ keyring_list' = IF last THEN _svl_keyring_remove(n) ELSE keyring_list
        /\ live' = IF last THEN live \ {n} ELSE live
        /\ file' = IF last THEN [file EXCEPT ![n] = NULL] ELSE file
        /\ UNCHANGED path

svl_crypto_ctx_free(n) == IF n # NULL THEN serval_close_keyring(n) ELSE UNCHANGED nodeVars

\* The context of a sign or a failed mdp-init is freed; a successful mdp-init,
\* and the plugin's start, keep theirs.  A client is told the identity its
\* signature was made with.
HandlerEnds ==
    /\ step = "close"
    /\ step' = "idle"
    /\ ret' = <<req.path, IF req.node = NULL THEN NULL ELSE path[req.node]>>
    /\ req' = NoRequest
    /\ given' = IF req.op = "sign" /\ req.ok
                THEN given \cup {<<path[req.node], req.sid>>} ELSE given
    /\ IF req.op = "sign" \/ (req.op = "mdp-init" /\ ~req.ok)
       THEN svl_crypto_ctx_free(req.node)
       ELSE UNCHANGED nodeVars
    /\ leaked' = IF req.op = "mdp-init" /\ req.ok THEN [leaked EXCEPT ![req.node] = @ + 1] ELSE leaked
    /\ serval_dna_ctx' = IF req.op = "init" /\ req.ok THEN req.node ELSE serval_dna_ctx
    /\ keyring' = IF req.op = "init" /\ req.ok THEN file[req.node] ELSE keyring
    /\ UNCHANGED <<ids, disk, others>>

-----------------------------------------------------------------------------
(* Handlers.                                                               *)

Call(op, p, sid, node, first) ==
    /\ step = "idle"
    /\ step' = first
    /\ req' = [op |-> op, path |-> p, sid |-> sid, node |-> node, ok |-> FALSE]
    /\ UNCHANGED <<nodeVars, ids, disk, serval_dna_ctx, leaked, keyring, others, given, ret>>

co_plugin_init == serval_dna_ctx = NULL /\ Call("init", Default, NULL, NULL, "open")

Started == serval_dna_ctx # NULL

\* sign, without an identity or with one.
cmd_serval_sign(p, sid) ==
    /\ Started
    /\ Call("sign", p, sid, NULL, "open")

olsrd_mdp_init(p, sid) ==
    /\ Started
    /\ \A n \in Nodes : leaked[n] < MaxLeaked
    /\ Call("mdp-init", p, sid, NULL, "open")

serval_daemon_handler == Started /\ Call("reload", Default, NULL, serval_dna_ctx, "update")

co_plugin_shutdown ==
    /\ step = "idle" /\ Started
    /\ svl_crypto_ctx_free(serval_dna_ctx)
    /\ serval_dna_ctx' = NULL
    /\ step' = "down"
    /\ UNCHANGED <<ids, disk, leaked, keyring, req, others, given, ret>>

-----------------------------------------------------------------------------
(* Other processes.  They know nothing of the daemon's, and no file is     *)
(* locked.                                                                 *)

pluginVars == <<nodeVars, ids, serval_dna_ctx, leaked, keyring, step, req, given, ret>>

\* A process writes what it has into the file, over what is there.
Overwrite(p, held) ==
    /\ disk' = [disk EXCEPT ![p] = held]
    /\ lost' = lost \cup ({p} \X (disk[p] \ held))
    /\ UNCHANGED pluginVars

\* serval-client opens a keyring: it reads the file.
ClientOpens(c, p) ==
    /\ client[c] = NULL
    /\ client' = [client EXCEPT ![c] = [path |-> p, held |-> disk[p]]]
    /\ UNCHANGED <<disk, lost, pluginVars>>

\* It seeds a keyring that had no identity, adds one (keyring add) or changes
\* one (keyring set did): it writes all it has read, and what is new.
ClientCommits(c) ==
    /\ client[c] # NULL
    /\ \E new \in Unseeded :
           LET held == client[c].held \cup new
           IN  held # {} /\ Overwrite(client[c].path, held)
    /\ client' = [client EXCEPT ![c] = NULL]

\* It ends without writing.
ClientQuits(c) ==
    /\ client[c] # NULL
    /\ client' = [client EXCEPT ![c] = NULL]
    /\ UNCHANGED <<disk, lost, pluginVars>>

\* A keyring file is emptied by hand.
Emptied(p) == disk[p] # {} /\ Overwrite(p, {}) /\ UNCHANGED client

Init ==
    /\ keyring_list = <<>> /\ live = {}
    /\ path = [n \in Nodes |-> NULL]
    /\ refs = [n \in Nodes |-> 0]
    /\ file = [n \in Nodes |-> NULL]
    /\ ids = [n \in Nodes |-> {}]
    /\ disk = [p \in Paths |-> {}]
    /\ serval_dna_ctx = NULL
    /\ leaked = [n \in Nodes |-> 0]
    /\ keyring = NULL
    /\ step = "idle"
    /\ req = NoRequest
    /\ client = [c \in Clients |-> NULL]
    /\ lost = {} /\ given = {}
    /\ ret = <<Default, NULL>>

Next ==
    \/ co_plugin_init \/ co_plugin_shutdown \/ serval_daemon_handler
    \/ \E p \in Paths, sid \in Known \cup {NULL} : cmd_serval_sign(p, sid)
    \/ \E p \in Paths, sid \in Known : olsrd_mdp_init(p, sid)
    \/ serval_open_keyring \/ serval_keyring_add_identity
    \/ serval_extract_sas \/ serval_reload_keyring \/ HandlerEnds
    \/ \E c \in Clients : (\E p \in Shared : ClientOpens(c, p)) \/ ClientCommits(c) \/ ClientQuits(c)
    \/ \E p \in Shared : Emptied(p)

Spec == Init /\ [][Next]_vars

-----------------------------------------------------------------------------
(* Properties.                                                             *)

\* Between handlers every keyring is counted once for each context that uses
\* it, and is allocated as long as there is one: no context is left with a
\* keyring another one has freed.
RefsAreContexts ==
    step = "idle" => \A n \in Nodes :
        LET contexts == leaked[n] + IF serval_dna_ctx = n THEN 1 ELSE 0
        IN  refs[n] = contexts /\ (n \in live <=> contexts > 0)

\* The plugin's keyring is never freed under it, and the library's global
\* variable points to its file as soon as it holds an identity that is saved,
\* except between a commit and the reload that follows it: no handler that shares
\* the keyring and replaces or gives up the file leaves the library with the old
\* one.  (A reload that fails does, but then the plugin's keyring has no file, or
\* one without any identity that is saved.)
GlobalIsLoaded ==
    step # "undefined" /\ Started =>
        LET n == serval_dna_ctx
        IN  /\ n \in live
            /\ file[n] # NULL /\ ids[n] \cap disk[path[n]] # {} /\ ~(step = "update" /\ req.node = n)
               => keyring = file[n]

\* keyring.c: "need to commit keyring or else new identity won't be saved".
\* An identity a client was told of is in the file of its keyring, whatever failed
\* since, unless another process has overwritten that file with what it had read
\* before, or it was emptied.
ReturnedIsSaved ==
    \A g \in given : g[2] \in disk[g[1]] \/ g \in lost

\* A handler that comes to its end has worked on a keyring whose path is alike
\* the one it was given, and on no other.
WorksOnItsOwn == ret[2] = NULL \/ Alike(ret[2], ret[1])

\* keyring.c: "otherwise, use specified keyring", which "will be created": the
\* search for it reads no keyring that has been freed.
UsesSpecified == step # "undefined"

=============================================================================
