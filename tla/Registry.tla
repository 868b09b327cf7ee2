------------------------------ MODULE Registry ------------------------------
(***************************************************************************)
(* The registry of commands (src/cmd.c), which finds the command a request *)
(* names.                                                                  *)
(*                                                                         *)
(* A name is a sequence of characters other than 0.  Commands are          *)
(* registered under their names without a terminator, and requests bring   *)
(* keys with one, which exec, usage and desc leave out again and the hooks *)
(* do not.  A command is its name.                                         *)
(***************************************************************************)
EXTENDS TreeOps

CONSTANTS
    Names,      \* names commands are registered under
    Asked       \* names requests ask for, the empty one among them

\* What is assumed of the constants.  No command has a name of one character:
\* it would also be the command of the empty name.
RegistryAssumption ==
    /\ \A n \in Asked : n \in Seq(Nat \ {0})
    /\ Names \cup {<<>>} \subseteq Asked
    /\ \A n \in Names : Len(n) > 1
    /\ NULL \notin Names

VARIABLES
    _cmds,      \* the tree of commands
    registered, \* the names whose registration was accepted
    outcome     \* the last call, its key and its result

registryVars == <<_cmds, registered, outcome>>

CommandNode == [splitchar : Nat, key : Names \cup {NULL}, value : Names \cup {NULL}]

RegistryType ==
    /\ \A p \in DOMAIN _cmds : _cmds[p] \in CommandNode /\ _cmds[p].key = _cmds[p].value
    /\ registered \subseteq Names

Terminated(n) == Append(n, 0)

\* A key without characters is compared with none: its search ends where it
\* starts, at the root.
Lookup(n) ==
    IF n # <<>> THEN ValueAt(_cmds, n)
    ELSE IF Root \in DOMAIN _cmds THEN _cmds[Root].value ELSE NULL

\* The daemon's own commands and those of plugins, in any order.  A name that
\* the characters of a registered one begin with has a node already, and is
\* refused as well.
co_cmd_register(n) ==
    IF HasNode(_cmds, n)
    THEN outcome' = <<"register", n, 0>> /\ UNCHANGED <<_cmds, registered>>
    ELSE /\ _cmds' = Inserted(_cmds, n, n)
         /\ registered' = registered \cup {n}
         /\ outcome' = <<"register", n, 1>>

\* co_cmd_hook and co_cmd_hook_str.  A key with a terminator is in no name.
\* The hooks of a command are made a tree, and appending to a list that is
\* one fails.
co_cmd_hook(n, terminated) ==
    LET found == ValueAt(_cmds, IF terminated THEN Terminated(n) ELSE n)
        appended == 0
    IN  /\ outcome' = <<"hook", n, IF found = NULL THEN 0 ELSE appended>>
        /\ UNCHANGED <<_cmds, registered>>

\* Mutant: the length of the key is taken as it is.
ExecTerminated(n) ==
    /\ outcome' = <<"exec", n, ValueAt(_cmds, Terminated(n))>>
    /\ UNCHANGED <<_cmds, registered>>

\* The command that runs, NULL if there is none.
co_cmd_exec(n) ==
    /\ outcome' = <<"exec", n, Lookup(n)>>
    /\ UNCHANGED <<_cmds, registered>>

RegistryInit ==
    /\ _cmds = EmptyTree
    /\ registered = {}
    /\ outcome = <<"init", NULL, 1>>

RegistryNext ==
    \/ \E n \in Names : co_cmd_register(n)
    \/ \E n \in Names, b \in BOOLEAN : co_cmd_hook(n, b)
    \/ \E n \in Asked : co_cmd_exec(n)

RegistrySpec == RegistryInit /\ [][RegistryNext]_registryVars

\* A request runs the command registered under exactly its key, whatever
\* other commands there are and in whatever order they were registered:
\* a key that is a part of a name, or goes beyond one, runs none.
ExecRunsNamed ==
    outcome[1] = "exec" =>
        outcome[3] = IF outcome[2] \in registered THEN outcome[2] ELSE NULL

=============================================================================
