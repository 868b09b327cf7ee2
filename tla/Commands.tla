------------------------------ MODULE Commands ------------------------------
(***************************************************************************)
(* Requests for the commands of the registry, as the dispatcher of         *)
(* src/daemon.c answers them, and the command help, which reads the whole  *)
(* registry.  A command's description and usage are pairs.                 *)
(***************************************************************************)
EXTENDS Registry, TreeWalks

CONSTANTS
    Help,       \* the name of the command help
    Informed    \* help is asked for registered commands only

\* What a response tells of a command: its key is all that is kept of the text.
Pairs == {"usage", "desc", "result", "error"} \X Asked

\* What is assumed of the constants.
CommandsAssumption ==
    /\ RegistryAssumption
    /\ Help \in Names
    /\ Informed \in BOOLEAN
    /\ LenMod \in Nat \ {0}
    /\ NULL \notin Pairs \cup {Terminated(n) : n \in Asked}

\* There are fewer commands than the length of a response can count.
FewCommands == IsFiniteSet(Names) /\ Cardinality(Names) < LenMod

VARIABLES
    reply,      \* the tree of the last response: its nodes and its length
    about       \* what it tells about: "all" commands, or "one"

commandVars == <<registryVars, reply, about>>

CommandsTypeOK ==
    /\ RegistryType
    /\ reply.len \in 0..(LenMod - 1)
    /\ \A p \in DOMAIN reply.tree : reply.tree[p].value \in Pairs \cup {NULL}
    /\ about \in {"all", "one"}

-----------------------------------------------------------------------------
(* Response trees.                                                         *)

EmptyReply == [tree |-> EmptyTree, len |-> 0]

\* co_tree_insert and co_tree_insert_unsafe, a null pointer as a value too:
\* the length counts it.
ReplyWith(r, k, v) ==
    IF HasNode(r.tree, k) THEN r
    ELSE [tree |-> Inserted(r.tree, k, v), len |-> (r.len + 1) % LenMod]

OnePair(v) == ReplyWith(EmptyReply, Terminated(<<>>), v)

-----------------------------------------------------------------------------
(* Commands.                                                               *)

co_cmd_desc(n) == IF Lookup(n) = NULL THEN NULL ELSE <<"desc", Lookup(n)>>

co_cmd_usage(n) == <<"usage", n>>

\* _cmd_help_i for every command, in the order of co_cmd_process: the reply's
\* keys are the names with their terminators.
HelpAll ==
    LET names == co_tree_process(_cmds)
        filled[n \in 0..Len(names)] ==
            IF n = 0 THEN EmptyReply
            ELSE ReplyWith(filled[n - 1], Terminated(names[n]), co_cmd_usage(names[n]))
    IN  filled[Len(names)]

\* help with a name: its description, or the null pointer.
HelpOf(n) == ReplyWith(EmptyReply, Terminated(n), co_cmd_desc(n))

\* CMD(help): without parameters, with a name, with something that is not a
\* string.
CMD_help ==
    \/ about' = "all" /\ reply' = HelpAll
    \/ \E n \in Asked :
           /\ Informed => n \in registered
           /\ about' = "one" /\ reply' = HelpOf(n)
    \/ about' = "one" /\ reply' = EmptyReply

\* Any other command: an answer with one pair.
CMD_other(n) == about' = "one" /\ reply' = OnePair(<<"result", n>>)

-----------------------------------------------------------------------------
\* A request: the answer of the command its key names, or an error.
dispatcher_cb(n) ==
    /\ co_cmd_exec(n)
    /\ IF Lookup(n) = NULL THEN about' = "one" /\ reply' = OnePair(<<"error", n>>)
       ELSE IF Lookup(n) = Help THEN CMD_help
       ELSE CMD_other(n)

CommandsInit == RegistryInit /\ reply = EmptyReply /\ about = "one"

CommandsNext ==
    \/ /\ \/ \E n \in Names : co_cmd_register(n)
          \/ \E n \in Names, b \in BOOLEAN : co_cmd_hook(n, b)
       /\ UNCHANGED <<reply, about>>
    \/ \E n \in Asked : dispatcher_cb(n)

CommandsSpec == CommandsInit /\ [][CommandsNext]_commandVars

-----------------------------------------------------------------------------
\* The client library refuses a response that does not hold as many pairs as
\* its length says (commotion.c: "Failed to parse response."); the daemon sends
\* none such, and help without parameters lists every registered command, once,
\* with its usage.
RepliesAreWhole ==
    LET listed == co_tree_process(reply.tree)
    IN  /\ reply.len = Len(listed)
        /\ outcome[1] = "exec" /\ about = "all" =>
               /\ ToSet(listed) = {co_cmd_usage(n) : n \in registered}
               /\ Len(listed) = Cardinality(registered)

=============================================================================
