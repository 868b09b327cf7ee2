# commotiond in TLA+

A verification project for commotiond, the daemon of the Commotion mesh
networking project, and its client. It contains TLA+ models translated from the
C source, TLC configurations that check them on small instances, and proofs for
TLAPS. `PROJECT.json` maps every definition to the lines it models and lists
runs, mutants, hazards, findings and theorems.

## The system

commotiond is a single-threaded daemon around an event loop. A management
client connects to its unix socket, sends a command, and waits for the response.
Plugins (Serval's, for one) register commands, sockets and timers with the daemon.

| Component | State | Operations | Interaction |
|---|---|---|---|
| Event loop: timers (`loop.c`) | `timers` list, `pending`, `deadline`, `ptr` of each timer, `loop_exit` | `co_timer_create`, `co_loop_add_timer`, `co_loop_set_timer`, `co_loop_remove_timer`, firing | callbacks run inside the sweep and call the same operations |
| Event loop: sockets (`loop.c`, `socket.c`) | `sockets` list, epoll set, batch of events | add, remove, poll; accept, receive, send, hang up, destroy | `poll_cb` is `dispatcher_cb` or Serval's callback |
| Event loop: processes (`loop.c`, `process.c`) | `processes`, `loop_sigchld` | add, remove, reap on SIGCHLD | signal handler sets a flag |
| Dispatcher and commands (`daemon.c`, `cmd.c`) | command tree | `dispatcher_cb`, `co_cmd_exec`, the `CMD`s | commands change profiles and interfaces |
| Client library and shell (`commotion.c`, `msg.c`, `client.c`) | connection, `_id`, `response` | `co_connect`, `co_call`, `co_disconnect` | request and response streams with the daemon |
| Objects (`obj.c`, `list.c`, `tree.c`) | lists, ternary search trees | insert, delete, iterate, import, export | used by everything |
| Profiles (`profile.c`), interfaces (`iface.c`), node id (`id.c`) | trees, list, one word | set, get, save, new, delete; up, down | files, wpa_supplicant |
| Plugins (`plugin.c`) | plugin list | load, start, shut down | called by `main` |
| Serval: alarms (`serval-dna.c`) | `timer_alarms`, `sock_alarms` | `_schedule`, `_unschedule`, `_watch`, `_unwatch`, the two callbacks | timers and sockets of the loop |
| Serval: keyrings (`keyring.c`, `crypto.c`, `olsr_mdp.c`, `serval-client.c`) | `keyring_list` with counts, `serval_dna_ctx`, the library's `keyring` | open, close, add identity, extract keys, reload; sign, mdp-init | commands share keyrings; files shared with the processes of `serval-client` |
| Life cycle (`daemon.c`) | pid file | start-up order, shutdown order | everything |

What is hard here, and hard to test: callbacks that change the list a sweep is
working on; time comparisons that truncate; the clock being set back; late
answers after a timeout; several messages in one receive; clients that leave at
any moment; descriptor numbers that are closed and reused while pointers to them
live on; running out of descriptors; pointers mended at the ends of a list and nodes
pruned from a tree in every order; messages at the size of a buffer; commands repeated
on an interface that is already up; alarms known to two lists and the kernel at once;
children that exit together; keyrings shared by contexts of which some are never freed;
failures halfway through a reload or a start; forks and ioctls
that fail unnoticed; two programs that write one file. `PROJECT.json` lists these hazards at the
lines where they bite.

What makes each component correct: the timer list holds exactly the pending
timers in order and a sweep leaves none overdue; events refer to live objects
and answers go to the client that asked; a call is executed at most once, its
answer is not given twice, and it returns; lists and trees agree with sequences
and maps; profiles agree with their files; shutdown frees nothing that is used
later.

## Modules

| Module | Contents |
|---|---|
| `Timers` | the timer list and the phases of the main loop |
| `TimerService` | what the owners of timers rely on, without a list |
| `TimersProofs` | invariants of `Timers` and its refinement of `TimerService` |
| `Management` | shells, libcommotion, the kernel's streams, the daemon's polling and dispatching |
| `CallService` | what callers of commands rely on |
| `ManagementProofs` | validity of events and answers in `Management`, its refinement of `CallService` |
| `Profiles` | profiles in memory and in files, the commands that change them, restarts |
| `ProfileStore` | what the users of profiles rely on: maps from names to data |
| `ProfilesProofs` | unique names in `Profiles`, its refinement of `ProfileStore` |
| `ListLemmas` | facts about list operations and minima that the proofs share |
| `Containers` | the constants lists and trees have in common |
| `Lists` | the doubly linked list with its pointers, ownership and length |
| `ListService` | a sequence of objects, as users of lists know it |
| `ListsProofs` | the pointers of `Lists`, its refinement of `ListService` |
| `TreeOps` | search, insertion and deletion in the ternary search tree, as operators |
| `TreeWalks` | its traversals, as functions of nodes and of turns |
| `Trees` | a tree object under every sequence of its calls |
| `TreeEnum` | what the enumeration and the length of a tree promise |
| `KeyMap` | a map from keys to values, as users of trees know it |
| `TreesProofs` | search, insertion and deletion in `Trees`, its refinement of `KeyMap`; the enumeration of `TreeEnum`; what `Registry` finds and `Commands` replies |
| `Objects` | objects: strings, integers, lists and trees as values |
| `Messages` | packing of requests and responses into buffers and their import |
| `Registry` | the registry of commands, on top of `TreeOps` |
| `Commands` | the dispatcher's answers and `help`, on top of `Registry` and `TreeWalks` |
| `Addresses` | node ids from MAC addresses, generated IP addresses |
| `Interfaces` | the interface list and its commands, on top of `Addresses` |
| `Alarms` | the Serval plugin's alarms on the loop's timers and sockets |
| `Keyrings` | the Serval plugin's keyrings, identities and their files |
| `Serval` | the plugin as a whole: `Keyrings` and `Alarms` |
| `ServalProofs` | reference counts, keyrings and saved identities in `Keyrings`; timers, sockets and descriptors of alarms in `Alarms` |
| `Processes` | child processes and SIGCHLD |
| `Lifecycle` | start, plugins, shutdown and kills of several copies of the daemon |
| `Daemon` | the daemon around its loop: `Processes`, `Commands`, `Lifecycle`, `Interfaces` |
| `DaemonProofs` | process numbers in `Processes`, shutdown and readiness in `Lifecycle`, entries, `status` and generated addresses in `Interfaces` |
| `MCTimers`, `MCManagement` | small instances of `Timers` and `Management` for TLC |
| `MCData` | `Profiles`, `Lists`, `TreeEnum` and `Messages` on small instances |
| `MCDaemon` | `Daemon` on small instances |
| `MCServal` | `Serval` on small instances |

`Daemon`, `Serval` and `MCData` compose several modules, so that one run checks them. The
modules composed share no state, and each keeps its own specification. A behaviour chooses
a `part` in its first state, takes the steps of that part only, and leaves the variables of
the others alone. The reachable states are therefore the union of those of the parts, and
no interleaving is lost, because there is none between parts. Some MC modules have another
part for a module with other values of its constants; properties that hold for one of
them only name their part.

### Timers

The list is a sequence of timers; `live`, `pending`, `deadline`, `ptr` and
`timer_cb` are the fields of `co_timer_t`. `phase` is where the single thread is:
before the loop is created (`down`), after (`setup`), at the top of
`co_loop_start` (`top`), in `_co_loop_process_timers` (`timers`), in a timer's
callback (`callback`), polling or in a socket's callback (`poll`), after the loop
(`stopped`). User code runs in `setup`, `callback`, `poll` and `stopped`, and may
make any call there. A call that fails its checks changes nothing and is a
stuttering step, except `co_loop_set_timer`, which has already changed the
deadline and unlinked the timer.

Times are seconds and microseconds as in the code; `_co_loop_tv_diff` truncates
toward zero as C does, and `After` repeats the missing carry at exactly 1000000
microseconds. The clock is `CLOCK_REALTIME`: it advances at any time, also
between the two readings inside `co_loop_set_timer`, and may be stepped back
`MaxBack` times. Owners free a timer only when it is not pending, as the callers
in the repository do.

The poll ends at its timeout or earlier; a negative timeout would never expire,
which is why `PollExpires`, and not `EndPoll`, has fairness.

### Management

A client process makes one connection, so one element of `Clients` is the
process, its connection and the daemon's `co_fd_t` for it. `file` is the daemon's
descriptor table, `fdnum` the number stored in a `co_fd_t`; the two part company
when a descriptor is closed and its `co_fd_t` survives. A message is the number of
its request. A receive, on either side, takes all that has arrived and uses the
first message. The dispatcher is two steps, `ReceiveRequest` and `SendResponse`:
the command runs between them, and everything the clients do may happen then.
`batch` is what `epoll_wait` returned; events are handled one by one in any order
while clients go on.

The kernel is modelled from its use: sending before the connection is accepted,
`EPOLLHUP` after the peer has closed, `EPOLLERR` when it closed with unread data,
`SIGPIPE` for a client that writes to a closed connection (the daemon ignores it).
The receive timeout may strike whenever nothing has arrived, because nothing bounds
how long a command runs. When the shell uses its freed response the outcome is
either that it goes on or that it dies.

Abstracted: contents of commands, success versus error responses (they take the
same path through `co_call`), messages that do not fit a buffer, malformed
requests, other users of descriptor numbers.

### Profiles

`_profiles` is the list of named profiles, `_profile_global` the data of the global
one, `files` the profiles directory and `config` the configuration file. Data is a
function from the keys of the schemas to values; an import starts from the schemas'
defaults and takes those of the file's keys that the schemas know. A search returns
the first match. "global" is always one of the names: `set` and `save` take it for
the global profile, `new` and `delete` for a listed one.

Files hold what was exported, some of the keys (written by an administrator), or are
`Damaged`: cut short by a crash or a full file system, or exported with a value that
has a quote in it. The import refuses a damaged file, reads something else from it,
or crashes the daemon; a start that crashes leaves everything as it was and is a
stuttering step. `readdir` may return files in any order.

Abstracted: both schemas have the same keys; values that do not fit are failing
commands; the directory is the one the daemon was started with, and files in it can
be removed (the result of `remove` is ignored by the code).

### Lists and trees

`Lists` keeps the nodes with their `prev`, `next` and `value`, `_first`, `_last` and
`_len`, and of the hierarchical allocator what matters: the block an object is attached
to and what was freed. `NodeAt` is the walk along `next`. Every insertion function is an
action with its unsafe variant; `co_list_delete`, `co_list_element`, `co_list_contains`
and the freeing of the list are the others. `WellLinked` says that the pointers describe
one list in both directions, that the length is its length, and that an object attached
to a node is the object of that node; `ListService` is the sequence they implement.

`TreeOps` has the algorithms of `tree.c` that look up, insert or delete a key, on a tree
given as a function from paths (sequences of the links low, equal, high) to nodes. `Walk`
is the loop of `co_tree_find_node`, a function of the number of its turns: the character
it looks at is determined by the path, so a turn needs no more than that. The recursion
of an insertion ends in a chain of new nodes (`Chain`), that of a deletion frees nodes
while it returns (`Returned`). `TreeWalks` adds the traversals. `Visits` is the recursion
of `_co_tree_process_r`, a recursive function of the nodes, and `NextWalk` the one of
`_co_tree_next_r`, which calls itself for a neighbour and never returns to its caller: a
function of the number of its calls. `Trees` adds the object: length, ownership, what was
freed, and `calls`, which says from the start which of insertions, forced insertions and
deletions the program makes. Keys end in 0 as in the code; `retired` remembers deleted keys
for the abstract map, which may refuse them (a finding says why it must). `InsertsAreExact`,
in `TreeEnum`, is the property of trees into which keys are only inserted: the length is
the number of keys, only a key that is there is refused and no borrowed value is freed
(`InsertsCount`, in `Trees`), and `co_tree_next` enumerates the keys in order
(`NextEnumerates`).

### Messages

An object is a record; a wire is a sequence of tokens with a size in bytes, so that a
buffer can be exactly too small. Packing follows the code through `co_request_alloc`,
`co_response_alloc`, `co_list_raw` and `_co_tree_raw_r` with the wrap of a size below
zero; import follows `co_list_import`, `co_tree_import` and `co_obj_import`, whose
constructors convert. A step packs one message and the next imports it. `ArrivesWhole`
says that what is packed without an error fits the buffer, is whole, and is imported with
the same meaning.

### Commands

`Registry` is a tree of `TreeOps` whose keys have no terminator, while requests bring
one. `co_cmd_exec`, `co_cmd_usage`, `co_cmd_desc` and `co_cmd_hook` differ in what they
look up. The empty name ends its search at the root, where a command with a name of one
character would be; the daemon and its plugins have none, which `RegistryAssumption` says.
`ExecRunsNamed` is about what `co_cmd_exec` finds. `Commands` adds what the dispatcher
answers: `help` builds a response from the whole registry; other commands, the demo
plugin's `echo` among them, answer with a result of their own. Its steps are those of
`Registry`, with a reply. `Informed` restricts `help` to commands that are registered,
because of the finding about unknown ones. `RepliesAreWhole` says that a response holds as
many pairs as its length announces, without which the client refuses it, and that `help`
without parameters lists every registered command once; a length counts all commands only
if they are fewer than its width (`FewCommands`).

### Interfaces

`ifaces` is the list; `address` is what the kernel has, `networks` what wpa_supplicant
has; both are external. `applied` is the profile a device's address is of. The commands are
single steps: the daemon is sequential. `profiles` holds what `up` and `state` read of each
profile; `set` (one key at a time, towards the settings in `Edits`), `new` (the schema's
`Defaults`) and `delete` ask nobody whether an interface uses the profile.

`up` does not look at what `co_iface_set_ip` returns: in the model any of its ioctls may fail
(`SetIpFails`), and the device is then entered without the address. On a name that is no device
it always fails. On a wireless one as well: the test for wireless extensions leaves a protocol
name in the union of the request (`iface.c:64`), where the address family was. An `up` of a
profile that does not exist is undone by name.

Bytes keep their width; the generation of addresses works on four of them as the code does.
`Polite` is the use for which `StatusTells` is stated: callers bring up only what `status`
reports as down. Nodes without it, `impolite`, are checked too. Only the property `ip` of
`state` is modelled, and no property says what it answers, because what it generates again
need not be what was set (a finding).

### Alarms

An alarm is in `timer_alarms` and `timers`, or in `sock_alarms`, `sockets` and the
kernel's `epoll` set. Serval's own code is any sequence of the four functions from the
plugin's start and from callbacks; a callback may unwatch any alarm, the one it runs for
included, and the kernel may report input, hangups and errors of any polled socket.
Descriptor numbers are reused; `owner` is who opened them. `phase` becomes "undefined" when
the loop reads a socket that a callback has freed; nothing runs after that. Times are
microseconds for the clock and milliseconds for alarms; both checks of a deadline are in the
model. `Timers` has the order of the loop's timers; here they are a set, and any due timer
may fire.

`WatchedIsPolled` says what a hangup leaves of an alarm that Serval believes watched: its socket,
and that nothing else is polled for it. `ClosesItsOwn` says that unwatching closes a number
that is not the alarm's own only after a hangup (the finding about `socket.c:136`).

### Keyrings

A handler is cut into its calls: open, identity or extract, update, close. `refs`, `file`
and `path` are the fields of `svl_keyring`; `ids` is what the opened file holds in memory
and `disk` what it holds on disk; `given` is what clients were told, with the path of the
keyring. The contexts a successful `mdp-init` never frees are counted in `leaked`. `step`
becomes "undefined" when freed memory or a null file is read; nothing is promised after that.

`Faults` lets files fail to open, to be seeded or to be written. `_svl_keyring_open` fails in two
ways: if the file cannot be opened there is none, if it cannot be seeded the one that was
opened stays, with an identity that is only in memory, or none. A reload that fails either way
leaves the library's global keyring where it was, on freed memory. `Alike` is the comparison of
paths without case.

`serval-client` is a process of its own. It reads a keyring file (`ClientOpens`) and may write
what it has read and one new identity much later (`ClientCommits`), or nothing (`ClientQuits`);
no file is locked, so that a commit of either program overwrites what the other has
written since it read. A file may also be removed or emptied by hand (`Emptied`). The files
they use are `Shared`. What their writes take out of a file is remembered in `lost`.

`GlobalIsLoaded` says that the plugin's keyring stays allocated and that the library's global
variable is its file, during handlers too, as soon as that keyring holds an identity that is
saved; after a reload that failed it holds none. `ReturnedIsSaved` says that an identity a client
was told of is in the file of its keyring unless another process has overwritten it there; the
daemon's own commits and reloads lose none. `WorksOnItsOwn` says that a handler that ends has
worked on a keyring whose path is like the one it was given. `UsesSpecified`, that a handler
never reads a freed keyring, does not hold (a finding).

### Processes

`processes` is the loop's list, `child` the kernel's view of each process number, with
zombies until `waitpid`. Nobody looks at what `fork` returns: a failing one leaves -1 (`Failed`) in
a process that is listed like any other, and `kill` with -1 hits every child (`Hit`) and every
other process the daemon may signal. `restart` does not look at whether its start failed, which
leaves the old number when the pipes fail. The poll is two steps, because the signal may come
between the clearing of the flag and the wait. The walk that reaps a child destroys the list node
it stands on and reads it again: `phase` may become "undefined" there.

`PidsAreOwn` says that a listed number that is not -1 is that of an unreaped child and of one
process only. `ExitsAreNoticed` says that a child that is the only zombie when the flag is set is
reaped, or joined by another zombie, or the daemon has ended; two children that exit together
are not both reaped (a finding).

### Lifecycle

Each copy of the daemon goes through its stages; the socket's path and the pid file
outlive it. Loading goes through the plugin directory in any order. The walk of
`co_plugins_shutdown` reads a node it has freed: with `Kind` the memory still holds what
it held, without it the walk ends (`Lost`), or leaves the defined states. `Alone` starts a copy
only when none is alive. `RunningIsReady` says that a daemon that serves owns the path of
the management socket and has started the plugins it loaded; `ShutOnce` that
no plugin is shut down twice and, with `Kind`, that none is left out.

## Runs

| Run | Shows |
|---|---|
| `timers` | three timers, one shared `ptr`: `TypeOK`, `Chronological`, `NoneOverdueLeft`, and refinement of `TimerService` |
| `timers_live` | with refused deadlines and a clock stepped back: `PendingIsListed`, and `DueTimersFire` under fairness |
| `timers_early` | violation of `NotEarly`: a timer fires up to a millisecond early |
| `management` | `EventsAreValid`, `AnswersMatch`, refinement of `CallService` |
| `management_live` | two clients for one connection descriptor, so that accepts fail and numbers are reused: `TypeOK`, and `CallsReturn` and `LeftIsClosed` under fairness |
| `management_full` | violation of `KeepsListening`: a failing accept ends listening |
| `management_shell` | violation of `NoResponseEndsShell`: the freed response is used again |
| `data` | profiles: `NamesAreUnique`, refinement of `ProfileStore`; lists: `WellLinked`, refinement of `ListService`; trees: `NoDeadBranches`, refinement of `KeyMap`, and `InsertsAreExact` for the part `inserts`; messages: `ArrivesWhole` |
| `profiles_import` | violation of `ImportsAvailable`: a refused file hides the files after it |
| `daemon` | processes: `PidsAreOwn`, and `ExitsAreNoticed` under fairness; life cycle: `RunningIsReady`, `ShutOnce`; also with several copies at once, a plugin that refuses and freed memory that changed (`unkind`); interfaces: `UpIsListed`, `GeneratedFits`, also for callers that bring up what is up (`impolite`), and `StatusTells` for those that do not; commands: `ExecRunsNamed`, `RepliesAreWhole` |
| `serval` | keyrings, with failing files, and other processes that write the plugin's file, or (the part `others`) another one: `RefsAreContexts`, `GlobalIsLoaded`, `ReturnedIsSaved`, `WorksOnItsOwn`; alarms, with hangups, errors and any unwatching: `TimersMatch`, `ShutdownCloses`, `WatchedIsPolled`, `ClosesItsOwn` |
| `keyrings_other` | violation of `UsesSpecified`: a freed keyring stays at the head of the list |

The composed runs also check the type invariants of their modules, as `PartsTypeOK`.
The runs `profiles_import` and `keyrings_other` are the modules `MCData` and `MCServal`
with one part. The part `inserts` has one more value than `trees`, whose program makes all
calls.

Bounds. Three instants suffice for the timers because the comparison only knows
the same millisecond, a millisecond apart, across a second, and (in `timers_live`)
more than a second apart; three timers give a head, a middle and an end to
insert at and a second timer with the same `ptr`. Two clients with four calls
each reach a late answer taken by the next call, two requests in one receive, two
responses in one receive, a descriptor number reused by a second client, and a
restart with clients waiting; two clients for one descriptor add a failing
accept with a connection open and another in the backlog. Two names, one of them
"global", give a profile beside one in the double role, a save under another name,
and a directory with a damaged file before and after a good one; three values are the
default, another, and one that a file cannot hold.

Four objects in a list give a first, two inner and a last one, all permutations of
insertions and removals, and one borrowed object. The four keys of the trees differ at the
first or at a later character and one continues another, so low and high links occur
and a node of a deleted key is still needed by another; words of one letter are left out
because `co_tree_next` fails on them. Three values, one of them borrowed, are enough
where values are overwritten; where keys are only inserted there is one for each key.
Messages have up to three keys in every order of insertion, values of every kind, nested to
depth two, the longest string that survives, and, for requests, buffers from 18 to 40
bytes, which covers every token boundary of those that fit. Responses get a buffer with
room, because of the finding about packing trees.

Three processes with four numbers let a number be reused while two others are listed. Two copies
of the daemon and three plugin files, one of which does not load, give every interleaving of
start, kill, bind and shutdown. Three interface names, a wireless, a wired and a missing one,
and two entries (three for polite callers) give repeated ups; the bytes of MAC addresses and
node ids are at the edges of what the address arithmetic folds. Two profiles, one that generates
its address and one that has it given, are deleted and made again, and polite callers edit them
towards a gateway's settings, a key at a time; impolite ones have two node ids instead of the
edits. The names of commands begin alike, begin one another and branch low and high; requests
also ask for parts of names, longer ones, and the empty one.

Two keyrings give sharing and a head and a tail of the list; three paths, two of them alike,
give two spellings of one file; three identities a seeded and two added ones; each keyring may have
one leaked context. One `serval-client` and one file at a time give every overwriting between
two programs, of the plugin's own file and of another. Two descriptors for two alarms are
enough for a number to be reused while a socket still has it; two instants with deadlines
that are due, soon due or a day ahead give firing and waiting. None is close to 1000 ms
late, where the plugin's check and the loop's disagree.

Deadlock checking is off where the modelled system may end: the loop is ended by a signal,
the calls are bounded, a message was imported, a plugin or daemon was shut down or is in an
undefined state, no child is left.

Symmetry is used for timers, clients, list nodes, and the identities, nodes and files of
keyrings, which are only compared, and not in runs with liveness properties.

Fairness. `timers_live`: each step of the loop's thread, the return of callbacks,
the expiry of a poll with a timeout, and the passing of time; user code, signals
and setting the clock are free. `management_live`: the steps of the daemon's loop
(one fairness condition for the thread; a batch contains every ready descriptor,
so none is passed over), the clients' receives when something has arrived or the
connection is closed. The timeout is not fair: `CallsReturn` says that a call
returns without it. `daemon`: the two steps of the poll for children, which the loop makes
in every round while the flag is set; children need not exit.

## Findings

With a run:

* A timer may fire up to 999 microseconds before its deadline (`timers_early`).
* A failing `accept` makes `dispatcher_cb` hang up the listening descriptor; after
  that every connection is hung up at its next request, and no client can connect
  until the daemon is restarted (`management_full`).
* After a timeout the shell prints and frees the response of an earlier command
  (`management_shell`).
* A profile file that is refused ends the import of the profiles directory, without an
  error: profiles in later files are missing (`profiles_import`).
* `_svl_keyring_remove` leaves a freed keyring at the head of the list, and the next open
  reads it (`keyrings_other`).

Met while modelling, without a run. The models have this behaviour; where a property
does not hold because of it, the property or the constants of the run say so.

* `commotion.c:208`: once a call has timed out, the next call on the connection takes the
  late answer as its own. `AnswersMatch` is therefore stated for clients none of whose
  calls has failed, and `CallService` promises order and no duplicates, not that an answer
  is to the latest call.
* `list.c:421`, `list.c:453`: unsafe insertions at an end of a list that is not empty are
  safe ones, so that freeing the list frees the object ("without the list managing the
  item's memory", `list.h:125`).
* `tree.c:322`: overwriting a key counts it again; an exported tree then announces pairs it
  does not hold. `tree.c:277`: overwriting frees the old value, also one inserted as "not
  tied to tree" (`tree.h:121`). `tree.c:332`: a deletion keeps the node of a key that
  others hang on, and the insertion tests for the node: the key cannot be inserted again.
  `tree.c:881`: `co_tree_next` ends the enumeration at a key right below the root.
* `tree.c:604`: a pair that does not fit the buffer is dropped without an error, after its
  key was written. `tree.c:368`: a string of 255 characters is accepted by the setter and
  refused by the import. `obj.c:214`: integers of 64 bits are cut to 32.
* `daemon.c:195`, `daemon.c:292`: `up` generates addresses with type 0, `state` with type 1 for
  access points and wired interfaces. `daemon.c:194`: without `ipgen` `up` sets what is in a
  zeroed buffer, and `state` reports the profile's `ip`. `daemon.c:534`, `daemon.c:663`: a
  `set`, `new` or `nodeid` while a device is up changes what `state` reports and not what the
  device has. `daemon.c:211`: that an address was refused is not looked at, and `status` names
  the profile as if it were set; `iface.c:64` makes that the normal case for wireless devices.
  `daemon.c:166`: a second `up` adds a second entry, which survives a `down`. `iface.c:103`:
  REMOVE_NETWORK is sent without the number of the network, so none is ever removed.
* `serval-dna.c:176`: an alarm that is a second late passes the plugin's check and is refused by
  the loop's. `loop.c:194`: a callback that unwatches its own socket, as those of Serval's
  connections do, or one with an event pending, leaves the loop with freed memory.
  `socket.c:136`: after a hangup the number of the descriptor is closed a second time, whoever
  has it then.
* `loop.c:204`: one `waitpid` for each SIGCHLD flag; the second of two children that exit
  together waits for a third. `loop.c:156`: the node the walk stands on is freed under it.
  `process.c:109`: a failed `fork` is stored as -1, and a later stop or restart sends SIGKILL
  to every process (`process.c:140`). `process.c:152`: restart ignores whether its start failed.
* `daemon.c:836`: the pid file does not keep a second daemon from starting ("Ensure that there
  is only one copy"). `plugin.c:81`: a plugin that does not start keeps those after it from
  starting. `plugin.c:57`: the shutdown of plugins reads freed nodes.
* `daemon.c:129`: help on an unknown command sends a response the client cannot parse.
  `cmd.c:178`: hooks can never be attached.
* `keyring.c:79`: paths are compared without case: a request for one file works on the keyring
  of another that is open. `keyring.c:276`: a keyring whose reload failed to open its file is
  refused by every later reload. `keyring.c:278`: after a failed reload of the plugin's keyring the
  library's global one is freed memory. `keyring.c:120`: a new keyring that cannot be seeded is
  freed without its file.
* `keyring.c:227`, `serval-client.c:465`: the daemon and `serval-client` overwrite each other's
  identities, also one a client was told of.

## Proofs

`TimersProofs` proves, for any number of timers, any clock and any delays:

* `TimersInvariant`: `IInv`, the conjunction of the type invariant,
  `PendingIsListed`, `UniquePtrs`, `Chronological` and `ControlOK`, holds always.
  The parts need each other: removal by `ptr` deletes the right entry only because
  ptrs are distinct, and then `pending` stays exact; insertion keeps the order only
  because it was ordered.
* `TypeCorrect`, `ListHasPending`, `ListInOrder`: its parts as properties of the specification.
* `SweepComplete`: `NoneOverdueLeft`.
* `Implementation`: `Spec => ImplementsService`.

The heart of the argument is `LaterSplits`. "Later by a millisecond" is not
transitive, nor is its negation, so that an insertion that stops at the first later
entry need not give a sorted list. What holds is: if y is later than x and y is not
later than z, then x is not later than z. It follows from `LaterMeans`, which says
without division what the truncated difference decides, and gives both the order
after an insertion (`InsertKeepsSorted`) and the completeness of a sweep
(`NoneOverdue`).

Assumptions: `ClockAssumption` (the clock shows seconds and microseconds below a
million), `TimersAssumption` (delays are natural numbers; `NoTimer` is no timer).

`ManagementProofs` proves, for any set of clients and any number of descriptors,
calls and restarts:

* `ManagementInvariant`: `IInv` holds always. `EventsAreValid` is not inductive by
  itself. That an accepted connection gets a descriptor no event refers to needs
  `OpenIsListed` (an open descriptor is the one stored in its `co_fd_t`); that
  closing one connection leaves the other events of the batch alone needs
  `BatchIsReadable` (one event per descriptor, whose cause lasts until it is
  handled); that the connection taken from the backlog has no `co_fd_t` in use needs
  `BacklogIsNew`; that none of this touches the listening descriptor, and that a
  stopped daemon has nothing open, is `ControlOK`. TLC checks these parts first.
* `ManagementType`, `EventsStayValid`: the type invariant and `EventsAreValid`.
* `AnswersAlwaysMatch`: `AnswersMatch`. The argument is `OneAtATime`: a client none of whose
  calls failed has at most one call under way, its last one, in one place only (the
  stream to the daemon, the command that runs, the stream back). It rests on
  `EventsAreValid`: a response goes to the descriptor the request came from.
* `CallsImplemented`: `Spec => ImplementsCalls`, failed calls included. The argument is
  `InOrder`: what waits to be received is newer than all that was executed, only what was
  executed comes back, and what comes back is newer than all that was taken.

There is one lemma per action; the three handlers that close a connection share
`CloseStep`, and the client's actions share `ClientKeeps`. Assumption:
`ManagementAssumption` (descriptors are natural numbers, finitely many and at least
one, the bounds are natural numbers, and `None` and "listen" are no clients).

`ProfilesProofs` proves, for any names, keys and values, `UniqueNames`, `ProfilesType` and
`StoreImplemented`. The invariant is what the first two state: `new` checks the name against the
list, a `delete` closes the gap it leaves, and an import starts from an empty list and
a directory that names each file once (`ListingsType`). It makes the list a map from names
to data (`StoredFacts`), which is what the refinement of `ProfileStore` maps it to; that a
start without damaged files loads all of them needs that a listing without repetitions
that has as many entries as there are files names every file (`ListingsWhole`). Assumption:
`ProfilesAssumption` (finitely many names, "global" among them; the defaults can be
written to a file; `Absent` and `Damaged` are no contents).

`ListsProofs` proves, for any nodes, objects and unsafe insertions, and a length counter of
any width that can count the objects:

* `ListInvariant`: `Inv` holds always. `WellLinked` speaks of the walk, which is a recursive
  function of all pointers, and is no formula to do a step with. The invariant says instead
  that there is a sequence of nodes in which every pointer leads to the neighbour (`Chain`).
  A call changes the sequence as it changes the list: `LinkChain` inserts into it,
  `UnlinkChain` removes from it, at the ends as in the middle. `WalkIsChain` brings the two
  together: the walk stands on the nodes of the chain in their order. It is proved by the
  least position at which they differ, and needs no induction.
* The parts `Distinct` and `Owned` are needed: without repeated objects there are no more
  nodes than objects (`FewNodes`), so that the counter never wraps and is the number of
  nodes; and a new node at an address used before owns only its object because no object
  names a block that is gone.
* `ListsType` and `AlwaysWellLinked`: the type invariant and `WellLinked`.
* `ListsImplemented`: `Spec => ImplementsSequence`. Searching finds an object at its index in
  the sequence (`HasFacts`), so each call is the step of `ListService` of the same name, the
  value it returns included; an insertion at an end goes through the search for the first or
  last object (`EndFacts`), as in the code.

Assumption: `ListsAssumption` (finitely many nodes and objects, a node for each object and
a counter that exceeds their number; `NULL` is no address; `Other` is no node). `MCData`
assumes it of its instance.

`TreesProofs` proves, for any keys that end in 0 and have no other 0, any values, any
subset of the calls and a counter of any width:

* `TreesInvariant`: `Inv` holds always. The way of a key through a tree (`OnWay`) is a path at
  each of whose nodes the search for the key takes the link the path takes. `FindFacts`
  brings `co_tree_find_node` and ways together: the search ends where the way of its key
  ends (`EndsAt`), whatever the shape of the tree. There is such an end because a way is no
  longer than the number of nodes it passes, and the longest one ends (`SomeEnd`): this
  takes the place of an induction. `SameKey` says that two keys that end at one node are
  the same, for the equal links on the path spell the key.
* `Sound` is that a node with a key is where the way of that key ends, and that a node with
  a value, or for the terminator, has one. Without terminators a key that begins another
  would end at a node that has none, and its insertion would be refused. An insertion adds a
  chain below the end of a way that leaves the tree and changes no link that was there
  (`EndsFrame`), so no other key's way changes. `Alive` is that no leaf is without a value.
  A deletion frees nodes from the end of the way upwards, only leaves without a value and
  none after the first it keeps, so none that another way passes. `Cleared` is that a key
  whose node has no value is one the program has deleted: the abstract map may refuse it.
* `TreesType` and `AlwaysNoDeadBranches`: the type invariant and `NoDeadBranches`.
* `TreesImplemented`: `Spec => ImplementsMap`. What a call does at the end of its key's way is
  a change of the map at this key alone (`PutMap`, `CutMap`), and what it finds there is
  what the map has.
* `InsertsAlwaysCount`: `InsertsCount`, if the only calls are insertions and the keys are
  fewer than the counter counts. A forced insertion counts a key a second time and frees
  its old value, a deleted key may be refused, and a full counter starts again at 0.
  `InsertsInv` adds to `Inv` that no key is retired and no borrowed value is owned.
* `InsertsAlwaysExact`: `InsertsAreExact`, if keys have two letters or more besides (a
  finding: `co_tree_next` ends at a key right below the root). At a node reached from its
  parent or from a child, the nodes `ToCome` are those below the links that are not done
  and those right of the way back to the root. `StepFacts` is the argument: a step that
  does not return a key changes neither which nodes with a key are to come, nor ends while
  there are some, and makes twice their number plus the depth smaller. The walk therefore
  ends within the steps `NextWalk` gives it (`WalkFacts`), at the first key to come. That it
  is the next one in alphabetical order is `KeysInOrder`: the ways of two keys part at one
  link, and the links are ordered as the characters they stand for. `ListedFacts` counts
  the keys ahead, one less after each call.
* `ExecAlwaysNamed`: `ExecRunsNamed` of `Registry`, whose tree has no terminators. `Named` is
  that a node with a command is where the way of its name ends. A name that begins
  another may be refused, but what a search finds is the command of its key (`SameKey`),
  and a command that is registered is found (`FindFacts`). The invariant, `RegistryInv`,
  adds that the names in the tree are those whose registration was accepted. The theorem
  speaks of the registry alone; `Commands` makes the same calls to it.
* `RepliesAlwaysWhole`: `RepliesAreWhole` of `Commands`, for `FewCommands` and `Informed`.
  `VisitsFacts` says that the recursion of `_co_tree_process_r` at a node comes to each node
  with a value at or below it once. It is proved for the deepest node at which it could fail,
  whose subtrees are deeper and do not meet. So `co_tree_process` hands out as many values
  as there are nodes with one (`ProcessFacts`). A response is built by insertions only: each
  adds one such node and one to the length (`ReplyGrows`), and the keys `help` inserts, the
  names with a terminator, are new because names differ (`HelpFacts`).
* `CommandsType`: the types of the registry and of every response, for any commands and
  requests, also those `RepliesAlwaysWhole` excludes.

Assumptions: `TreesAssumption`, which `MCData` assumes of its constants, `RegistryAssumption`
(names have two characters or more and no 0) and `CommandsAssumption`, which `MCDaemon`
assumes of its own.

`ServalProofs` proves of `Keyrings`, for any paths and their comparison, identities, nodes
and files, for failing files, and for any number of other processes that write any of them:

* `CountsAreRight` and `KeyringsType`. Between handlers a count is the number of leaked
  contexts plus the plugin's own. Inside one the handler's context counts as well, which
  is `Counted`; that it has one, and which, at each of its steps is `Running`; that a
  keyring is allocated exactly while it is counted is `LiveIsCounted`. The bound on the
  counts in the type invariant follows from these, not the other way round.
* `GlobalLoaded`: `GlobalIsLoaded`. The close of a handler that used the plugin's keyring
  does not free it because the plugin's own context is counted, so this rests on
  `CountsAreRight`. The library's global keyring is the plugin's file (`Loaded`) until a reload
  fails. From then on the plugin's keyring has no file, and is refused by every reload, or it
  is `Dark`: nothing in its memory is in its file or was read by another process, which could
  write it there. It comes out of that only by a commit, which its reload follows.
* `WorksOnGiven`: `WorksOnItsOwn`. `Placed` says that every open keyring is in the list, that
  no two have paths that are alike, and that the keyring of the handler and that of the plugin
  have paths like theirs. A search that finds nothing has then met none that could have been
  found (`FindsAll`), so that a new keyring is the only one of its path.
* `AnswersAreSaved`: `ReturnedIsSaved`. A commit writes the memory of a keyring over its file, so
  this memory must have every identity that clients were told of from the keyring and that is not
  lost (`Covers`). It has when the file is read (`OpenedCovers`), and nothing else takes
  identities out of it (`CoversKept`). A client may ask for an identity it knows of from anywhere;
  what a handler answers with is one of the keyring's own file, because an identity that was in
  a file, in a memory or in another process belongs to one path only (`OneFile`), and what clients
  know of was in some file (`KnownIsSafe`). `Answers` says where the identity of a signing handler is
  at each step.

Assumption: `KeyringsAssumption` (the default path and the shared ones are paths, the comparison
of paths is reflexive and symmetric, `NULL` is none of the others). Two paths that are not
alike are two files.

Of `Alarms`, which is the instance `A` in `Serval`, it proves, for any alarms, descriptors,
sockets and times:

* `AlarmsType` and `TimersAlwaysMatch`, from `Base`: the types, `TimersMatch`, and that no
  alarm is twice in the plugin's list of sockets.
* `ShutdownAlwaysCloses`: `ShutdownCloses`. It adds `Held`, that the loop keeps a socket
  with the right descriptor for every alarm that is believed watched. `Held` survives
  hangups and kernel errors: these close descriptors behind the plugin's back, so that a
  socket may stand for a closed descriptor or one that was given to somebody else, but no
  alarm is left without one.
* `AlwaysPolled` and `AlwaysClosesItsOwn`: `WatchedIsPolled` and `ClosesItsOwn`, from
  `Exact`: the loop has at most one socket for a number, and that of an alarm that is believed
  watched is polled exactly while the number is the alarm's. Callbacks may unwatch what they like and
  the kernel may report what it likes; a hangup closes the descriptor and ends the polling in
  one step, and a number that is opened again is added to no old socket.

The steps of `Serval` are steps of one part and stutters of the other (`PartsRun`), so that
what holds of the parts holds of the plugin: `ServalType`, `ServalTimersMatch`,
`ServalShutdownCloses`, `ServalAlwaysPolled` and `ServalClosesItsOwn` are the properties the
run checks.

Assumption: `AlarmsAssumption` (times are natural numbers, the markers for no alarm, no
descriptor and no socket are none). `Alarms` is used as an instance, so its assumption is a
definition that `MCServal` assumes and the theorems have as a hypothesis; the same holds of
the assumptions of `Lifecycle` and `Interfaces`, and `MCDaemon`.

`DaemonProofs` treats the parts of `Daemon` one by one, for they share no state, and concludes
(`PartsRun`) that what holds of a part holds of the daemon: `DaemonIsReady`, `DaemonShutsOnce`,
`DaemonListsUps`, `DaemonGeneratesFits` and `DaemonStatusTells`.

Of `Processes` it proves, for any processes and process numbers, `ProcessesType` and
`OwnPids`. `PidsAreOwn` is inductive together with the type invariant: a number is handed
out only while no child has it, and leaves the list in the step that reaps the child; a `kill`,
of one child or of all, leaves zombies, which keep their numbers. A restart whose fork or
pipes fail is a case of its own.
Assumption: `ProcessesAssumption` (`Failed` and `NoPid` are two values and no process numbers).

Of `Lifecycle` it proves, for any number of copies of the daemon and any plugins:

* `LifecycleType` and `ShutsOnce`. What is known of one copy, `Proper`, is a predicate of
  its own variables: which plugins are listed and which shut down at each stage. A step
  of one copy changes only shared files and its own variables, so that one lemma disposes
  of all the others.
* `AlwaysReady`: `RunningIsReady`, if copies run one at a time (`Alone`) and no plugin
  refuses to start. It adds `Single`: at most one copy is alive, and from its bind on the
  management socket's path is its own, whatever a killed predecessor left behind.

Assumption: `LifecycleAssumption` (plugins that start can be loaded; `NULL` and `Lost` are
neither copies nor plugins).

Of `Interfaces` it proves, for any devices, names, profiles and MAC addresses:

* `InterfacesType` and `UpAlwaysListed`: `UpIsListed` is inductive with the types. An `up`
  that fails takes out the first entry of the name, which may be an older one, but then the
  device is not up any more either.
* `GeneratedAlwaysFits`: `GeneratedFits`. A byte is the sum of its eight bits, and a
  conjunction, a complement and a disjunction do with each bit what they should (`AndBits`,
  `NotBits`, `OrBits`; `SameBits` makes equal bits equal bytes). From these `GenerateFacts`
  concludes what `co_generate_ip` makes of an address, a mask and a node id.
* `StatusAlwaysTells`: `StatusTells`, if callers bring up only what `status` reports as down
  (`Polite`). `Configured` says that the list has one entry for each name, that every entry has the
  profile its device's address is of, if it has one, and that a device with an address has an
  entry. A second `up` of a device breaks it (`daemon.c:166` above); a refused address, an edit or
  a failing `up` does not.

Assumption: `InterfacesAssumption` (wireless devices are devices, `NULL` is neither a profile nor
settings, the settings at the start, of the schema and after an edit are of their type, with
addresses and masks of four bytes; node ids are four bytes, and a MAC address is six).

`ListLemmas` has the facts the proofs share: what inserting into, removing from and
appending to a sequence makes of its elements, its length and the set of what is in it, and
that a least element of a set of natural numbers is there (`MinFacts`).

Only model-checked:

* The liveness properties and the violations: fairness is beyond the prover, and a violation
  is one behaviour.
* `ArrivesWhole`: objects nest, so that what packing and import make of them is an induction
  over data, with operators that are RECURSIVE.
* `PartsTypeOK` of `data` and `daemon` as one formula. Its parts are proved of their modules:
  `ProfilesType`, `ListsType`, `TreesType`; `ProcessesType`, `CommandsType`, `LifecycleType`,
  `InterfacesType`.

## Not modelled

* Printing of objects, JSON output, logging, option parsing, the shell's line editing:
  formatting without state.
* Getters of profiles, `get`, `profiles` and `plugins`: they only read.
* ssid, bssid, frequency, mode and DNS settings of an interface: output to the kernel, to
  wpa_supplicant and to a file that nothing reads back. The OpenWrt build, which hands
  them to other programs.
* Cryptography, packet formats, requests for SAS keys over the network, and `verify`: their
  correctness is that of the Serval library and of libsodium.
* `plugins/olsrd`: it is not part of the build and includes a list header that is not in the
  repository.
* Malformed requests, failing allocations, and failures of `epoll_ctl`.
* The pointers `main` keeps into the global profile.
* Two paths of one keyring file that are not alike, such as a link to it; and identities that
  need a PIN.
* What `kill` with -1 does to processes that are not the daemon's.
* Vendored code (`halloc`, `jsmn`, `md5`), tests, packaging.

## Plan

The modules of the plan are written, and the safety properties of all modules without
recursive operators are proved. What is left:

* `Messages`: `ArrivesWhole` for messages of one level, with the folds of the library in
  place of recursion.
