----------------------------- MODULE Management -----------------------------
(***************************************************************************)
(* The management interface: the shell (src/client.c) calls commands of    *)
(* the daemon through libcommotion's co_call (src/commotion.c, src/msg.c)  *)
(* over a unix stream socket; the daemon's event loop polls its sockets    *)
(* (src/loop.c, src/socket.c) and dispatcher_cb (src/daemon.c) receives a  *)
(* request, executes it and sends the response.                            *)
(*                                                                         *)
(* A client process makes one connection in its life, so a client also     *)
(* stands for its connection and for the co_fd_t the daemon allocates when *)
(* it accepts it.  The kernel's part (the backlog, the two byte streams,   *)
(* the descriptor table, epoll) is modelled from how the code uses it.  A  *)
(* message is the number of the request it carries or answers; error and   *)
(* success responses take the same path and are not told apart.            *)
(***************************************************************************)
EXTENDS Integers, Sequences, FiniteSets, FiniteSetsExt

CONSTANTS
    Clients,    \* the client processes
    Files,      \* descriptor numbers the daemon has for this socket
    MaxCalls,   \* how many calls a client makes
    MaxStarts,  \* how often the daemon is started
    None        \* no client; also what a free descriptor refers to

ASSUME ManagementAssumption ==
    /\ Files \subseteq Nat /\ Files # {} /\ IsFiniteSet(Files)
    /\ MaxCalls \in Nat /\ MaxStarts \in Nat
    /\ None \notin Clients /\ "listen" \notin Clients /\ None # "listen"

VARIABLES
    \* The clients
    pc,         \* where the shell is: "new", "idle", "waiting", "gone"
    next_id,    \* msg.c's _id in the client's process
    response,   \* the shell's pointer between calls: "null", or "freed" (and not reset)
    failed,     \* history: some call of this client got no response
    answers,    \* history: the requests whose responses the client took
    \* The kernel
    backlog,    \* connections not yet accepted
    requests,   \* bytes on their way to the daemon
    responses,  \* bytes on their way to the client
    reset,      \* the client closed its end with unread bytes in it
    file,       \* the daemon's descriptor table
    \* The daemon
    phase,      \* "down", "loop", or "exec" while a command runs
    listening,  \* co_socket_t.listen (and .fd_registered) of the socket
    rfd_lst,    \* the co_fd_t of accepted connections
    fdnum,      \* co_fd_t.fd
    batch,      \* events epoll_wait returned that are still to be handled
    current,    \* the request being executed and the co_fd_t it came from
    executed,   \* history: the requests of each client that were executed
    starts      \* how often the daemon was started

clientVars == <<pc, next_id, response, failed, answers>>
streamVars == <<requests, responses, reset>>
daemonVars == <<phase, listening, rfd_lst, fdnum, batch, current, executed, starts>>
vars == <<clientVars, backlog, streamVars, file, daemonVars>>

Ids == 0..MaxCalls - 1

\* What an event's data.ptr can be: the listening co_fd_t or a connection's.
Pointers == Clients \cup {"listen"}

TypeOK ==
    /\ pc \in [Clients -> {"new", "idle", "waiting", "gone"}]
    /\ next_id \in [Clients -> 0..MaxCalls]
    /\ response \in [Clients -> {"null", "freed"}]
    /\ failed \in [Clients -> BOOLEAN]
    /\ answers \in [Clients -> Seq(Ids)]
    /\ backlog \in Seq(Clients)
    /\ requests \in [Clients -> Seq(Ids)]
    /\ responses \in [Clients -> Seq(Ids)]
    /\ reset \in [Clients -> BOOLEAN]
    /\ file \in [Files -> Pointers \cup {None}]
    /\ phase \in {"down", "loop", "exec"}
    /\ listening \in BOOLEAN
    /\ rfd_lst \subseteq Clients
    /\ fdnum \in [Clients -> Files]
    /\ batch \subseteq [ptr : Pointers, ev : {"in", "hup", "err"}]
    /\ current \in [ptr : Clients, id : Ids] \cup {None}
    /\ executed \in [Clients -> Seq(Ids)]
    /\ starts \in 0..MaxStarts

-----------------------------------------------------------------------------
(* The kernel.                                                             *)

Queued(c) == \E i \in 1..Len(backlog) : backlog[i] = c

\* The daemon's end of c's connection is open: accepted or to be accepted.
Connected(c) == Queued(c) \/ \E f \in Files : file[f] = c

\* close() of the descriptors that refer to the clients gone: what they had not
\* read is lost.  What they had sent can still be read by the client.
CloseEnds(gone) ==
    /\ requests' = [c \in Clients |-> IF c \in gone THEN <<>> ELSE requests[c]]
    /\ reset' = [c \in Clients |-> reset[c] /\ c \notin gone]

\* close(f).  Closing a descriptor also takes it out of epoll.
Close(f) ==
    /\ file' = [file EXCEPT ![f] = None]
    /\ CloseEnds({file[f]} \cap Clients)

\* The descriptor of socket->fd: the first one the daemon opens.
listen_fd == Min(Files)

\* Readiness of a connection as epoll reports it.  (EPOLLHUP and EPOLLERR only
\* come with EPOLLIN here: the end of the stream can be read.)
EventOf(c) ==
    CASE reset[c] -> "err"
      [] pc[c] = "gone" /\ ~reset[c] -> "hup"
      [] OTHER -> "in"

Ready ==
    {[ptr |-> c, ev |-> EventOf(c)] : c \in
        {d \in Clients : file[fdnum[d]] = d /\ (pc[d] = "gone" \/ requests[d] # <<>>)}}
    \cup IF file[listen_fd] = "listen" /\ backlog # <<>>
         THEN {[ptr |-> "listen", ev |-> "in"]} ELSE {}

-----------------------------------------------------------------------------
(* The shell and libcommotion.                                             *)

\* The process ends, by co_shutdown or killed, and its end is closed.
Leave(c) ==
    /\ pc' = [pc EXCEPT ![c] = "gone"]
    /\ reset' = [reset EXCEPT ![c] = responses[c] # <<>> /\ Connected(c)]
    /\ responses' = [responses EXCEPT ![c] = <<>>]

\* connect() succeeds as soon as the connection is in the backlog.
unix_socket_connect(c) ==
    /\ listening
    /\ backlog' = Append(backlog, c)

\* A failure to connect ends the process before it has done anything.
co_connect(c) ==
    /\ pc[c] = "new"
    /\ unix_socket_connect(c)
    /\ pc' = [pc EXCEPT ![c] = "idle"]
    /\ UNCHANGED <<next_id, response, failed, answers, streamVars, file, daemonVars>>

\* The request gets the number next_id[c].
co_request_alloc(c) == next_id' = [next_id EXCEPT ![c] = @ + 1]

\* co_call up to the receive: number the request and send it.  When the daemon
\* has closed the connection the process dies of SIGPIPE.
co_call(c) ==
    /\ pc[c] = "idle"
    /\ next_id[c] < MaxCalls
    /\ co_request_alloc(c)
    /\ \/ /\ Connected(c)
          /\ requests' = [requests EXCEPT ![c] = Append(@, next_id[c])]
          /\ pc' = [pc EXCEPT ![c] = "waiting"]
          /\ UNCHANGED <<responses, reset>>
       \/ /\ ~Connected(c)
          /\ Leave(c)
          /\ UNCHANGED requests
    /\ UNCHANGED <<response, failed, answers, backlog, file, daemonVars>>

\* The receive takes whatever has arrived and parses the first response in it,
\* whose id is not looked at.  The shell prints and frees the response.
Receive(c) ==
    /\ pc[c] = "waiting"
    /\ responses[c] # <<>>
    /\ answers' = [answers EXCEPT ![c] = Append(@, Head(responses[c]))]
    /\ responses' = [responses EXCEPT ![c] = <<>>]
    /\ response' = [response EXCEPT ![c] = "freed"]
    /\ pc' = [pc EXCEPT ![c] = "idle"]
    /\ UNCHANGED <<next_id, failed, backlog, requests, reset, file, daemonVars>>

\* Nothing arrives within SO_RCVTIMEO, or the daemon has closed the connection.
\* co_call leaves *response alone.  If that is NULL the shell gives up.  If it is
\* the response of an earlier call, the shell prints and frees it once more: it
\* may get away with it or die.
ReceiveFails(c) ==
    /\ pc[c] = "waiting"
    /\ responses[c] = <<>>
    /\ failed' = [failed EXCEPT ![c] = TRUE]
    /\ \/ Leave(c)
       \/ /\ response[c] = "freed"
          /\ pc' = [pc EXCEPT ![c] = "idle"]
          /\ UNCHANGED <<responses, reset>>
    /\ UNCHANGED <<next_id, response, answers, backlog, requests, file, daemonVars>>

\* End of input, or a signal.
Exit(c) ==
    /\ pc[c] \in {"idle", "waiting"}
    /\ Leave(c)
    /\ UNCHANGED <<next_id, response, failed, answers, backlog, requests, file, daemonVars>>

-----------------------------------------------------------------------------
(* The daemon.                                                             *)

\* main: create the socket, bind it and register it with the event loop.
unix_socket_bind ==
    /\ phase = "down"
    /\ starts < MaxStarts
    /\ starts' = starts + 1
    /\ phase' = "loop"
    /\ listening' = TRUE
    /\ file' = [file EXCEPT ![listen_fd] = "listen"]
    /\ UNCHANGED <<clientVars, backlog, streamVars, rfd_lst, fdnum, batch, current, executed>>

\* One call of epoll_wait that returns events.
EpollWait ==
    /\ phase = "loop" /\ batch = {}
    /\ Ready # {}
    /\ batch' = Ready
    /\ UNCHANGED <<clientVars, backlog, streamVars, file,
                   phase, listening, rfd_lst, fdnum, current, executed, starts>>

\* The event e of the batch is next.
Handle(e) ==
    /\ phase = "loop"
    /\ e \in batch
    /\ batch' = batch \ {e}

\* A faulty PollError that only skips the event.
PollErrorSkips(e) ==
    /\ Handle(e)
    /\ e.ev = "err"
    /\ UNCHANGED <<clientVars, backlog, streamVars, file,
                   phase, listening, rfd_lst, fdnum, current, executed, starts>>

\* EPOLLERR: the descriptor is closed; its co_fd_t stays in rfd_lst.
PollError(e) ==
    /\ Handle(e)
    /\ e.ev = "err"
    /\ Close(fdnum[e.ptr])
    /\ UNCHANGED <<clientVars, backlog, responses,
                   phase, listening, rfd_lst, fdnum, current, executed, starts>>

\* A faulty co_socket_hangup that does not close the descriptor.
HangupLeaks(c) ==
    /\ rfd_lst' = rfd_lst \ {c}
    /\ UNCHANGED <<file, requests, reset>>

\* An accepted connection is closed, and its co_fd_t freed.
co_socket_hangup(c) ==
    /\ rfd_lst' = rfd_lst \ {c}
    /\ Close(fdnum[c])

\* EPOLLHUP: whatever the client sent before it left is not read.
PollHangup(e) ==
    /\ Handle(e)
    /\ e.ev = "hup"
    /\ co_socket_hangup(e.ptr)
    /\ UNCHANGED <<clientVars, backlog, responses,
                   phase, listening, fdnum, current, executed, starts>>

FreeFiles == {f \in Files : file[f] = None}

\* A co_fd_t with descriptor f for the accepted connection c, put in rfd_lst.
co_fd_create(c, f) ==
    /\ fdnum' = [fdnum EXCEPT ![c] = f]
    /\ rfd_lst' = rfd_lst \cup {c}

\* dispatcher_cb on the listening descriptor: co_socket_receive accepts, and
\* co_loop_add_socket adds the connection to epoll.
Accept(e) ==
    /\ Handle(e)
    /\ e.ptr = "listen"
    /\ FreeFiles # {}
    /\ LET c == Head(backlog)
           f == Min(FreeFiles)
       IN  /\ file' = [file EXCEPT ![f] = c]
           /\ co_fd_create(c, f)
    /\ backlog' = Tail(backlog)
    /\ UNCHANGED <<clientVars, streamVars,
                   phase, listening, current, executed, starts>>

\* A faulty AcceptFails that does not check what accept returned.
AcceptUnchecked(e) ==
    /\ Handle(e)
    /\ e.ptr = "listen"
    /\ FreeFiles = {}
    /\ fdnum' = [fdnum EXCEPT ![Head(backlog)] = -1]
    /\ rfd_lst' = rfd_lst \cup {Head(backlog)}
    /\ UNCHANGED <<clientVars, backlog, streamVars, file,
                   phase, listening, current, executed, starts>>

\* co_socket_hangup of the listening descriptor: connections in the backlog are
\* reset, and the socket stays registered without being one that listens.
HangupListening ==
    /\ file' = [file EXCEPT ![listen_fd] = None]
    /\ listening' = FALSE
    /\ backlog' = <<>>
    /\ CloseEnds({c \in Clients : Queued(c)})

\* Out of descriptors accept fails, and dispatcher_cb hangs up what it was called
\* for: the listening descriptor.
AcceptFails(e) ==
    /\ Handle(e)
    /\ e.ptr = "listen"
    /\ FreeFiles = {}
    /\ HangupListening
    /\ UNCHANGED <<clientVars, responses,
                   phase, rfd_lst, fdnum, current, executed, starts>>

\* A faulty ReceiveRequest that leaves in the stream what it has read.
ReceivePeeks(e) ==
    /\ Handle(e)
    /\ e.ptr \in Clients /\ e.ev = "in"
    /\ listening
    /\ phase' = "exec"
    /\ current' = [ptr |-> e.ptr, id |-> Head(requests[e.ptr])]
    /\ executed' = [executed EXCEPT ![e.ptr] = Append(@, Head(requests[e.ptr]))]
    /\ UNCHANGED <<clientVars, backlog, streamVars, file,
                   listening, rfd_lst, fdnum, starts>>

\* A faulty ReceiveRequest that refuses, without an answer, more than one request.
ReceiveOnlyOne(e) ==
    /\ Handle(e)
    /\ e.ptr \in Clients /\ e.ev = "in"
    /\ listening
    /\ LET one == Len(requests[e.ptr]) = 1
           id == Head(requests[e.ptr])
       IN  /\ phase' = IF one THEN "exec" ELSE phase
           /\ current' = IF one THEN [ptr |-> e.ptr, id |-> id] ELSE current
           /\ executed' = IF one THEN [executed EXCEPT ![e.ptr] = Append(@, id)] ELSE executed
    /\ requests' = [requests EXCEPT ![e.ptr] = <<>>]
    /\ UNCHANGED <<clientVars, backlog, responses, reset, file,
                   listening, rfd_lst, fdnum, starts>>

\* dispatcher_cb on a connection, up to the command: one receive takes all that
\* has arrived, and the first request in it is executed.
ReceiveRequest(e) ==
    /\ Handle(e)
    /\ e.ptr \in Clients /\ e.ev = "in"
    /\ listening
    /\ phase' = "exec"
    /\ current' = [ptr |-> e.ptr, id |-> Head(requests[e.ptr])]
    /\ executed' = [executed EXCEPT ![e.ptr] = Append(@, Head(requests[e.ptr]))]
    /\ requests' = [requests EXCEPT ![e.ptr] = <<>>]
    /\ UNCHANGED <<clientVars, backlog, responses, reset, file,
                   listening, rfd_lst, fdnum, starts>>

\* Once the socket does not listen, co_socket_receive reads the closed listening
\* descriptor whatever connection it was called for; that fails, and
\* dispatcher_cb hangs up the connection.
ReceiveRequestFails(e) ==
    /\ Handle(e)
    /\ e.ptr \in Clients /\ e.ev = "in"
    /\ ~listening
    /\ co_socket_hangup(e.ptr)
    /\ UNCHANGED <<clientVars, backlog, responses,
                   phase, listening, fdnum, current, executed, starts>>

\* send() on the daemon's descriptor f; the error when the client has left is
\* ignored.
co_socket_send(f, id) ==
    LET to == file[f]
    IN  responses' = IF to \in Clients /\ pc[to] # "gone"
                     THEN [responses EXCEPT ![to] = Append(@, id)]
                     ELSE responses

\* The command is done: the response, with the number of the request, goes to the
\* descriptor the request came from.
SendResponse ==
    /\ phase = "exec"
    /\ phase' = "loop"
    /\ current' = None
    /\ co_socket_send(fdnum[current.ptr], current.id)
    /\ UNCHANGED <<clientVars, backlog, requests, reset, file,
                   listening, rfd_lst, fdnum, batch, executed, starts>>

\* The socket and all connections in rfd_lst are closed and freed.
co_socket_destroy ==
    /\ listening' = FALSE
    /\ rfd_lst' = {}
    /\ backlog' = <<>>
    /\ file' = [f \in Files |-> None]
    /\ CloseEnds(Clients)

\* A signal ends the loop after the batch, and the daemon with it.
co_loop_destroy ==
    /\ phase = "loop" /\ batch = {}
    /\ phase' = "down"
    /\ co_socket_destroy
    /\ UNCHANGED <<clientVars, responses, fdnum, batch, current, executed, starts>>

-----------------------------------------------------------------------------

Init ==
    /\ pc = [c \in Clients |-> "new"]
    /\ next_id = [c \in Clients |-> 0]
    /\ response = [c \in Clients |-> "null"]
    /\ failed = [c \in Clients |-> FALSE]
    /\ answers = [c \in Clients |-> <<>>]
    /\ backlog = <<>>
    /\ requests = [c \in Clients |-> <<>>]
    /\ responses = [c \in Clients |-> <<>>]
    /\ reset = [c \in Clients |-> FALSE]
    /\ file = [f \in Files |-> None]
    /\ phase = "down"
    /\ listening = FALSE
    /\ rfd_lst = {}
    /\ fdnum = [c \in Clients |-> listen_fd]
    /\ batch = {}
    /\ current = None
    /\ executed = [c \in Clients |-> <<>>]
    /\ starts = 0

ClientStep(c) ==
    co_connect(c) \/ co_call(c) \/ Receive(c) \/ ReceiveFails(c) \/ Exit(c)

HandleEvent(e) ==
    \/ PollError(e) \/ PollHangup(e)
    \/ Accept(e) \/ AcceptFails(e)
    \/ ReceiveRequest(e) \/ ReceiveRequestFails(e)

\* What the daemon's thread does by itself while the loop runs.
LoopStep == EpollWait \/ (\E e \in batch : HandleEvent(e)) \/ SendResponse

Next ==
    \/ \E c \in Clients : ClientStep(c)
    \/ unix_socket_bind \/ LoopStep \/ co_loop_destroy

Spec == Init /\ [][Next]_vars

\* The daemon's loop runs and its commands end; a client reads what has arrived
\* and notices that the connection is closed.  Nobody has to call, to leave, to
\* time out, or to start or stop the daemon.
FairSpec ==
    /\ Spec
    /\ WF_vars(LoopStep)
    /\ \A c \in Clients :
          WF_vars(Receive(c)) /\ WF_vars(~Connected(c) /\ ReceiveFails(c))

-----------------------------------------------------------------------------
(* Properties.                                                             *)

\* An event's data.ptr is a co_fd_t that is allocated, and the descriptor in it
\* is the one of its connection: for all events of the batch when they are
\* handled, and for the connection whose request is executed when the response is
\* sent.  Descriptor numbers are reused, handlers free co_fd_t's and close
\* descriptors, and co_fd_t's with closed descriptors stay in rfd_lst.
EventsAreValid ==
    /\ \A e \in batch : e.ptr \in Clients =>
          e.ptr \in rfd_lst /\ file[fdnum[e.ptr]] = e.ptr
    /\ phase = "exec" => current.ptr \in rfd_lst /\ file[fdnum[current.ptr]] = current.ptr

\* What the inductive argument needs besides.  An open connection is in rfd_lst
\* and its co_fd_t holds its descriptor.
OpenIsListed ==
    \A f \in Files, c \in Clients : file[f] = c => c \in rfd_lst /\ fdnum[c] = f

\* A descriptor has one event in a batch, and the cause of the event lasts until
\* it is handled: the daemon is the only reader.
BatchIsReadable ==
    /\ \A e1, e2 \in batch : e1.ptr = e2.ptr => e1 = e2
    /\ \A e \in batch :
          /\ e.ptr = "listen" => e.ev = "in" /\ listening /\ backlog # <<>>
          /\ e.ptr \in Clients /\ e.ev = "in" => requests[e.ptr] # <<>>

\* A client waits to be accepted once, and is not accepted before.
BacklogIsNew ==
    /\ \A i, j \in 1..Len(backlog) : backlog[i] = backlog[j] => i = j
    /\ \A i \in 1..Len(backlog) :
          pc[backlog[i]] # "new" /\ \A f \in Files : file[f] # backlog[i]
    /\ \A c \in Clients, f \in Files : pc[c] = "new" => file[f] # c

\* The listening descriptor is open while the socket listens, and only then are
\* there connections to accept; nothing is open when the daemon is down; a command
\* that runs has a request.
ControlOK ==
    /\ file[listen_fd] = IF listening THEN "listen" ELSE None
    /\ ~listening => backlog = <<>>
    /\ phase = "down" => ~listening /\ batch = {} /\ \A f \in Files : file[f] = None
    /\ phase = "exec" => current \in [ptr : Clients, id : Ids]

IInv ==
    TypeOK /\ EventsAreValid /\ OpenIsListed /\ BatchIsReadable /\ BacklogIsNew /\ ControlOK

\* co_call does not compare ids.  As long as none of a client's calls has failed,
\* each nevertheless got its own response.
AnswersMatch ==
    \A c \in Clients : ~failed[c] /\ pc[c] = "idle" =>
        answers[c] = [i \in 1..next_id[c] |-> i - 1]

\* Calls are executed at most once and in order, and answered in order by results
\* of executed calls, no result twice: although the streams are cut into messages
\* by the receives alone, and timed-out calls leave their answers behind.
Calls == INSTANCE CallService WITH made <- next_id

ImplementsCalls == Calls!Spec

\* A call returns even if it never times out: requests that are lost because an
\* earlier one was received with them leave an answer to that earlier one.
CallsReturn == \A c \in Clients : pc[c] = "waiting" ~> pc[c] # "waiting"

\* The daemon closes the connections of clients that have left, whether they
\* left answers unread (EPOLLERR) or not (EPOLLHUP).
LeftIsClosed == \A c \in Clients : pc[c] = "gone" ~> ~Connected(c)

\* daemon.c on SIGPIPE: "handle socket errors gracefully".  While the daemon
\* runs its management socket listens.
KeepsListening == phase # "down" => listening

\* client.c: CHECK(response != NULL, "Invalid response").  A call that got no
\* response ends the shell.
NoResponseEndsShell ==
    [][\A c \in Clients :
          failed'[c] /\ ~failed[c] => pc'[c] = "gone"]_vars

=============================================================================
