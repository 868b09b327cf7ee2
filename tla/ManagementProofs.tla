-------------------------- MODULE ManagementProofs --------------------------
(***************************************************************************)
(* Proofs about Management, for any set of clients, any number of          *)
(* descriptors, calls and restarts: events and descriptors stay valid, and *)
(* a client whose calls all returned got its own answers.                  *)
(***************************************************************************)
EXTENDS Management, SequenceTheorems, WellFoundedInduction, TLAPS

\* The lowest descriptor, as the kernel hands it out, is one of those it is
\* chosen from.
LEMMA MinIn ==
  ASSUME NEW S, S \subseteq Files, S # {}
  PROVE  Min(S) \in S
<1>1. S \subseteq Nat
  BY ManagementAssumption
<1>2. PICK x \in S : \A y \in S : ~(<<y, x>> \in OpToRel(<, Nat))
  BY <1>1, NatLessThanWellFounded, WFMin, Zenon
<1>3. \A y \in S : x =< y
  <2> SUFFICES ASSUME NEW y \in S PROVE x =< y
    OBVIOUS
  <2>1. ~(y < x)
    BY <1>1, <1>2 DEF OpToRel
  <2> QED  BY <1>1, <2>1
<1> QED  BY <1>3 DEF Min

\* The listening descriptor is one of the daemon's.
LEMMA ListenFd == listen_fd \in Files
BY MinIn, ManagementAssumption DEF listen_fd

\* What Append makes of a stream or of the backlog.
LEMMA AppendFacts ==
  ASSUME NEW S, NEW s \in Seq(S), NEW e \in S
  PROVE  /\ Append(s, e) \in Seq(S) /\ Append(s, e) # <<>>
         /\ Len(s) \in Nat /\ Len(Append(s, e)) = Len(s) + 1
         /\ Append(s, e)[Len(s) + 1] = e
         /\ \A i \in 1..Len(s) : Append(s, e)[i] = s[i]
<1>1. Len(Append(s, e)) = Len(s) + 1 /\ Len(s) \in Nat /\ Append(s, e) \in Seq(S)
  OBVIOUS
<1>2. Len(<<>>) = 0
  OBVIOUS
<1>3. Append(s, e) # <<>>
  BY <1>1, <1>2
<1> QED  BY <1>1, <1>3

\* Initially nothing is connected.
THEOREM InitIInv == Init => IInv
<1> SUFFICES ASSUME Init PROVE IInv
  OBVIOUS
<1>1. TypeOK
  <2>1. /\ pc \in [Clients -> {"new", "idle", "waiting", "gone"}]
        /\ next_id \in [Clients -> 0..MaxCalls]
        /\ response \in [Clients -> {"null", "freed"}]
        /\ failed \in [Clients -> BOOLEAN] /\ reset \in [Clients -> BOOLEAN]
    BY ManagementAssumption DEF Init
  <2>2. /\ answers \in [Clients -> Seq(Ids)] /\ executed \in [Clients -> Seq(Ids)]
        /\ requests \in [Clients -> Seq(Ids)] /\ responses \in [Clients -> Seq(Ids)]
        /\ backlog \in Seq(Clients)
    BY DEF Init
  <2>3. /\ file \in [Files -> Pointers \cup {None}] /\ fdnum \in [Clients -> Files]
        /\ rfd_lst \subseteq Clients /\ starts \in 0..MaxStarts
    BY ListenFd, ManagementAssumption DEF Init
  <2>4. /\ phase \in {"down", "loop", "exec"} /\ listening \in BOOLEAN
    BY DEF Init
  <2>5. /\ batch \subseteq [ptr : Pointers, ev : {"in", "hup", "err"}]
        /\ current \in [ptr : Clients, id : Ids] \cup {None}
    BY DEF Init
  <2> QED  BY <2>1, <2>2, <2>3, <2>4, <2>5 DEF TypeOK
<1>2. EventsAreValid /\ OpenIsListed /\ BatchIsReadable
  BY ManagementAssumption DEF Init, EventsAreValid, OpenIsListed, BatchIsReadable
<1>3. BacklogIsNew /\ ControlOK
  BY ListenFd, ManagementAssumption DEF Init, BacklogIsNew, ControlOK
<1> QED  BY <1>1, <1>2, <1>3 DEF IInv

-----------------------------------------------------------------------------
(* Clients.                                                                *)

\* A client that is connected, or was, can do nothing to the daemon's descriptors
\* and events; it only adds to its stream.
LEMMA ClientKeeps ==
  ASSUME IInv, TypeOK', UNCHANGED <<backlog, file, daemonVars>>,
         \A d \in Clients : requests[d] # <<>> => requests'[d] # <<>>,
         \A d \in Clients : pc'[d] = "new" <=> pc[d] = "new"
  PROVE  IInv'
<1>1. UNCHANGED <<phase, listening, rfd_lst, fdnum, batch, current, executed, starts>>
  BY DEF daemonVars
<1>2. EventsAreValid' /\ OpenIsListed'
  BY <1>1 DEF IInv, EventsAreValid, OpenIsListed
<1>3. BatchIsReadable'
  BY <1>1 DEF IInv, BatchIsReadable
<1>4. BacklogIsNew'
  <2>1. \A i \in 1..Len(backlog) : backlog[i] \in Clients
    BY DEF IInv, TypeOK
  <2> QED  BY <2>1 DEF IInv, BacklogIsNew
<1>5. ControlOK'
  BY <1>1 DEF IInv, ControlOK, listen_fd
<1> QED  BY <1>2, <1>3, <1>4, <1>5 DEF IInv

\* The daemon's variables keep their types when nothing is written to them.
LEMMA DaemonType ==
  ASSUME TypeOK, UNCHANGED <<file, daemonVars>>,
         pc' \in [Clients -> {"new", "idle", "waiting", "gone"}],
         next_id' \in [Clients -> 0..MaxCalls],
         response' \in [Clients -> {"null", "freed"}],
         failed' \in [Clients -> BOOLEAN],
         answers' \in [Clients -> Seq(Ids)],
         backlog' \in Seq(Clients),
         requests' \in [Clients -> Seq(Ids)],
         responses' \in [Clients -> Seq(Ids)],
         reset' \in [Clients -> BOOLEAN]
  PROVE  TypeOK'
BY DEF TypeOK, daemonVars

\* The end of a client process.
LEMMA LeaveFacts ==
  ASSUME TypeOK, NEW c \in Clients, pc[c] # "new", Leave(c)
  PROVE  /\ pc' \in [Clients -> {"new", "idle", "waiting", "gone"}]
         /\ responses' \in [Clients -> Seq(Ids)]
         /\ reset' \in [Clients -> BOOLEAN]
         /\ \A d \in Clients : pc'[d] = "new" <=> pc[d] = "new"
<1>1. (responses[c] # <<>> /\ Connected(c)) \in BOOLEAN
  BY DEF Connected
<1>2. reset' \in [Clients -> BOOLEAN]
  BY <1>1 DEF TypeOK, Leave
<1> QED  BY <1>2 DEF TypeOK, Leave

\* co_call sends at the end of the stream.
LEMMA CallStep ==
  ASSUME IInv, NEW c \in Clients, co_call(c)
  PROVE  IInv'
<1>1. next_id[c] \in Ids /\ next_id' \in [Clients -> 0..MaxCalls]
  BY ManagementAssumption DEF IInv, TypeOK, co_call, co_request_alloc, Ids
<1>2. CASE /\ requests' = [requests EXCEPT ![c] = Append(@, next_id[c])]
           /\ pc' = [pc EXCEPT ![c] = "waiting"]
           /\ UNCHANGED <<responses, reset>>
  <2>1. requests' \in [Clients -> Seq(Ids)] /\ requests'[c] # <<>>
    <3>1. requests[c] \in Seq(Ids)
      BY DEF IInv, TypeOK
    <3>2. Append(requests[c], next_id[c]) \in Seq(Ids) /\ Append(requests[c], next_id[c]) # <<>>
      BY <1>1, <3>1, AppendFacts
    <3> QED  BY <1>2, <3>2 DEF IInv, TypeOK
  <2>2. \A d \in Clients : requests[d] # <<>> => requests'[d] # <<>>
    BY <1>2, <2>1 DEF IInv, TypeOK
  <2>3. TypeOK'
    BY <1>1, <1>2, <2>1, DaemonType DEF IInv, TypeOK, co_call
  <2>4. \A d \in Clients : pc'[d] = "new" <=> pc[d] = "new"
    BY <1>2 DEF co_call, IInv, TypeOK
  <2> QED  BY <2>2, <2>3, <2>4, ClientKeeps DEF co_call
<1>3. CASE Leave(c) /\ UNCHANGED requests
  <2>1. TypeOK'
    BY <1>1, <1>3, LeaveFacts, DaemonType DEF IInv, TypeOK, co_call
  <2> QED  BY <1>3, <2>1, LeaveFacts, ClientKeeps DEF co_call, IInv
<1> QED  BY <1>2, <1>3 DEF co_call

\* co_call takes what has arrived.
LEMMA ReceiveStep ==
  ASSUME IInv, NEW c \in Clients, Receive(c)
  PROVE  IInv'
<1>1. /\ answers' \in [Clients -> Seq(Ids)]
      /\ responses' \in [Clients -> Seq(Ids)]
      /\ pc' \in [Clients -> {"new", "idle", "waiting", "gone"}]
      /\ response' \in [Clients -> {"null", "freed"}]
  BY DEF IInv, TypeOK, Receive
<1>2. TypeOK'
  BY <1>1, DaemonType DEF IInv, TypeOK, Receive
<1>3. \A d \in Clients : pc'[d] = "new" <=> pc[d] = "new"
  BY DEF Receive, IInv, TypeOK
<1> QED  BY <1>2, <1>3, ClientKeeps DEF Receive

\* A call that gets nothing, and the shell that goes on or not.
LEMMA FailStep ==
  ASSUME IInv, NEW c \in Clients, ReceiveFails(c)
  PROVE  IInv'
<1>1. failed' \in [Clients -> BOOLEAN]
  BY DEF IInv, TypeOK, ReceiveFails
<1>2. /\ pc' \in [Clients -> {"new", "idle", "waiting", "gone"}]
      /\ responses' \in [Clients -> Seq(Ids)]
      /\ reset' \in [Clients -> BOOLEAN]
      /\ \A d \in Clients : pc'[d] = "new" <=> pc[d] = "new"
  <2>1. CASE Leave(c)
    BY <2>1, LeaveFacts DEF IInv, ReceiveFails
  <2>2. CASE pc' = [pc EXCEPT ![c] = "idle"] /\ UNCHANGED <<responses, reset>>
    BY <2>2 DEF IInv, TypeOK, ReceiveFails
  <2> QED  BY <2>1, <2>2 DEF ReceiveFails
<1>3. TypeOK'
  BY <1>1, <1>2, DaemonType DEF IInv, TypeOK, ReceiveFails
<1> QED  BY <1>2, <1>3, ClientKeeps DEF ReceiveFails

\* A client may leave at any time.
LEMMA ExitStep ==
  ASSUME IInv, NEW c \in Clients, Exit(c)
  PROVE  IInv'
<1>1. TypeOK'
  BY LeaveFacts, DaemonType DEF IInv, TypeOK, Exit
<1> QED  BY <1>1, LeaveFacts, ClientKeeps DEF Exit, IInv

\* A new connection goes to the end of the backlog, once.
LEMMA ConnectStep ==
  ASSUME IInv, NEW c \in Clients, co_connect(c)
  PROVE  IInv'
<1>1. pc' \in [Clients -> {"new", "idle", "waiting", "gone"}] /\ backlog' \in Seq(Clients)
  BY DEF IInv, TypeOK, co_connect, unix_socket_connect
<1>2. TypeOK'
  BY <1>1, DaemonType DEF IInv, TypeOK, co_connect, streamVars
<1>3. UNCHANGED <<requests, file, phase, listening, rfd_lst, fdnum, batch, current>>
  BY DEF co_connect, daemonVars, streamVars
<1>4. EventsAreValid' /\ OpenIsListed'
  BY <1>3 DEF IInv, EventsAreValid, OpenIsListed
<1>5. backlog' # <<>>
  BY AppendFacts DEF co_connect, unix_socket_connect, IInv, TypeOK
<1>6. BatchIsReadable'
  BY <1>3, <1>5 DEF IInv, BatchIsReadable
<1>7. ControlOK'
  BY <1>3 DEF IInv, ControlOK, listen_fd, co_connect, unix_socket_connect
<1>8. BacklogIsNew'
  <2>1. /\ Len(backlog') = Len(backlog) + 1 /\ backlog'[Len(backlog) + 1] = c
        /\ \A i \in 1..Len(backlog) : backlog'[i] = backlog[i] /\ backlog[i] \in Clients
        /\ Len(backlog) \in Nat
    BY DEF co_connect, unix_socket_connect, IInv, TypeOK
  <2>2. \A i \in 1..Len(backlog) : backlog[i] # c
    BY DEF co_connect, IInv, BacklogIsNew
  <2>3. \A f \in Files : file[f] # c
    BY DEF co_connect, IInv, BacklogIsNew
  <2>4. \A i, j \in 1..Len(backlog') : backlog'[i] = backlog'[j] => i = j
    BY <2>1, <2>2 DEF IInv, BacklogIsNew
  <2>5. pc'[c] = "idle" /\ \A d \in Clients : d # c => pc'[d] = pc[d]
    BY DEF co_connect, IInv, TypeOK
  <2>6. \A i \in 1..Len(backlog') :
           pc'[backlog'[i]] # "new" /\ \A f \in Files : file'[f] # backlog'[i]
    BY <1>3, <2>1, <2>2, <2>3, <2>5 DEF IInv, BacklogIsNew
  <2>7. \A d \in Clients, f \in Files : pc'[d] = "new" => file'[f] # d
    BY <1>3, <2>5 DEF IInv, BacklogIsNew
  <2> QED  BY <2>4, <2>6, <2>7 DEF BacklogIsNew
<1> QED  BY <1>2, <1>4, <1>6, <1>7, <1>8 DEF IInv

-----------------------------------------------------------------------------
(* The daemon.                                                             *)

\* What the invariant says of an event that is next.
LEMMA EventFacts ==
  ASSUME IInv, NEW e \in batch
  PROVE  /\ e.ptr \in Pointers /\ e.ev \in {"in", "hup", "err"}
         /\ e.ptr \in Clients =>
              /\ e.ptr \in rfd_lst /\ file[fdnum[e.ptr]] = e.ptr
              /\ fdnum[e.ptr] \in Files /\ fdnum[e.ptr] # listen_fd
         /\ e.ptr \notin Clients =>
              e.ptr = "listen" /\ e.ev = "in" /\ listening /\ backlog # <<>>
         /\ \A d \in batch \ {e} : d.ptr # e.ptr
<1>1. e.ptr \in Pointers /\ e.ev \in {"in", "hup", "err"}
  BY DEF IInv, TypeOK
<1>2. ASSUME e.ptr \in Clients
      PROVE  /\ e.ptr \in rfd_lst /\ file[fdnum[e.ptr]] = e.ptr
             /\ fdnum[e.ptr] \in Files /\ fdnum[e.ptr] # listen_fd
  <2>1. e.ptr \in rfd_lst /\ file[fdnum[e.ptr]] = e.ptr
    BY <1>2 DEF IInv, EventsAreValid
  <2>2. fdnum[e.ptr] \in Files
    BY <1>2 DEF IInv, TypeOK
  <2>3. file[listen_fd] \notin Clients
    BY ManagementAssumption DEF IInv, ControlOK
  <2> QED  BY <1>2, <2>1, <2>2, <2>3
<1>3. e.ptr \notin Clients => e.ptr = "listen" /\ e.ev = "in" /\ listening /\ backlog # <<>>
  BY <1>1 DEF Pointers, IInv, BatchIsReadable
<1>4. \A d \in batch \ {e} : d.ptr # e.ptr
  BY DEF IInv, BatchIsReadable
<1> QED  BY <1>1, <1>2, <1>3, <1>4

\* Closing the descriptor of a connection while handling its event: what the
\* EPOLLERR branch and co_socket_hangup have in common.
LEMMA CloseStep ==
  ASSUME IInv, NEW e \in batch, e.ptr \in Clients, phase = "loop",
         batch' = batch \ {e}, Close(fdnum[e.ptr]),
         rfd_lst' = rfd_lst \/ rfd_lst' = rfd_lst \ {e.ptr},
         UNCHANGED <<clientVars, backlog, responses,
                     phase, listening, fdnum, current, executed, starts>>
  PROVE  IInv'
<1> DEFINE c == e.ptr
           f == fdnum[c]
<1>1. /\ c \in rfd_lst /\ file[f] = c /\ f \in Files /\ f # listen_fd
      /\ \A d \in batch' : d \in batch /\ d.ptr # c
  BY EventFacts
<1>2. /\ file' = [file EXCEPT ![f] = None]
      /\ requests' = [d \in Clients |-> IF d = c THEN <<>> ELSE requests[d]]
      /\ reset' = [d \in Clients |-> reset[d] /\ d # c]
  <2>1. {file[f]} \cap Clients = {c}
    BY <1>1
  <2> QED  BY <2>1 DEF Close, CloseEnds
<1>3. /\ file' \in [Files -> Pointers \cup {None}] /\ file'[f] = None
      /\ \A g \in Files : g # f => file'[g] = file[g]
  BY <1>1, <1>2 DEF IInv, TypeOK
<1> HIDE DEF f, c
<1>4. UNCHANGED <<pc, next_id, response, failed, answers>>
  BY DEF clientVars
<1>5. TypeOK'
  <2>1. requests' \in [Clients -> Seq(Ids)]
    BY <1>2 DEF IInv, TypeOK
  <2>2. reset' \in [Clients -> BOOLEAN]
    BY <1>2 DEF IInv, TypeOK
  <2>3. batch' \subseteq [ptr : Pointers, ev : {"in", "hup", "err"}]
    BY DEF IInv, TypeOK
  <2>4. rfd_lst' \subseteq Clients
    BY DEF IInv, TypeOK
  <2> QED  BY <1>3, <1>4, <2>1, <2>2, <2>3, <2>4 DEF IInv, TypeOK
<1>6. \A d \in Clients : d # c /\ d \in rfd_lst => d \in rfd_lst'
  BY DEF c
<1>7. \A g \in Files, d \in Clients : file'[g] = d => file[g] = d /\ d # c
  <2> SUFFICES ASSUME NEW g \in Files, NEW d \in Clients, file'[g] = d
               PROVE  file[g] = d /\ d # c
    OBVIOUS
  <2>1. g # f /\ file[g] = d
    BY <1>3, ManagementAssumption
  <2>2. d = c => fdnum[c] = g
    BY <2>1 DEF IInv, OpenIsListed
  <2> QED  BY <2>1, <2>2 DEF f
<1>8. OpenIsListed'
  BY <1>6, <1>7 DEF IInv, OpenIsListed
<1>9. EventsAreValid'
  <2> SUFFICES ASSUME NEW d \in batch', d.ptr \in Clients
               PROVE  d.ptr \in rfd_lst' /\ file'[fdnum[d.ptr]] = d.ptr
    BY DEF EventsAreValid
  <2>1. d \in batch /\ d.ptr # c
    BY <1>1 DEF c
  <2>2. d.ptr \in rfd_lst /\ file[fdnum[d.ptr]] = d.ptr /\ fdnum[d.ptr] \in Files
    BY <2>1, EventFacts
  <2>3. fdnum[d.ptr] # f
    BY <1>1, <2>1, <2>2 DEF f, c
  <2> QED  BY <1>3, <1>6, <2>1, <2>2, <2>3
<1>10. BatchIsReadable'
  <2>1. \A d \in Clients : d # c => requests'[d] = requests[d]
    BY <1>2
  <2> QED  BY <1>1, <2>1 DEF IInv, BatchIsReadable, c
<1>11. BacklogIsNew'
  <2>1. \A i \in 1..Len(backlog) : backlog[i] \in Clients
    BY DEF IInv, TypeOK
  <2> QED  BY <1>4, <1>7, <2>1 DEF IInv, BacklogIsNew
<1>12. ControlOK'
  <2>1. file'[listen_fd] = file[listen_fd]
    BY <1>1, <1>3, ListenFd DEF f, c
  <2>2. listen_fd' = listen_fd
    BY DEF listen_fd
  <2> QED  BY <2>1, <2>2 DEF IInv, ControlOK
<1> QED  BY <1>5, <1>8, <1>9, <1>10, <1>11, <1>12 DEF IInv

\* The three handlers that close a connection.
LEMMA HangupSteps ==
  ASSUME IInv, NEW e \in batch, PollError(e) \/ PollHangup(e) \/ ReceiveRequestFails(e)
  PROVE  IInv'
<1>1. e.ptr \in Clients
  BY EventFacts DEF PollError, PollHangup, ReceiveRequestFails
<1>2. phase = "loop" /\ batch' = batch \ {e}
  BY DEF PollError, PollHangup, ReceiveRequestFails, Handle
<1>3. CASE PollError(e)
  <2>1. /\ Close(fdnum[e.ptr]) /\ rfd_lst' = rfd_lst
        /\ UNCHANGED <<clientVars, backlog, responses,
                       phase, listening, fdnum, current, executed, starts>>
    BY <1>3 DEF PollError
  <2> QED  BY <1>1, <1>2, <2>1, CloseStep
<1>4. CASE PollHangup(e)
  BY <1>1, <1>2, <1>4, CloseStep DEF PollHangup, co_socket_hangup
<1>5. CASE ReceiveRequestFails(e)
  BY <1>1, <1>2, <1>5, CloseStep DEF ReceiveRequestFails, co_socket_hangup
<1> QED  BY <1>3, <1>4, <1>5

\* What is left of the backlog when its head is accepted.
LEMMA TailFacts ==
  ASSUME NEW S, NEW s \in Seq(S), s # <<>>
  PROVE  /\ Head(s) \in S /\ Head(s) = s[1] /\ 1 \in 1..Len(s)
         /\ Tail(s) \in Seq(S)
         /\ \A i \in 1..Len(Tail(s)) : i + 1 \in 1..Len(s) /\ i + 1 # 1 /\ Tail(s)[i] = s[i + 1]
OBVIOUS

\* Accepting a connection: its descriptor was free and its co_fd_t is new.
LEMMA AcceptStep ==
  ASSUME IInv, NEW e \in batch, Accept(e)
  PROVE  IInv'
<1> DEFINE c == Head(backlog)
           f == Min(FreeFiles)
<1>1. /\ phase = "loop" /\ batch' = batch \ {e} /\ FreeFiles # {} /\ e.ptr = "listen"
      /\ file' = [file EXCEPT ![f] = c] /\ fdnum' = [fdnum EXCEPT ![c] = f]
      /\ rfd_lst' = rfd_lst \cup {c} /\ backlog' = Tail(backlog)
  BY DEF Accept, Handle, co_fd_create
<1>2. /\ UNCHANGED <<pc, next_id, response, failed, answers, requests, responses, reset>>
      /\ UNCHANGED <<phase, listening, current, executed, starts>>
  BY DEF Accept, clientVars, streamVars
<1>3. f \in Files /\ file[f] = None
  <2>1. FreeFiles \subseteq Files
    BY DEF FreeFiles
  <2>2. f \in FreeFiles
    BY <1>1, <2>1, MinIn
  <2> QED  BY <2>2 DEF FreeFiles
<1>4. listening /\ backlog # <<>> /\ \A d \in batch' : d \in batch /\ d.ptr # "listen"
  BY <1>1, EventFacts, ManagementAssumption
<1>5. backlog \in Seq(Clients)
  BY DEF IInv, TypeOK
<1>6. /\ c \in Clients /\ c = backlog[1] /\ 1 \in 1..Len(backlog) /\ backlog' \in Seq(Clients)
      /\ \A i \in 1..Len(backlog') : /\ i + 1 \in 1..Len(backlog) /\ i + 1 # 1
                                     /\ backlog'[i] = backlog[i + 1]
  BY <1>1, <1>4, <1>5, TailFacts
<1>7. pc[c] # "new" /\ \A g \in Files : file[g] # c
  BY <1>6 DEF IInv, BacklogIsNew
<1>8. f # listen_fd
  BY <1>3, <1>4, ManagementAssumption DEF IInv, ControlOK
<1> HIDE DEF c, f
<1>9. /\ file' \in [Files -> Pointers \cup {None}] /\ file'[f] = c
      /\ \A g \in Files : g # f => file'[g] = file[g]
      /\ fdnum' \in [Clients -> Files] /\ fdnum'[c] = f
      /\ \A d \in Clients : d # c => fdnum'[d] = fdnum[d]
  BY <1>1, <1>3, <1>6 DEF IInv, TypeOK, Pointers
<1>10. TypeOK'
  BY <1>1, <1>2, <1>6, <1>9 DEF IInv, TypeOK
<1>11. OpenIsListed'
  <2> SUFFICES ASSUME NEW g \in Files, NEW d \in Clients, file'[g] = d
               PROVE  d \in rfd_lst' /\ fdnum'[d] = g
    BY DEF OpenIsListed
  <2>1. CASE g = f
    BY <1>1, <1>9, <2>1
  <2>2. CASE g # f
    BY <1>1, <1>7, <1>9, <2>2 DEF IInv, OpenIsListed
  <2> QED  BY <2>1, <2>2
<1>12. EventsAreValid'
  <2> SUFFICES ASSUME NEW d \in batch', d.ptr \in Clients
               PROVE  d.ptr \in rfd_lst' /\ file'[fdnum'[d.ptr]] = d.ptr
    BY <1>1, <1>2 DEF EventsAreValid
  <2>1. d.ptr \in rfd_lst /\ file[fdnum[d.ptr]] = d.ptr /\ fdnum[d.ptr] \in Files
    BY <1>4, EventFacts
  <2>2. d.ptr # c /\ fdnum[d.ptr] # f
    BY <1>3, <1>7, <2>1, ManagementAssumption
  <2> QED  BY <1>1, <1>9, <2>1, <2>2
<1>13. BatchIsReadable'
  BY <1>2, <1>4 DEF IInv, BatchIsReadable
<1>14. BacklogIsNew'
  <2>1. \A i, j \in 1..Len(backlog') : backlog'[i] = backlog'[j] => i = j
    <3> SUFFICES ASSUME NEW i \in 1..Len(backlog'), NEW j \in 1..Len(backlog'),
                        backlog'[i] = backlog'[j]
                 PROVE  i = j
      OBVIOUS
    <3>1. i + 1 = j + 1
      BY <1>6 DEF IInv, BacklogIsNew
    <3> QED  BY <3>1
  <2>2. \A i \in 1..Len(backlog') :
           backlog'[i] # c /\ pc[backlog'[i]] # "new" /\ \A g \in Files : file[g] # backlog'[i]
    BY <1>6 DEF IInv, BacklogIsNew
  <2>3. \A i \in 1..Len(backlog') :
           pc'[backlog'[i]] # "new" /\ \A g \in Files : file'[g] # backlog'[i]
    BY <1>2, <1>9, <2>2
  <2>4. \A d \in Clients, g \in Files : pc'[d] = "new" => file'[g] # d
    BY <1>2, <1>7, <1>9 DEF IInv, BacklogIsNew
  <2> QED  BY <2>1, <2>3, <2>4 DEF BacklogIsNew
<1>15. ControlOK'
  <2>1. file'[listen_fd] = file[listen_fd]
    BY <1>8, <1>9, ListenFd
  <2>2. listen_fd' = listen_fd
    BY DEF listen_fd
  <2> QED  BY <1>1, <1>2, <1>4, <2>1, <2>2 DEF IInv, ControlOK
<1> QED  BY <1>10, <1>11, <1>12, <1>13, <1>14, <1>15 DEF IInv

\* Hanging up the listening descriptor touches no accepted connection.
LEMMA AcceptFailsStep ==
  ASSUME IInv, NEW e \in batch, AcceptFails(e)
  PROVE  IInv'
<1>1. /\ phase = "loop" /\ batch' = batch \ {e} /\ e.ptr = "listen"
      /\ file' = [file EXCEPT ![listen_fd] = None] /\ listening' = FALSE /\ backlog' = <<>>
      /\ requests' = [c \in Clients |-> IF Queued(c) THEN <<>> ELSE requests[c]]
      /\ reset' = [c \in Clients |-> reset[c] /\ ~Queued(c)]
  <2>1. \A c \in Clients : c \in {d \in Clients : Queued(d)} <=> Queued(c)
    OBVIOUS
  <2> QED  BY <2>1 DEF AcceptFails, Handle, HangupListening, CloseEnds
<1>2. /\ UNCHANGED <<pc, next_id, response, failed, answers, responses>>
      /\ UNCHANGED <<phase, rfd_lst, fdnum, current, executed, starts>>
  BY DEF AcceptFails, clientVars
<1>3. \A d \in batch' : d \in batch /\ d.ptr # "listen"
  BY <1>1, EventFacts
<1>4. /\ file' \in [Files -> Pointers \cup {None}] /\ file'[listen_fd] = None
      /\ \A g \in Files : g # listen_fd => file'[g] = file[g]
  BY <1>1, ListenFd DEF IInv, TypeOK
<1>5. \A g \in Files, d \in Clients : file'[g] = d => file[g] = d
  BY <1>4, ManagementAssumption
<1>6. TypeOK'
  <2>1. requests' \in [Clients -> Seq(Ids)]
    BY <1>1 DEF IInv, TypeOK
  <2>2. reset' \in [Clients -> BOOLEAN]
    BY <1>1 DEF IInv, TypeOK
  <2>3. batch' \subseteq [ptr : Pointers, ev : {"in", "hup", "err"}]
    BY <1>1 DEF IInv, TypeOK
  <2>4. listening' \in BOOLEAN
    BY <1>1
  <2>5. backlog' \in Seq(Clients)
    BY <1>1
  <2> QED  BY <1>2, <1>4, <2>1, <2>2, <2>3, <2>4, <2>5 DEF IInv, TypeOK
<1>7. OpenIsListed'
  BY <1>2, <1>5 DEF IInv, OpenIsListed
<1>8. \A d \in batch' : d.ptr \in Clients =>
         /\ d.ptr \in rfd_lst /\ file'[fdnum[d.ptr]] = d.ptr
         /\ requests'[d.ptr] = requests[d.ptr]
  <2> SUFFICES ASSUME NEW d \in batch', d.ptr \in Clients
               PROVE  /\ d.ptr \in rfd_lst /\ file'[fdnum[d.ptr]] = d.ptr
                      /\ requests'[d.ptr] = requests[d.ptr]
    OBVIOUS
  <2>1. /\ d.ptr \in rfd_lst /\ file[fdnum[d.ptr]] = d.ptr
        /\ fdnum[d.ptr] \in Files /\ fdnum[d.ptr] # listen_fd
    BY <1>3, EventFacts
  <2>2. ~Queued(d.ptr)
    BY <2>1 DEF Queued, IInv, BacklogIsNew
  <2> QED  BY <1>1, <1>4, <2>1, <2>2
<1>9. EventsAreValid'
  BY <1>1, <1>2, <1>8 DEF EventsAreValid
<1>10. BatchIsReadable'
  BY <1>3, <1>8 DEF IInv, BatchIsReadable
<1>11. BacklogIsNew'
  BY <1>1, <1>2, <1>5 DEF IInv, BacklogIsNew
<1>12. ControlOK'
  <2>1. listen_fd' = listen_fd
    BY DEF listen_fd
  <2> QED  BY <1>1, <1>2, <1>4, <2>1 DEF IInv, ControlOK
<1> QED  BY <1>6, <1>7, <1>9, <1>10, <1>11, <1>12 DEF IInv

\* One receive empties a stream; the events of the others are not touched, and the
\* connection it came from stays open while the command runs.
LEMMA ReceiveRequestStep ==
  ASSUME IInv, NEW e \in batch, ReceiveRequest(e)
  PROVE  IInv'
<1> DEFINE c == e.ptr
           id == Head(requests[c])
<1>1. /\ phase = "loop" /\ batch' = batch \ {e} /\ c \in Clients /\ e.ev = "in" /\ phase' = "exec"
      /\ current' = [ptr |-> c, id |-> id]
      /\ executed' = [executed EXCEPT ![c] = Append(@, id)]
      /\ requests' = [requests EXCEPT ![c] = <<>>]
  BY DEF ReceiveRequest, Handle
<1>2. /\ UNCHANGED <<pc, next_id, response, failed, answers, backlog, responses, reset>>
      /\ UNCHANGED <<file, listening, rfd_lst, fdnum, starts>>
  BY DEF ReceiveRequest, clientVars
<1>3. c \in rfd_lst /\ file[fdnum[c]] = c /\ \A d \in batch' : d \in batch /\ d.ptr # c
  BY <1>1, EventFacts
<1>4. id \in Ids
  <2>1. requests[c] # <<>> /\ requests[c] \in Seq(Ids)
    BY <1>1 DEF IInv, TypeOK, BatchIsReadable
  <2> QED  BY <2>1, TailFacts
<1> HIDE DEF c, id
<1>5. TypeOK'
  <2>1. requests' \in [Clients -> Seq(Ids)]
    BY <1>1 DEF IInv, TypeOK
  <2>2. executed' \in [Clients -> Seq(Ids)]
    <3>1. executed[c] \in Seq(Ids)
      BY <1>1 DEF IInv, TypeOK
    <3>2. Append(executed[c], id) \in Seq(Ids)
      BY <1>4, <3>1, AppendFacts
    <3> QED  BY <1>1, <3>2 DEF IInv, TypeOK
  <2>3. batch' \subseteq [ptr : Pointers, ev : {"in", "hup", "err"}]
    BY <1>1 DEF IInv, TypeOK
  <2>4. current' \in [ptr : Clients, id : Ids]
    BY <1>1, <1>4
  <2> QED  BY <1>1, <1>2, <2>1, <2>2, <2>3, <2>4 DEF IInv, TypeOK
<1>6. OpenIsListed'
  BY <1>2 DEF IInv, OpenIsListed
<1>7. EventsAreValid'
  <2>1. current'.ptr = c
    BY <1>1
  <2>2. \A d \in batch' : d.ptr \in Clients =>
           d.ptr \in rfd_lst' /\ file'[fdnum'[d.ptr]] = d.ptr
    BY <1>2, <1>3 DEF IInv, EventsAreValid
  <2>3. current'.ptr \in rfd_lst' /\ file'[fdnum'[current'.ptr]] = current'.ptr
    BY <1>2, <1>3, <2>1
  <2> QED  BY <2>2, <2>3 DEF EventsAreValid
<1>8. BatchIsReadable'
  <2>1. \A d \in Clients : d # c => requests'[d] = requests[d]
    BY <1>1 DEF IInv, TypeOK
  <2> QED  BY <1>2, <1>3, <2>1 DEF IInv, BatchIsReadable
<1>9. BacklogIsNew'
  BY <1>2 DEF IInv, BacklogIsNew
<1>10. ControlOK'
  <2>1. listen_fd' = listen_fd
    BY DEF listen_fd
  <2>2. current' \in [ptr : Clients, id : Ids]
    BY <1>1, <1>4
  <2> QED  BY <1>1, <1>2, <2>1, <2>2 DEF IInv, ControlOK
<1> QED  BY <1>5, <1>6, <1>7, <1>8, <1>9, <1>10 DEF IInv

\* The response goes out; nothing of the daemon's tables changes.
LEMMA SendResponseStep ==
  ASSUME IInv, SendResponse
  PROVE  IInv'
<1>1. /\ phase = "exec" /\ phase' = "loop" /\ current' = None
      /\ UNCHANGED <<pc, next_id, response, failed, answers, backlog, requests, reset>>
      /\ UNCHANGED <<file, listening, rfd_lst, fdnum, batch, executed, starts>>
  BY DEF SendResponse, clientVars
<1>2. current \in [ptr : Clients, id : Ids]
  BY <1>1 DEF IInv, TypeOK, ControlOK
<1>3. responses' \in [Clients -> Seq(Ids)]
  <2> DEFINE to == file[fdnum[current.ptr]]
  <2>1. responses' = IF to \in Clients /\ pc[to] # "gone"
                     THEN [responses EXCEPT ![to] = Append(@, current.id)]
                     ELSE responses
    BY DEF SendResponse, co_socket_send
  <2>2. current.id \in Ids /\ responses \in [Clients -> Seq(Ids)]
    BY <1>2 DEF IInv, TypeOK
  <2> HIDE DEF to
  <2>3. ASSUME to \in Clients PROVE Append(responses[to], current.id) \in Seq(Ids)
    BY <2>2, <2>3, AppendFacts
  <2> QED  BY <2>1, <2>2, <2>3
<1>4. TypeOK'
  BY <1>1, <1>3 DEF IInv, TypeOK
<1>5. OpenIsListed' /\ EventsAreValid'
  BY <1>1 DEF IInv, OpenIsListed, EventsAreValid
<1>6. BatchIsReadable' /\ BacklogIsNew'
  BY <1>1 DEF IInv, BatchIsReadable, BacklogIsNew
<1>7. ControlOK'
  <2>1. listen_fd' = listen_fd
    BY DEF listen_fd
  <2> QED  BY <1>1, <2>1 DEF IInv, ControlOK
<1> QED  BY <1>4, <1>5, <1>6, <1>7 DEF IInv

\* The events of the next batch: of open connections and of the listening socket,
\* one each, and with something to read behind each EPOLLIN.
LEMMA EpollWaitStep ==
  ASSUME IInv, EpollWait
  PROVE  IInv'
<1>1. /\ phase = "loop" /\ batch' = Ready
      /\ UNCHANGED <<pc, next_id, response, failed, answers, backlog, requests, responses, reset>>
      /\ UNCHANGED <<file, phase, listening, rfd_lst, fdnum, current, executed, starts>>
  BY DEF EpollWait, clientVars, streamVars
<1>2. \A e \in Ready :
         \/ /\ e = [ptr |-> "listen", ev |-> "in"]
            /\ file[listen_fd] = "listen" /\ backlog # <<>>
         \/ \E c \in Clients : /\ e = [ptr |-> c, ev |-> EventOf(c)] /\ file[fdnum[c]] = c
                               /\ pc[c] = "gone" \/ requests[c] # <<>>
  BY DEF Ready
<1>3. \A c \in Clients : EventOf(c) \in {"in", "hup", "err"}
  BY DEF EventOf
<1>4. ASSUME NEW c \in Clients, EventOf(c) = "in", pc[c] = "gone" \/ requests[c] # <<>>
      PROVE  requests[c] # <<>>
  <2>1. pc[c] # "gone"
    BY <1>4 DEF EventOf
  <2> QED  BY <1>4, <2>1
<1>5. \A e \in Ready : e.ptr \in Pointers /\ e \in [ptr : Pointers, ev : {"in", "hup", "err"}]
  BY <1>2, <1>3 DEF Pointers
<1>6. TypeOK'
  BY <1>1, <1>5 DEF IInv, TypeOK
<1>7. \A e \in Ready : e.ptr \in Clients =>
         /\ e = [ptr |-> e.ptr, ev |-> EventOf(e.ptr)] /\ file[fdnum[e.ptr]] = e.ptr
         /\ pc[e.ptr] = "gone" \/ requests[e.ptr] # <<>>
  BY <1>2, ManagementAssumption
<1>8. \A e \in Ready : e.ptr \notin Clients =>
         /\ e = [ptr |-> "listen", ev |-> "in"]
         /\ file[listen_fd] = "listen" /\ backlog # <<>>
  BY <1>2
<1>9. EventsAreValid' /\ OpenIsListed'
  <2>1. OpenIsListed'
    BY <1>1 DEF IInv, OpenIsListed
  <2>2. \A e \in Ready : e.ptr \in Clients => e.ptr \in rfd_lst /\ file[fdnum[e.ptr]] = e.ptr
    <3> SUFFICES ASSUME NEW e \in Ready, e.ptr \in Clients
                 PROVE  e.ptr \in rfd_lst /\ file[fdnum[e.ptr]] = e.ptr
      OBVIOUS
    <3>1. fdnum[e.ptr] \in Files
      BY DEF IInv, TypeOK
    <3> QED  BY <1>7, <3>1 DEF IInv, OpenIsListed
  <2> QED  BY <1>1, <2>1, <2>2 DEF EventsAreValid
<1>10. BatchIsReadable'
  <2>1. \A e1, e2 \in Ready : e1.ptr = e2.ptr => e1 = e2
    BY <1>7, <1>8, Zenon
  <2>2. ASSUME NEW e \in Ready, e.ptr = "listen"
        PROVE  e.ev = "in" /\ listening /\ backlog # <<>>
    <3>1. e.ptr \notin Clients
      BY <2>2, ManagementAssumption
    <3>2. e = [ptr |-> "listen", ev |-> "in"] /\ file[listen_fd] = "listen" /\ backlog # <<>>
      BY <1>8, <3>1
    <3>3. e.ev = "in"
      BY <3>2
    <3>4. listening
      BY <3>2, ManagementAssumption DEF IInv, ControlOK
    <3> QED  BY <3>2, <3>3, <3>4
  <2>3. ASSUME NEW e \in Ready, e.ptr \in Clients, e.ev = "in"
        PROVE  requests[e.ptr] # <<>>
    <3>1. e = [ptr |-> e.ptr, ev |-> EventOf(e.ptr)]
      BY <1>7, <2>3
    <3>2. EventOf(e.ptr) = "in"
      BY <2>3, <3>1
    <3> QED  BY <1>4, <1>7, <2>3, <3>2
  <2> QED  BY <1>1, <2>1, <2>2, <2>3 DEF BatchIsReadable
<1>11. BacklogIsNew'
  BY <1>1 DEF IInv, BacklogIsNew
<1>12. ControlOK'
  <2>1. listen_fd' = listen_fd
    BY DEF listen_fd
  <2> QED  BY <1>1, <2>1 DEF IInv, ControlOK
<1> QED  BY <1>6, <1>9, <1>10, <1>11, <1>12 DEF IInv

\* A start of the daemon opens the listening descriptor, nothing else is open.
LEMMA BindStep ==
  ASSUME IInv, unix_socket_bind
  PROVE  IInv'
<1>1. /\ phase = "down" /\ starts' = starts + 1 /\ phase' = "loop" /\ listening' = TRUE
      /\ file' = [file EXCEPT ![listen_fd] = "listen"]
      /\ UNCHANGED <<pc, next_id, response, failed, answers, backlog, requests, responses, reset>>
      /\ UNCHANGED <<rfd_lst, fdnum, batch, current, executed>>
  BY DEF unix_socket_bind, clientVars, streamVars
<1>2. batch = {} /\ backlog = <<>> /\ \A f \in Files : file[f] = None
  BY <1>1 DEF IInv, ControlOK
<1>3. /\ file' \in [Files -> Pointers \cup {None}] /\ file'[listen_fd] = "listen"
      /\ \A g \in Files : g # listen_fd => file'[g] = None
  BY <1>1, <1>2, ListenFd DEF IInv, TypeOK, Pointers
<1>4. \A g \in Files, d \in Clients : file'[g] # d
  BY <1>3, ManagementAssumption
<1>5. TypeOK'
  <2>1. starts' \in 0..MaxStarts
    BY ManagementAssumption DEF unix_socket_bind, IInv, TypeOK
  <2>2. listening' \in BOOLEAN
    BY <1>1
  <2> QED  BY <1>1, <1>3, <2>1, <2>2 DEF IInv, TypeOK
<1>6. OpenIsListed'
  BY <1>4 DEF OpenIsListed
<1>7. EventsAreValid' /\ BatchIsReadable'
  BY <1>1, <1>2 DEF EventsAreValid, BatchIsReadable
<1>8. BacklogIsNew'
  BY <1>1, <1>2, <1>4 DEF BacklogIsNew
<1>9. ControlOK'
  <2>1. listen_fd' = listen_fd
    BY DEF listen_fd
  <2> QED  BY <1>1, <1>2, <1>3, <2>1 DEF ControlOK
<1> QED  BY <1>5, <1>6, <1>7, <1>8, <1>9 DEF IInv

\* The end of the daemon closes everything.
LEMMA DestroyStep ==
  ASSUME IInv, co_loop_destroy
  PROVE  IInv'
<1>1. /\ phase = "loop" /\ batch = {} /\ phase' = "down" /\ listening' = FALSE
      /\ rfd_lst' = {} /\ backlog' = <<>> /\ file' = [f \in Files |-> None]
      /\ requests' = [c \in Clients |-> <<>>]
      /\ reset' = [c \in Clients |-> FALSE]
      /\ UNCHANGED <<pc, next_id, response, failed, answers, responses>>
      /\ UNCHANGED <<fdnum, batch, current, executed, starts>>
  BY DEF co_loop_destroy, co_socket_destroy, CloseEnds, clientVars
<1>2. \A f \in Files : file'[f] = None
  BY <1>1
<1>3. \A g \in Files, d \in Clients : file'[g] # d
  BY <1>2, ManagementAssumption
<1>4. TypeOK'
  <2>1. reset' \in [Clients -> BOOLEAN]
    BY <1>1
  <2>2. listening' \in BOOLEAN
    BY <1>1
  <2>3. requests' \in [Clients -> Seq(Ids)] /\ backlog' \in Seq(Clients)
    BY <1>1
  <2>4. file' \in [Files -> Pointers \cup {None}]
    BY <1>1
  <2> QED  BY <1>1, <2>1, <2>2, <2>3, <2>4 DEF IInv, TypeOK
<1>5. OpenIsListed'
  BY <1>3 DEF OpenIsListed
<1>6. EventsAreValid' /\ BatchIsReadable'
  BY <1>1 DEF EventsAreValid, BatchIsReadable
<1>7. BacklogIsNew'
  BY <1>1, <1>3 DEF BacklogIsNew
<1>8. ControlOK'
  <2>1. listen_fd' = listen_fd
    BY DEF listen_fd
  <2> QED  BY <1>1, <1>2, <2>1, ListenFd DEF ControlOK
<1> QED  BY <1>4, <1>5, <1>6, <1>7, <1>8 DEF IInv

-----------------------------------------------------------------------------
(* The specification.                                                      *)

\* Every step of a client or of the daemon keeps the invariant.
THEOREM NextIInv == IInv /\ [Next]_vars => IInv'
<1> SUFFICES ASSUME IInv, [Next]_vars PROVE IInv'
  OBVIOUS
<1>1. CASE \E c \in Clients : ClientStep(c)
  <2>1. PICK c \in Clients : ClientStep(c)
    BY <1>1
  <2> QED  BY <2>1, ConnectStep, CallStep, ReceiveStep, FailStep, ExitStep DEF ClientStep
<1>2. CASE unix_socket_bind
  BY <1>2, BindStep
<1>3. CASE LoopStep
  <2>1. CASE \E e \in batch : HandleEvent(e)
    <3>1. PICK e \in batch : HandleEvent(e)
      BY <2>1
    <3> QED  BY <3>1, HangupSteps, AcceptStep, AcceptFailsStep, ReceiveRequestStep DEF HandleEvent
  <2> QED  BY <1>3, <2>1, EpollWaitStep, SendResponseStep DEF LoopStep
<1>4. CASE co_loop_destroy
  BY <1>4, DestroyStep
<1>5. CASE UNCHANGED vars
  <2>1. /\ UNCHANGED <<pc, next_id, response, failed, answers, backlog, file, daemonVars>>
        /\ UNCHANGED <<requests, responses, reset>>
    BY <1>5 DEF vars, clientVars, streamVars
  <2>2. TypeOK'
    BY <2>1, DaemonType DEF IInv, TypeOK
  <2> QED  BY <2>1, <2>2, ClientKeeps
<1> QED  BY <1>1, <1>2, <1>3, <1>4, <1>5 DEF Next

\* The invariant holds of every run, with any number of clients and descriptors.
THEOREM ManagementInvariant == Spec => []IInv
<1> QED  BY InitIInv, NextIInv, PTL DEF Spec

\* No variable leaves its type.
THEOREM ManagementType == Spec => []TypeOK
<1>1. IInv => TypeOK
  BY DEF IInv
<1> QED  BY <1>1, ManagementInvariant, PTL

\* The loop never handles an event, and dispatcher_cb never answers a request,
\* through a freed co_fd_t or a descriptor that is closed or another connection's.
THEOREM EventsStayValid == Spec => []EventsAreValid
<1>1. IInv => EventsAreValid
  BY DEF IInv
<1> QED  BY <1>1, ManagementInvariant, PTL

-----------------------------------------------------------------------------
(* Answers.                                                                *)

\* The numbers of the first n requests of a client.
First(n) == [i \in 1..n |-> i - 1]

Executing(c) == phase = "exec" /\ current.ptr = c

\* A client whose calls have all returned so far has at most one call under way,
\* its last: as a request, as the command that runs, or as a response.
OneCall(c) ==
  /\ answers[c] = First(IF pc[c] = "waiting" THEN next_id[c] - 1 ELSE next_id[c])
  /\ pc[c] = "new" => next_id[c] = 0
  /\ IF pc[c] = "waiting"
     THEN /\ next_id[c] > 0
          /\ requests[c] # <<>> => Head(requests[c]) = next_id[c] - 1
          /\ responses[c] # <<>> => Head(responses[c]) = next_id[c] - 1
          /\ Executing(c) => current.id = next_id[c] - 1
          /\ requests[c] # <<>> => responses[c] = <<>>
          /\ Executing(c) => requests[c] = <<>> /\ responses[c] = <<>>
     ELSE requests[c] = <<>> /\ responses[c] = <<>> /\ ~Executing(c)

OneAtATime == \A c \in Clients : ~failed[c] /\ pc[c] # "gone" => OneCall(c)

LEMMA FirstNext ==
  ASSUME NEW n \in Nat
  PROVE  Append(First(n), n) = First(n + 1)
<1>1. First(n) \in Seq(Nat) /\ Len(First(n)) = n
  BY DEF First
<1>2. Append(First(n), n) \in Seq(Nat) /\ Len(Append(First(n), n)) = n + 1
  BY <1>1
<1>3. First(n + 1) \in Seq(Nat) /\ Len(First(n + 1)) = n + 1
  BY DEF First
<1>4. \A i \in 1..n + 1 : Append(First(n), n)[i] = First(n + 1)[i]
  <2> SUFFICES ASSUME NEW i \in 1..n + 1 PROVE Append(First(n), n)[i] = i - 1
    BY DEF First
  <2>1. CASE i = n + 1
    BY <1>1, <2>1
  <2>2. CASE i \in 1..n
    BY <1>1, <2>2 DEF First
  <2>3. i = n + 1 \/ i \in 1..n
    OBVIOUS
  <2> QED  BY <2>1, <2>2, <2>3, Zenon
<1> QED  BY <1>2, <1>3, <1>4, SeqEqual

LEMMA InitOneAtATime == Init => OneAtATime
<1>1. <<>> = First(0)
  BY DEF First
<1> QED  BY <1>1 DEF Init, OneAtATime, OneCall, Executing

\* Nothing is known of another client's calls that this step could change.
LEMMA OtherClients ==
  ASSUME OneAtATime, NEW c \in Clients, UNCHANGED daemonVars,
         \A d \in Clients \ {c} :
            /\ pc'[d] = pc[d] /\ next_id'[d] = next_id[d] /\ failed'[d] = failed[d]
            /\ answers'[d] = answers[d]
            /\ requests'[d] = requests[d] /\ responses'[d] = responses[d],
         ~failed'[c] /\ pc'[c] # "gone" => OneCall(c)'
  PROVE  OneAtATime'
<1> SUFFICES ASSUME NEW d \in Clients, d # c, ~failed'[d], pc'[d] # "gone"
             PROVE  OneCall(d)'
  BY DEF OneAtATime
<1> QED  BY DEF OneAtATime, OneCall, Executing, daemonVars

\* The daemon does something else than to execute: requests may be lost.
LEMMA Elsewhere ==
  ASSUME OneAtATime, phase # "exec", phase' # "exec", UNCHANGED clientVars,
         UNCHANGED responses,
         \A d \in Clients : requests'[d] \in {requests[d], <<>>}
  PROVE  OneAtATime'
<1> SUFFICES ASSUME NEW d \in Clients, ~failed'[d], pc'[d] # "gone"
             PROVE  OneCall(d)'
  BY DEF OneAtATime
<1>1. OneCall(d)
  BY DEF OneAtATime, clientVars
<1> QED  BY <1>1 DEF OneCall, Executing, clientVars

\* A client takes the response to its last call.
LEMMA ReceiveMatches ==
  ASSUME IInv, OneAtATime, NEW c \in Clients, Receive(c)
  PROVE  OneAtATime'
<1>1. TypeOK
  BY DEF IInv
<1>2. \A d \in Clients \ {c} :
         /\ pc'[d] = pc[d] /\ answers'[d] = answers[d] /\ responses'[d] = responses[d]
  BY <1>1 DEF TypeOK, Receive
<1>3. UNCHANGED <<next_id, failed, requests, daemonVars>>
  BY DEF Receive
<1>4. ASSUME ~failed[c] PROVE OneCall(c)'
  <2>1. OneCall(c) /\ pc[c] = "waiting" /\ responses[c] # <<>>
    BY <1>4 DEF OneAtATime, Receive
  <2>2. /\ Head(responses[c]) = next_id[c] - 1 /\ next_id[c] > 0
        /\ requests[c] = <<>> /\ ~Executing(c)
    BY <2>1 DEF OneCall
  <2>3. next_id[c] \in Nat
    BY <1>1, ManagementAssumption DEF TypeOK
  <2>4. answers[c] = First(next_id[c] - 1)
    BY <2>1 DEF OneCall
  <2>5. answers'[c] = Append(answers[c], next_id[c] - 1)
    BY <1>1, <2>2 DEF TypeOK, Receive
  <2>6. answers'[c] = First(next_id[c])
    <3>1. next_id[c] - 1 \in Nat /\ (next_id[c] - 1) + 1 = next_id[c]
      BY <2>2, <2>3
    <3> QED  BY <2>4, <2>5, <3>1, FirstNext
  <2>7. pc'[c] = "idle" /\ responses'[c] = <<>>
    BY <1>1 DEF TypeOK, Receive
  <2> QED  BY <1>3, <2>2, <2>6, <2>7 DEF OneCall, Executing, daemonVars
<1> QED  BY <1>2, <1>3, <1>4, OtherClients

\* The other steps of a client: only a call that can be sent leaves one under way.
LEMMA ClientMatches ==
  ASSUME IInv, OneAtATime, NEW c \in Clients,
         co_connect(c) \/ co_call(c) \/ ReceiveFails(c) \/ Exit(c)
  PROVE  OneAtATime'
<1>1. TypeOK
  BY DEF IInv
<1>2. CASE co_connect(c)
  <2>1. pc'[c] = "idle" /\ \A d \in Clients \ {c} : pc'[d] = pc[d]
    BY <1>1, <1>2 DEF TypeOK, co_connect
  <2>2. pc[c] = "new" /\ UNCHANGED <<next_id, failed, answers, requests, responses, daemonVars>>
    BY <1>2 DEF co_connect, streamVars
  <2>3. ASSUME ~failed[c] PROVE OneCall(c)'
    <3>1. OneCall(c)
      BY <2>2, <2>3 DEF OneAtATime
    <3> QED  BY <2>1, <2>2, <3>1 DEF OneCall, Executing, daemonVars
  <2> QED  BY <2>1, <2>2, <2>3, OtherClients
<1>3. ASSUME Leave(c), UNCHANGED <<answers, requests, daemonVars>>,
             \A d \in Clients \ {c} : next_id'[d] = next_id[d] /\ failed'[d] = failed[d]
      PROVE  OneAtATime'
  <2>1. /\ pc'[c] = "gone"
        /\ \A d \in Clients \ {c} : pc'[d] = pc[d] /\ responses'[d] = responses[d]
    BY <1>1, <1>3 DEF TypeOK, Leave
  <2> QED  BY <1>3, <2>1, OtherClients
<1>4. CASE co_call(c)
  <2>1. next_id'[c] = next_id[c] + 1 /\ \A d \in Clients \ {c} : next_id'[d] = next_id[d]
    BY <1>1, <1>4 DEF TypeOK, co_call, co_request_alloc
  <2>2. UNCHANGED <<failed, answers, daemonVars>> /\ pc[c] = "idle"
    BY <1>4 DEF co_call
  <2>3. CASE Leave(c) /\ UNCHANGED requests
    BY <1>3, <2>1, <2>2, <2>3
  <2>4. CASE /\ requests' = [requests EXCEPT ![c] = Append(@, next_id[c])]
             /\ pc' = [pc EXCEPT ![c] = "waiting"]
             /\ UNCHANGED <<responses, reset>>
    <3>1. /\ pc'[c] = "waiting" /\ requests'[c] = Append(requests[c], next_id[c])
          /\ \A d \in Clients \ {c} : pc'[d] = pc[d] /\ requests'[d] = requests[d]
      BY <1>1, <2>4 DEF TypeOK
    <3>2. ASSUME ~failed[c] PROVE OneCall(c)'
      <4>1. OneCall(c)
        BY <2>2, <3>2 DEF OneAtATime
      <4>2. /\ answers[c] = First(next_id[c]) /\ requests[c] = <<>>
            /\ responses[c] = <<>> /\ ~Executing(c)
        BY <2>2, <4>1 DEF OneCall
      <4>3. next_id[c] \in Nat
        BY <1>1, ManagementAssumption DEF TypeOK
      <4>4. Head(Append(<<>>, next_id[c])) = next_id[c]
        BY <4>3
      <4>5. next_id'[c] > 0 /\ next_id'[c] - 1 = next_id[c]
        BY <2>1, <4>3
      <4> QED  BY <2>2, <2>4, <3>1, <4>2, <4>4, <4>5 DEF OneCall, Executing, daemonVars
    <3> QED  BY <2>1, <2>2, <2>4, <3>1, <3>2, OtherClients
  <2> QED  BY <1>4, <2>3, <2>4 DEF co_call
<1>5. CASE ReceiveFails(c)
  <2>1. failed'[c] /\ \A d \in Clients \ {c} : failed'[d] = failed[d]
    BY <1>1, <1>5 DEF TypeOK, ReceiveFails
  <2>2. UNCHANGED <<next_id, answers, requests, daemonVars>>
    BY <1>5 DEF ReceiveFails
  <2>3. \A d \in Clients \ {c} : pc'[d] = pc[d] /\ responses'[d] = responses[d]
    BY <1>1, <1>5 DEF TypeOK, ReceiveFails, Leave
  <2> QED  BY <2>1, <2>2, <2>3, OtherClients
<1>6. CASE Exit(c)
  BY <1>3, <1>6 DEF Exit
<1> QED  BY <1>2, <1>4, <1>5, <1>6

\* The first request in the stream is the client's last call, and the only one.
LEMMA RequestMatches ==
  ASSUME IInv, OneAtATime, NEW e \in batch, ReceiveRequest(e)
  PROVE  OneAtATime'
<1>1. e.ptr \in Clients /\ requests[e.ptr] # <<>>
  BY DEF IInv, BatchIsReadable, ReceiveRequest
<1>2. UNCHANGED <<clientVars, responses>> /\ phase = "loop" /\ phase' = "exec"
  BY DEF ReceiveRequest, Handle
<1>3. current'.ptr = e.ptr /\ current'.id = Head(requests[e.ptr])
  BY DEF ReceiveRequest
<1>4. /\ requests'[e.ptr] = <<>>
      /\ \A d \in Clients \ {e.ptr} : requests'[d] = requests[d]
  BY <1>1 DEF ReceiveRequest, IInv, TypeOK
<1> SUFFICES ASSUME NEW d \in Clients, ~failed[d], pc[d] # "gone"
             PROVE  OneCall(d)'
  BY <1>2 DEF OneAtATime, clientVars
<1>5. OneCall(d)
  BY DEF OneAtATime
<1>6. CASE d = e.ptr
  <2>1. /\ pc[d] = "waiting" /\ responses[d] = <<>>
        /\ Head(requests[d]) = next_id[d] - 1
    BY <1>1, <1>5, <1>6 DEF OneCall
  <2> QED  BY <1>2, <1>3, <1>4, <1>5, <1>6, <2>1 DEF OneCall, Executing, clientVars
<1>7. CASE d # e.ptr
  BY <1>2, <1>3, <1>4, <1>5, <1>7 DEF OneCall, Executing, clientVars
<1> QED  BY <1>6, <1>7

\* The response goes to the client that called.
LEMMA ResponseMatches ==
  ASSUME IInv, OneAtATime, SendResponse
  PROVE  OneAtATime'
<1> DEFINE c == current.ptr
<1>1. c \in Clients /\ current.id \in Ids /\ file[fdnum[c]] = c
  BY DEF IInv, ControlOK, EventsAreValid, SendResponse
<1>2. UNCHANGED <<clientVars, requests>> /\ phase = "exec" /\ phase' = "loop"
  BY DEF SendResponse
<1>3. \A d \in Clients \ {c} : responses'[d] = responses[d]
  BY <1>1 DEF SendResponse, co_socket_send, IInv, TypeOK
<1>4. pc[c] # "gone" => responses'[c] = Append(responses[c], current.id)
  BY <1>1 DEF SendResponse, co_socket_send, IInv, TypeOK
<1> SUFFICES ASSUME NEW d \in Clients, ~failed[d], pc[d] # "gone"
             PROVE  OneCall(d)'
  BY <1>2 DEF OneAtATime, clientVars
<1>5. OneCall(d)
  BY DEF OneAtATime
<1>6. CASE d = c
  <2>1. Executing(d)
    BY <1>2, <1>6 DEF Executing
  <2>2. /\ pc[d] = "waiting" /\ current.id = next_id[d] - 1
        /\ requests[d] = <<>> /\ responses[d] = <<>>
    BY <1>5, <2>1 DEF OneCall
  <2>3. responses'[d] = Append(<<>>, current.id)
    BY <1>4, <1>6, <2>2
  <2>4. Head(responses'[d]) = next_id[d] - 1
    <3>1. current.id \in Ids => Head(Append(<<>>, current.id)) = current.id
      OBVIOUS
    <3> QED  BY <1>1, <2>2, <2>3, <3>1
  <2> QED  BY <1>2, <1>5, <2>2, <2>4 DEF OneCall, Executing, clientVars
<1>7. CASE d # c
  <2>1. ~Executing(d)
    BY <1>7 DEF Executing
  <2> QED  BY <1>2, <1>3, <1>5, <1>7, <2>1 DEF OneCall, Executing, clientVars
<1> QED  BY <1>6, <1>7

LEMMA NextOneAtATime == IInv /\ OneAtATime /\ [Next]_vars => OneAtATime'
<1> SUFFICES ASSUME IInv, OneAtATime, [Next]_vars PROVE OneAtATime'
  OBVIOUS
<1>1. CASE \E c \in Clients : ClientStep(c)
  BY <1>1, ReceiveMatches, ClientMatches DEF ClientStep
<1>2. CASE unix_socket_bind \/ EpollWait
  BY <1>2, Elsewhere DEF unix_socket_bind, EpollWait, streamVars
<1>3. CASE \E e \in batch : HandleEvent(e)
  <2>1. PICK e \in batch : HandleEvent(e)
    BY <1>3
  <2>2. CASE PollError(e) \/ PollHangup(e) \/ ReceiveRequestFails(e)
    BY <2>2, Elsewhere
       DEF PollError, PollHangup, ReceiveRequestFails, co_socket_hangup, Close, CloseEnds, Handle
  <2>3. CASE Accept(e)
    BY <2>3, Elsewhere DEF Accept, Handle, streamVars
  <2>4. CASE AcceptFails(e)
    BY <2>4, Elsewhere DEF AcceptFails, HangupListening, CloseEnds, Handle
  <2>5. CASE ReceiveRequest(e)
    BY <2>5, RequestMatches
  <2> QED  BY <2>1, <2>2, <2>3, <2>4, <2>5 DEF HandleEvent
<1>4. CASE SendResponse
  BY <1>4, ResponseMatches
<1>5. CASE co_loop_destroy
  BY <1>5, Elsewhere DEF co_loop_destroy, co_socket_destroy, CloseEnds
<1>6. CASE UNCHANGED vars
  BY <1>6 DEF vars, clientVars, streamVars, daemonVars, OneAtATime, OneCall, Executing
<1> QED  BY <1>1, <1>2, <1>3, <1>4, <1>5, <1>6 DEF Next, LoopStep

\* As long as no call of a client failed, each got its own response, although
\* co_call does not compare ids and a receive takes all that has arrived.
THEOREM AnswersAlwaysMatch == Spec => []AnswersMatch
<1>1. Init => OneAtATime
  BY InitOneAtATime
<1>2. IInv /\ OneAtATime /\ [Next]_vars => OneAtATime'
  BY NextOneAtATime
<1>3. OneAtATime => AnswersMatch
  BY DEF OneAtATime, OneCall, First, AnswersMatch
<1> QED  BY <1>1, <1>2, <1>3, ManagementInvariant, PTL DEF Spec

-----------------------------------------------------------------------------
(* The refinement of CallService.                                          *)

Elements(s) == {s[i] : i \in 1..Len(s)}

LEMMA ElementsFacts ==
  ASSUME NEW S, NEW s \in Seq(S)
  PROVE  /\ \A e \in S : Elements(Append(s, e)) = Elements(s) \cup {e}
         /\ s # <<>> => Head(s) \in Elements(s)
         /\ Elements(s) \subseteq S
<1>1. ASSUME NEW e \in S PROVE Elements(Append(s, e)) = Elements(s) \cup {e}
  <2>1. /\ Len(s) \in Nat /\ Len(Append(s, e)) = Len(s) + 1
        /\ Append(s, e)[Len(s) + 1] = e
        /\ \A i \in 1..Len(s) : Append(s, e)[i] = s[i]
    OBVIOUS
  <2>2. 1..Len(s) + 1 = (1..Len(s)) \cup {Len(s) + 1}
    BY <2>1
  <2> QED  BY <2>1, <2>2 DEF Elements
<1>2. ASSUME s # <<>> PROVE Head(s) \in Elements(s)
  <2>1. Len(s) \in Nat /\ Len(s) # 0 /\ Head(s) = s[1]
    BY <1>2
  <2>2. 1 \in 1..Len(s)
    BY <2>1
  <2> QED  BY <2>1, <2>2 DEF Elements
<1>3. Elements(s) \subseteq S
  BY DEF Elements
<1> QED  BY <1>1, <1>2, <1>3

LEMMA NoElements == Elements(<<>>) = {}
BY DEF Elements

\* The calls of a client on their way, whether or not some of them failed: what
\* waits was made after what was executed, and only what was executed comes back,
\* the command that runs last.
Ordered(c) ==
  /\ \A x \in Elements(executed[c]) \cup Elements(requests[c]) : x < next_id[c]
  /\ \A x \in Elements(executed[c]), y \in Elements(requests[c]) : x < y
  /\ Elements(responses[c]) \cup Elements(answers[c]) \subseteq Elements(executed[c])
  /\ \A x \in Elements(answers[c]), y \in Elements(responses[c]) : x < y
  /\ Executing(c) =>
        /\ current.id \in Elements(executed[c])
        /\ \A x \in Elements(answers[c]) \cup Elements(responses[c]) : x < current.id

InOrder == \A c \in Clients : Ordered(c)

LEMMA InitInOrder == Init => InOrder
BY NoElements DEF Init, InOrder, Ordered, Executing

\* Requests and responses may get lost, and nothing else happens to calls.
LEMMA LosesOnly ==
  ASSUME InOrder, UNCHANGED <<next_id, answers, executed>>,
         \A d \in Clients : requests'[d] \in {requests[d], <<>>},
         \A d \in Clients : responses'[d] \in {responses[d], <<>>},
         \/ UNCHANGED <<phase, current>>
         \/ phase' # "exec"
  PROVE  InOrder'
<1> SUFFICES ASSUME NEW d \in Clients PROVE Ordered(d)'
  BY DEF InOrder
<1>1. Ordered(d)
  BY DEF InOrder
<1>2. /\ Elements(requests'[d]) \subseteq Elements(requests[d])
      /\ Elements(responses'[d]) \subseteq Elements(responses[d])
  BY NoElements
<1>3. Executing(d)' => Executing(d) /\ UNCHANGED current
  BY DEF Executing
<1> QED  BY <1>1, <1>2, <1>3 DEF Ordered

\* co_call numbers a request higher than all before it.
LEMMA CallInOrder ==
  ASSUME IInv, InOrder, NEW c \in Clients, co_call(c)
  PROVE  InOrder' /\ Calls!Make(c)
<1>1. TypeOK
  BY DEF IInv
<1>2. UNCHANGED <<answers, executed, phase, current>>
  BY DEF co_call, daemonVars
<1>3. /\ next_id' = [next_id EXCEPT ![c] = @ + 1] /\ next_id[c] \in Ids
      /\ next_id'[c] = next_id[c] + 1 /\ \A d \in Clients \ {c} : next_id'[d] = next_id[d]
  BY <1>1, ManagementAssumption DEF TypeOK, co_call, co_request_alloc, Ids
<1>4. \A d \in Clients : responses'[d] \in {responses[d], <<>>}
  BY <1>1 DEF TypeOK, co_call, Leave
<1>5. /\ Elements(requests'[c]) \subseteq Elements(requests[c]) \cup {next_id[c]}
      /\ \A d \in Clients \ {c} : requests'[d] = requests[d]
  <2>1. \/ UNCHANGED requests
        \/ requests' = [requests EXCEPT ![c] = Append(@, next_id[c])]
    BY DEF co_call
  <2>2. Elements(Append(requests[c], next_id[c])) = Elements(requests[c]) \cup {next_id[c]}
    BY <1>1, <1>3, ElementsFacts DEF TypeOK
  <2> QED  BY <1>1, <2>1, <2>2 DEF TypeOK
<1>6. ASSUME NEW d \in Clients PROVE Ordered(d)'
  <2>1. Ordered(d)
    BY DEF InOrder
  <2>2. Elements(responses'[d]) \subseteq Elements(responses[d])
    BY <1>4, NoElements
  <2>3. next_id[d] \in Nat /\ \A x \in Elements(executed[d]) \cup Elements(requests[d]) : x \in Nat
    <3>1. executed[d] \in Seq(Ids) /\ requests[d] \in Seq(Ids) /\ next_id[d] \in 0..MaxCalls
      BY <1>1 DEF TypeOK
    <3>2. Ids \subseteq Nat
      BY ManagementAssumption DEF Ids
    <3>3. Elements(executed[d]) \subseteq Ids /\ Elements(requests[d]) \subseteq Ids
      BY <3>1, ElementsFacts
    <3> QED  BY <3>1, <3>2, <3>3, ManagementAssumption
  <2>4. CASE d = c
    BY <1>2, <1>3, <1>5, <2>1, <2>2, <2>3, <2>4 DEF Ordered, Executing
  <2>5. CASE d # c
    BY <1>2, <1>3, <1>5, <2>1, <2>2, <2>5 DEF Ordered, Executing
  <2> QED  BY <2>4, <2>5
<1> QED  BY <1>2, <1>3, <1>6 DEF InOrder, Calls!Make

\* What the client takes is newer than all it took before.
LEMMA ReceiveInOrder ==
  ASSUME IInv, InOrder, NEW c \in Clients, Receive(c)
  PROVE  InOrder' /\ \E i \in 0..next_id[c] - 1 : Calls!Deliver(c, i)
<1> DEFINE i == Head(responses[c])
<1>1. TypeOK
  BY DEF IInv
<1>2. UNCHANGED <<next_id, requests, executed, phase, current>>
  BY DEF Receive, daemonVars
<1>3. i \in Elements(responses[c]) /\ i \in Ids
  BY <1>1, ElementsFacts DEF Receive, TypeOK
<1>4. /\ answers' = [answers EXCEPT ![c] = Append(@, i)]
      /\ Elements(answers'[c]) = Elements(answers[c]) \cup {i}
      /\ \A d \in Clients \ {c} : answers'[d] = answers[d]
  BY <1>1, <1>3, ElementsFacts DEF Receive, TypeOK
<1>5. /\ Elements(responses'[c]) = {}
      /\ \A d \in Clients \ {c} : responses'[d] = responses[d]
  BY <1>1, NoElements DEF Receive, TypeOK
<1>6. ASSUME NEW d \in Clients PROVE Ordered(d)'
  <2>1. Ordered(d)
    BY DEF InOrder
  <2>2. CASE d = c
    BY <1>2, <1>3, <1>4, <1>5, <2>1, <2>2 DEF Ordered, Executing
  <2>3. CASE d # c
    BY <1>2, <1>4, <1>5, <2>1, <2>3 DEF Ordered, Executing
  <2> QED  BY <2>2, <2>3
<1>7. i \in 0..next_id[c] - 1
  <2>1. i < next_id[c]
    BY <1>3 DEF InOrder, Ordered
  <2> QED  BY <1>1, <1>3, <2>1, ManagementAssumption DEF TypeOK, Ids
<1>8. Calls!Deliver(c, i)
  <2>1. \E n \in 1..Len(executed[c]) : executed[c][n] = i
    <3>1. i \in Elements(executed[c])
      BY <1>3 DEF InOrder, Ordered
    <3> HIDE DEF i
    <3> QED  BY <3>1 DEF Elements
  <2>2. Calls!After(answers[c], i)
    <3>1. \A x \in Elements(answers[c]) : x < i
      BY <1>3 DEF InOrder, Ordered
    <3> HIDE DEF i
    <3> QED  BY <3>1 DEF Elements, Calls!After
  <2> QED  BY <1>2, <1>4, <2>1, <2>2 DEF Calls!Deliver
<1> QED  BY <1>6, <1>7, <1>8 DEF InOrder

\* What the daemon executes is newer than all it executed for that client.
LEMMA RequestInOrder ==
  ASSUME IInv, InOrder, NEW e \in batch, ReceiveRequest(e)
  PROVE  /\ InOrder' /\ e.ptr \in Clients
         /\ \E i \in 0..next_id[e.ptr] - 1 : Calls!Execute(e.ptr, i)
<1> DEFINE c == e.ptr
           i == Head(requests[c])
<1>1. TypeOK /\ c \in Clients /\ requests[c] # <<>>
  BY DEF IInv, BatchIsReadable, ReceiveRequest
<1>2. UNCHANGED <<next_id, answers, responses>>
  BY DEF ReceiveRequest, clientVars
<1>3. i \in Elements(requests[c]) /\ i \in Ids
  BY <1>1, ElementsFacts DEF TypeOK
<1>4. /\ executed' = [executed EXCEPT ![c] = Append(@, i)]
      /\ Elements(executed'[c]) = Elements(executed[c]) \cup {i}
      /\ \A d \in Clients \ {c} : executed'[d] = executed[d]
  BY <1>1, <1>3, ElementsFacts DEF ReceiveRequest, TypeOK
<1>5. /\ Elements(requests'[c]) = {}
      /\ \A d \in Clients \ {c} : requests'[d] = requests[d]
  BY <1>1, NoElements DEF ReceiveRequest, TypeOK
<1>6. current'.ptr = c /\ current'.id = i
  BY DEF ReceiveRequest
<1>7. ASSUME NEW d \in Clients PROVE Ordered(d)'
  <2>1. Ordered(d)
    BY DEF InOrder
  <2>2. CASE d = c
    <3>1. \A x \in Elements(executed[c]) : x < i
      BY <1>3, <2>1, <2>2 DEF Ordered
    <3>2. \A x \in Elements(executed'[c]) : x < next_id[c]
      BY <1>3, <1>4, <2>1, <2>2 DEF Ordered
    <3>3. Elements(responses[c]) \cup Elements(answers[c]) \subseteq Elements(executed[c])
      BY <2>1, <2>2 DEF Ordered
    <3>4. \A x \in Elements(answers[c]), y \in Elements(responses[c]) : x < y
      BY <2>1, <2>2 DEF Ordered
    <3> HIDE DEF i
    <3> QED  BY <1>2, <1>4, <1>5, <1>6, <2>2, <3>1, <3>2, <3>3, <3>4 DEF Ordered
  <2>3. CASE d # c
    BY <1>2, <1>4, <1>5, <1>6, <2>1, <2>3 DEF Ordered, Executing
  <2> QED  BY <2>2, <2>3
<1>8. i \in 0..next_id[c] - 1
  <2>1. i < next_id[c]
    BY <1>1, <1>3 DEF InOrder, Ordered
  <2> QED  BY <1>1, <1>3, <2>1, ManagementAssumption DEF TypeOK, Ids
<1>9. Calls!Execute(c, i)
  <2>1. Calls!After(executed[c], i)
    <3>1. \A x \in Elements(executed[c]) : x < i
      BY <1>1, <1>3 DEF InOrder, Ordered
    <3> HIDE DEF i
    <3> QED  BY <3>1 DEF Elements, Calls!After
  <2> QED  BY <1>2, <1>4, <2>1 DEF Calls!Execute
<1> QED  BY <1>1, <1>7, <1>8, <1>9 DEF InOrder

\* The response of the command that ran follows those before it.
LEMMA ResponseInOrder ==
  ASSUME IInv, InOrder, SendResponse
  PROVE  InOrder'
<1> DEFINE c == current.ptr
<1>1. TypeOK /\ c \in Clients /\ current.id \in Ids /\ file[fdnum[c]] = c
  BY DEF IInv, ControlOK, EventsAreValid, SendResponse
<1>2. UNCHANGED <<next_id, answers, requests, executed>> /\ phase = "exec" /\ phase' = "loop"
  BY DEF SendResponse, clientVars
<1>3. \A d \in Clients \ {c} : responses'[d] = responses[d]
  BY <1>1 DEF SendResponse, co_socket_send, TypeOK
<1>4. Elements(responses'[c]) \subseteq Elements(responses[c]) \cup {current.id}
  <2>1. responses'[c] \in {responses[c], Append(responses[c], current.id)}
    BY <1>1 DEF SendResponse, co_socket_send, TypeOK
  <2>2. responses[c] \in Seq(Ids)
    BY <1>1 DEF TypeOK
  <2>3. Elements(Append(responses[c], current.id)) = Elements(responses[c]) \cup {current.id}
    BY <1>1, <2>2, ElementsFacts
  <2> QED  BY <2>1, <2>3
<1>5. ASSUME NEW d \in Clients PROVE Ordered(d)'
  <2>1. Ordered(d) /\ ~Executing(d)'
    BY <1>2 DEF InOrder, Executing
  <2>2. CASE d = c
    <3>1. Executing(d)
      BY <1>2, <2>2 DEF Executing
    <3> QED  BY <1>2, <1>4, <2>1, <2>2, <3>1 DEF Ordered
  <2>3. CASE d # c
    BY <1>2, <1>3, <2>1, <2>3 DEF Ordered
  <2> QED  BY <2>2, <2>3
<1> QED  BY <1>5 DEF InOrder

\* Every step of the system is a step of the service or none.
LEMMA NextInOrder ==
  ASSUME IInv, InOrder, [Next]_vars
  PROVE  InOrder' /\ [Calls!Next]_(Calls!vars)
<1>1. TypeOK
  BY DEF IInv
<1>2. ASSUME UNCHANGED <<next_id, answers, executed>>,
             \A d \in Clients : requests'[d] \in {requests[d], <<>>},
             \A d \in Clients : responses'[d] \in {responses[d], <<>>},
             UNCHANGED <<phase, current>> \/ phase' # "exec"
      PROVE  InOrder' /\ [Calls!Next]_(Calls!vars)
  BY <1>2, LosesOnly DEF Calls!vars
<1>3. CASE \E c \in Clients : ClientStep(c)
  <2>1. PICK c \in Clients : ClientStep(c)
    BY <1>3
  <2>2. CASE co_connect(c)
    BY <1>2, <2>2 DEF co_connect, streamVars, daemonVars
  <2>3. CASE co_call(c)
    BY <2>3, CallInOrder DEF Calls!Next
  <2>4. CASE Receive(c)
    BY <2>4, ReceiveInOrder DEF Calls!Next
  <2>5. CASE ReceiveFails(c) \/ Exit(c)
    BY <1>1, <1>2, <2>5 DEF ReceiveFails, Exit, Leave, TypeOK, daemonVars
  <2> QED  BY <2>1, <2>2, <2>3, <2>4, <2>5 DEF ClientStep
<1>4. CASE unix_socket_bind \/ EpollWait
  BY <1>2, <1>4 DEF unix_socket_bind, EpollWait, clientVars, streamVars
<1>5. CASE \E e \in batch : HandleEvent(e)
  <2>1. PICK e \in batch : HandleEvent(e)
    BY <1>5
  <2>2. CASE PollError(e) \/ PollHangup(e) \/ ReceiveRequestFails(e)
    BY <1>2, <2>2
       DEF PollError, PollHangup, ReceiveRequestFails, co_socket_hangup, Close, CloseEnds, clientVars
  <2>3. CASE Accept(e)
    BY <1>2, <2>3 DEF Accept, clientVars, streamVars
  <2>4. CASE AcceptFails(e)
    BY <1>2, <2>4 DEF AcceptFails, HangupListening, CloseEnds, clientVars
  <2>5. CASE ReceiveRequest(e)
    BY <2>5, RequestInOrder DEF Calls!Next
  <2> QED  BY <2>1, <2>2, <2>3, <2>4, <2>5 DEF HandleEvent
<1>6. CASE SendResponse
  BY <1>6, ResponseInOrder DEF SendResponse, clientVars, Calls!vars
<1>7. CASE co_loop_destroy
  BY <1>2, <1>7 DEF co_loop_destroy, co_socket_destroy, CloseEnds, clientVars
<1>8. CASE UNCHANGED vars
  BY <1>2, <1>8 DEF vars, clientVars, streamVars, daemonVars
<1> QED  BY <1>3, <1>4, <1>5, <1>6, <1>7, <1>8 DEF Next, LoopStep

\* Calls are executed at most once and in order, and answered in order, no result
\* twice, with any number of clients, time-outs, broken connections and restarts.
THEOREM CallsImplemented == Spec => ImplementsCalls
<1>1. Init => InOrder /\ Calls!Init
  BY InitInOrder DEF Init, Calls!Init
<1>2. IInv /\ InOrder /\ [Next]_vars => InOrder' /\ [Calls!Next]_(Calls!vars)
  BY NextInOrder
<1> QED  BY <1>1, <1>2, ManagementInvariant, PTL DEF Spec, ImplementsCalls, Calls!Spec

=============================================================================
