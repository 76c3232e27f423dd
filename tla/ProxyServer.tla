----------------------------- MODULE ProxyServer -----------------------------
(***************************************************************************)
(* The event loop of the proxy (server/proxy_server.cc, core/connection.cc, *)
(* core/protocol/socks4.cc) over the Linux poller and sockets               *)
(* (core/os/linux/network_linux.cc).                                        *)
(*                                                                          *)
(* One thread waits for a batch of events and handles them one after the    *)
(* other.  The kernel and the remote ends go on in between: bytes, FINs and *)
(* RSTs arrive while a batch is handled, and also between the readable and  *)
(* the writable half of one event.                                          *)
(***************************************************************************)
EXTENDS Socks4, Functions

CONSTANTS
  Fd,             \* descriptors the process can still open (its rlimit)
  ListenFd,       \* the listening socket
  MaxEvents,      \* config_.max_events
  MaxClients,     \* bound: clients that ever call
  ClientStreams,  \* what a client sends, in order, if nothing breaks
  ServerStreams,  \* what a destination sends
  Faults          \* what else may happen in this run

FaultKinds == { "fin",         \* a remote end closes its sending side
                "reset",       \* a remote end resets, or refuses, the connection
                "connect",     \* ConnectTCPIPv4 or the set-up after it fails
                "accept",      \* accept() fails though a client waits
                "fcntl",       \* an accepted socket cannot be made non-blocking
                "epoll_add",   \* EPOLL_CTL_ADD fails for an accepted socket
                "listener",    \* an error event on the listening socket
                "signal",      \* epoll_wait fails with EINTR
                "epoll_wait" } \* epoll_wait fails for good

ASSUME FdAssumption == Fd \subseteq Nat /\ IsFiniteSet(Fd) /\ ListenFd \in Nat \ Fd
ASSUME BoundAssumption == MaxEvents \in Nat \ {0} /\ MaxClients \in Nat
ASSUME StreamAssumption ==
  ClientStreams \subseteq Seq(InputKinds) /\ ServerStreams \subseteq Seq(InputKinds)
ASSUME FaultAssumption == Faults \subseteq FaultKinds

NoFd == -1

VARIABLES
  status,       \* "running"; "stopped": Run returned; "killed": by SIGPIPE
  connections,  \* connections_: descriptor -> Connection
  interest,     \* the poller: descriptor -> events asked for
  batch,        \* the events of this wait that are still to be handled
  current,      \* descriptor in the middle of its event, or NoFd
  sockets,      \* the kernel's side of every open connection
  backlog,      \* clients the kernel has queued on the listening socket
  callers,      \* clients that have called so far
  made          \* connection sockets opened so far

loop == <<status, batch, current>>
callerVars == <<backlog, callers>>
vars == <<status, connections, interest, batch, current, sockets, backlog,
          callers, made>>

-----------------------------------------------------------------------------
(* Tables: emplace, erase, and the empty one. *)

Nothing == [ f \in {} |-> {} ]
Put(table, f, value) ==
  [ g \in DOMAIN table \cup {f} |-> IF g = f THEN value ELSE table[g] ]
Erased(table, f) == Restrict(table, DOMAIN table \ {f})

(* Mutant: peer_socket_id_ left zero. *)
ZeroPeerConnection(role, peer) ==
  [ role |-> role, peer |-> 0, recv |-> <<>>, send |-> <<>>,
    want |-> FALSE, closed |-> FALSE, proto |-> "none" ]

(* A Connection as its constructor leaves it, but for the peer. *)
NewConnection(role, peer) ==
  [ role |-> role, peer |-> peer, recv |-> <<>>, send |-> <<>>,
    want |-> FALSE, closed |-> FALSE, proto |-> "none" ]

(* A socket of the kernel: `todo' is what the remote end has still to send, *)
(* `inq' what recv can return, `up' that the handshake is over.  `gen',     *)
(* `given' and `paired' are history: the incarnation of the descriptor,     *)
(* all that send() has taken for the remote end, and the incarnations of    *)
(* the sockets CreateUpstreamTCPConnection linked with it.                  *)
NewSocket(gen, todo, up, paired) ==
  [ gen |-> gen, todo |-> todo, inq |-> <<>>, fin |-> FALSE, err |-> "ok",
    up |-> up, given |-> <<>>, paired |-> paired ]

(* The descriptor the kernel hands out: the lowest free one. *)
Lowest(f) == /\ f \in Fd \ DOMAIN sockets
             /\ \A g \in Fd \ DOMAIN sockets : f <= g

NoFreeFd == Fd \subseteq DOMAIN sockets

(* The connection found under peer_socket_id_, or none. *)
PeerOf(fd) == IF connections[fd].peer \in DOMAIN connections
              THEN connections[fd].peer ELSE NoFd

(* Mutant: with nothing to write the connection is disarmed altogether. *)
WantedOrNothing(c) == IF c.want THEN {"IN", "OUT"} ELSE {}

(* UpdateEventInterest as the loop calls it: always readable, writable when *)
(* the connection has something to write.                                   *)
Wanted(c) == IF c.want THEN {"IN", "OUT"} ELSE {"IN"}

(* Return value -1 of epoll_wait, an error of the listener: the loop ends,  *)
(* CleanUpResources closes everything.  SIGPIPE: the kernel does.           *)
Halt(how) ==
  /\ status' = how
  /\ connections' = Nothing /\ interest' = Nothing /\ sockets' = Nothing
  /\ batch' = Nothing /\ current' = NoFd
  /\ backlog' = 0
  /\ UNCHANGED <<callers, made>>

-----------------------------------------------------------------------------
(* The kernel and the remote ends. *)

Init ==
  /\ status = "running"
  /\ connections = Nothing /\ interest = Nothing /\ sockets = Nothing
  /\ batch = Nothing /\ current = NoFd
  /\ backlog = 0 /\ callers = 0 /\ made = 0

ClientCalls ==
  /\ status = "running" /\ callers < MaxClients
  /\ callers' = callers + 1
  /\ backlog' = backlog + 1
  /\ UNCHANGED <<loop, connections, interest, sockets, made>>

(* A remote end acts on the socket: `s' is what the socket becomes. *)
Remote(fd, s) ==
  /\ sockets' = [sockets EXCEPT ![fd] = s]
  /\ UNCHANGED <<loop, connections, interest, callerVars, made>>

Arrive(fd) ==
  LET s == sockets[fd] IN
  /\ s.up /\ s.todo # <<>>
  /\ Remote(fd, [s EXCEPT !.todo = Tail(s.todo),
                          !.inq = Append(s.inq, [kind |-> Head(s.todo), src |-> s.gen])])

(* What the remote end has not sent by now it never sends. *)
FinArrives(fd) ==
  LET s == sockets[fd] IN
  /\ "fin" \in Faults
  /\ s.up /\ ~s.fin /\ s.err = "ok"
  /\ Remote(fd, [s EXCEPT !.fin = TRUE, !.todo = <<>>])

(* A RST, in particular the answer of a destination that refuses. *)
ResetArrives(fd) ==
  LET s == sockets[fd] IN
  /\ "reset" \in Faults
  /\ s.err = "ok"
  /\ Remote(fd, [s EXCEPT !.err = "reset", !.todo = <<>>])

(* The handshake that connect() began is over. *)
ConnectCompletes(fd) ==
  LET s == sockets[fd] IN
  /\ ~s.up /\ s.err = "ok"
  /\ Remote(fd, [s EXCEPT !.up = TRUE])

Environment ==
  \/ ClientCalls
  \/ \E fd \in DOMAIN sockets : \/ Arrive(fd) \/ FinArrives(fd)
                                \/ ResetArrives(fd) \/ ConnectCompletes(fd)

-----------------------------------------------------------------------------
(* WaitForEvents. *)

(* What epoll reports of a connection when the sockets of `room' have space *)
(* in their send buffers.  An error or a hangup makes the loop ignore the   *)
(* rest of the mask.                                                        *)
Reported(fd, room) ==
  LET s == sockets[fd] IN
  IF s.err # "ok" THEN {"Error"}
  ELSE (IF "IN" \in interest[fd] /\ (s.inq # <<>> \/ s.fin) THEN {"Readable"} ELSE {})
       \cup (IF "OUT" \in interest[fd] /\ s.up /\ fd \in room THEN {"Writable"} ELSE {})

Waiting == status = "running" /\ batch = Nothing /\ current = NoFd

(* At most MaxEvents of the sockets that are ready, in no given order. *)
WaitForEvents ==
  /\ Waiting
  /\ \E room \in SUBSET { f \in DOMAIN sockets : sockets[f].up },
        broken \in (IF "listener" \in Faults THEN BOOLEAN ELSE {FALSE}) :
       LET ready == { f \in DOMAIN sockets : Reported(f, room) # {} }
                    \cup (IF backlog > 0 \/ broken THEN {ListenFd} ELSE {})
       IN \E some \in SUBSET ready :
            /\ some # {}
            /\ Cardinality(some) = MaxEvents \/ (some = ready /\ Cardinality(ready) < MaxEvents)
            /\ batch' = [ f \in some |-> IF f # ListenFd THEN Reported(f, room)
                                         ELSE IF broken THEN {"Error"} ELSE {"Readable"} ]
  /\ UNCHANGED <<status, current, connections, interest, sockets, callerVars, made>>

(* EINTR is told apart from other errors, but both return -1. *)
WaitInterrupted == Waiting /\ "signal" \in Faults /\ Halt("stopped")
WaitFails == Waiting /\ "epoll_wait" \in Faults /\ Halt("stopped")

-----------------------------------------------------------------------------
(* The event that is handled next, and its end. *)

NextEvent(fd, event) ==
  /\ current = NoFd
  /\ fd \in DOMAIN batch /\ event \in batch[fd]

Done(fd) == batch' = Erased(batch, fd) /\ current' = NoFd /\ status' = status

(* Mutant: the peer is erased along with the connection. *)
ErasePair(fd) ==
  LET gone == {fd, connections[fd].peer} IN
  /\ connections' = Restrict(connections, DOMAIN connections \ gone)
  /\ sockets' = Restrict(sockets, DOMAIN sockets \ gone)
  /\ interest' = Restrict(interest, DOMAIN interest \ gone)
  /\ UNCHANGED <<callerVars, made>>

(* The connection is erased: its destructor closes the socket, which also   *)
(* leaves the poller.  A peer keeps its link.                               *)
EraseConnection(fd) ==
  /\ connections' = Erased(connections, fd)
  /\ sockets' = Erased(sockets, fd)
  /\ interest' = Erased(interest, fd)
  /\ UNCHANGED <<callerVars, made>>

ListenerError == NextEvent(ListenFd, "Error") /\ Halt("stopped")

(* Mutant: an error event is logged and otherwise ignored. *)
ErrorIgnored(fd) ==
  /\ NextEvent(fd, "Error") /\ Done(fd)
  /\ UNCHANGED <<connections, interest, sockets, callerVars, made>>

ErrorEvent(fd) == NextEvent(fd, "Error") /\ EraseConnection(fd) /\ Done(fd)

-----------------------------------------------------------------------------
(* AcceptNewClientConnection: one step for each turn of its loop. *)

Accepting == current = ListenFd \/ NextEvent(ListenFd, "Readable")

(* Mutant: a connection that still names the descriptor becomes the peer.   *)
AcceptedRelinked(fd, stream) ==
  \E peer \in Fd \cup {NoFd} :
    /\ IF \E f \in DOMAIN connections : connections[f].peer = fd
       THEN peer \in DOMAIN connections /\ connections[peer].peer = fd
       ELSE peer = NoFd
    /\ connections' = Put(connections, fd, NewConnection("Client", peer))
    /\ interest' = Put(interest, fd, {"IN"})
    /\ sockets' = Put(sockets, fd, NewSocket(made + 1, stream, TRUE, {}))
    /\ made' = made + 1

Accepted(fd, stream) ==
  /\ connections' = Put(connections, fd, NewConnection("Client", NoFd))
  /\ interest' = Put(interest, fd, {"IN"})
  /\ sockets' = Put(sockets, fd, NewSocket(made + 1, stream, TRUE, {}))
  /\ made' = made + 1

AcceptOne ==
  /\ Accepting /\ backlog > 0
  /\ \E fd \in Fd, stream \in ClientStreams : Lowest(fd) /\ Accepted(fd, stream)
  /\ backlog' = backlog - 1
  /\ batch' = Erased(batch, ListenFd) /\ current' = ListenFd
  /\ UNCHANGED <<status, callers>>

(* The accepted socket is closed at once: nothing but the queue changes. *)
Turned(next) ==
  /\ Accepting /\ backlog > 0 /\ ~NoFreeFd
  /\ backlog' = backlog - 1
  /\ batch' = Erased(batch, ListenFd) /\ current' = next
  /\ UNCHANGED <<status, connections, interest, sockets, callers, made>>

(* SetSocketNonBlocking fails: the loop goes on with the next client. *)
AcceptRejected == "fcntl" \in Faults /\ Turned(ListenFd)

(* Mutant: the socket that could not be registered is not closed. *)
AbortLeaks ==
  /\ "epoll_add" \in Faults /\ Accepting /\ backlog > 0
  /\ \E fd \in Fd : Lowest(fd) /\ sockets' = Put(sockets, fd, NewSocket(made + 1, <<>>, TRUE, {}))
  /\ backlog' = backlog - 1 /\ made' = made + 1
  /\ Done(ListenFd)
  /\ UNCHANGED <<connections, interest, callers>>

(* RegisterReadEvent fails: the loop is left with clients still queued. *)
AcceptAborted == "epoll_add" \in Faults /\ Turned(NoFd)

(* Mutant: any failure of accept() but "nobody waits" is retried at once. *)
AcceptRetries ==
  /\ Accepting /\ backlog = 0
  /\ Done(ListenFd)
  /\ UNCHANGED <<connections, interest, sockets, callerVars, made>>

(* accept() returns -1: nobody waits, no descriptor is left, or it fails. *)
AcceptDone ==
  /\ Accepting
  /\ backlog = 0 \/ NoFreeFd \/ "accept" \in Faults
  /\ Done(ListenFd)
  /\ UNCHANGED <<connections, interest, sockets, callerVars, made>>

-----------------------------------------------------------------------------
(* The readable half of an event. *)

(* Connection::Read drains the socket; an error it meets is consumed.       *)
Received(fd) == connections[fd].recv \o sockets[fd].inq
Drained(fd) ==
  [sockets EXCEPT ![fd].inq = <<>>,
                  ![fd].err = IF @ = "reset" THEN "dead" ELSE @]

(* Read returns PeerClosed at the end of the stream, and also when an       *)
(* earlier request left closed_ set; whatever was received goes with it.    *)
ReadClosed(fd) ==
  /\ NextEvent(fd, "Readable")
  /\ sockets[fd].fin \/ connections[fd].closed
  /\ EraseConnection(fd)
  /\ Done(fd)

ReadOpen(fd) ==
  /\ NextEvent(fd, "Readable")
  /\ ~sockets[fd].fin /\ ~connections[fd].closed

(* Mutant: SetProtocol does not stop at a protocol that is already set. *)
ProtocolReset(fd) ==
  IF connections[fd].role = "Client" /\ IsSocks4(Received(fd)) THEN "Init" ELSE connections[fd].proto

(* The protocol of a client once SetProtocol has looked at its bytes. *)
Protocol(fd) ==
  LET c == connections[fd] IN
  IF c.role = "Client" /\ c.proto = "none" /\ IsSocks4(Received(fd)) THEN "Init" ELSE c.proto

(* The state of the Socks4 object that OnReadable is called on: a client's  *)
(* own, and for an upstream connection that of its peer.                    *)
Handler(fd) ==
  IF connections[fd].role = "Client" THEN Protocol(fd)
  ELSE IF PeerOf(fd) = NoFd THEN "none" ELSE connections[PeerOf(fd)].proto

(* The connection after the peer look-up, Read and SetProtocol. *)
AfterRead(fd) ==
  [connections[fd] EXCEPT !.peer = PeerOf(fd), !.recv = Received(fd), !.proto = Protocol(fd)]

(* The health page is appended to the output. *)
HealthResponse(c) ==
  [c EXCEPT !.send = Append(c.send, [kind |-> "health", src |-> 0]), !.want = TRUE]

(* An unknown client is sent the health page and the event is over: its     *)
(* writable half is skipped.                                                *)
ReadUnknown(fd) ==
  /\ ReadOpen(fd)
  /\ connections[fd].role = "Client" /\ Protocol(fd) = "none"
  /\ connections' = [connections EXCEPT ![fd] = HealthResponse(AfterRead(fd))]
  /\ interest' = [interest EXCEPT ![fd] = {"IN", "OUT"}]
  /\ sockets' = Drained(fd)
  /\ Done(fd)
  /\ UNCHANGED <<callerVars, made>>

(* The event goes on with its writable half, if it has one. *)
EndRead(fd) ==
  IF "Writable" \in batch[fd]
  THEN batch' = [batch EXCEPT ![fd] = {"Writable"}] /\ current' = fd /\ status' = status
  ELSE Done(fd)

(* Mutant: the peer, whose output has just grown, is not re-armed. *)
RefreshedSelf(fd, table) == [interest EXCEPT ![fd] = Wanted(table[fd])]

(* The interests set at the end of the readable half: fd's and its peer's. *)
Refreshed(fd, table) ==
  [ f \in DOMAIN interest |-> IF f \in {fd, PeerOf(fd)} THEN Wanted(table[f]) ELSE interest[f] ]

(* Mutant: any client that speaks SOCKS4 is connected. *)
NeedsUpstreamAlways(c) == c.role = "Client" /\ c.proto # "none" /\ c.peer = NoFd

(* An established client without a peer, in its own event. *)
NeedsUpstream(c) == c.role = "Client" /\ c.proto = "Established" /\ c.peer = NoFd

(* socket(), connect() or the set-up of the socket fails, for want of        *)
(* descriptors or for another reason; nothing is left open.                 *)
CannotConnect == NoFreeFd \/ "connect" \in Faults

(* CreateUpstreamTCPConnection succeeds, which only means that the          *)
(* handshake has begun.                                                     *)
Upstream(fd, table) ==
  \E up \in Fd, stream \in ServerStreams :
    /\ Lowest(up)
    /\ connections' = Put([table EXCEPT ![fd].peer = up], up, NewConnection("Upstream", fd))
    /\ interest' = Put(Refreshed(fd, table), up, {"IN", "OUT"})
    /\ sockets' = Put([Drained(fd) EXCEPT ![fd].paired = @ \cup {made + 1}], up,
                      NewSocket(made + 1, stream, FALSE, {sockets[fd].gen}))
    /\ made' = made + 1

(* The rest of the readable half, once OnReadable has left `table'. *)
FinishRead(fd, table) ==
  /\ \/ NeedsUpstream(table[fd]) /\ Upstream(fd, table)
     \/ /\ NeedsUpstream(table[fd]) => CannotConnect
        /\ connections' = table
        /\ interest' = Refreshed(fd, table)
        /\ sockets' = Drained(fd)
        /\ made' = made
  /\ EndRead(fd)
  /\ UNCHANGED callerVars

(* Socks4::OnReadable in state Init with a whole request in the buffer: the *)
(* request is consumed, the reply staged on the connection it came from.    *)
Answered(c, end) ==
  LET granted == Granted(c.recv) IN
  [c EXCEPT !.recv = SubSeq(c.recv, end + 1, Len(c.recv)),
            !.send = Append(c.send, [kind |-> IF granted THEN "granted" ELSE "refused", src |-> 0]),
            !.want = TRUE,
            !.closed = ~granted]

(* The state the protocol object of a client is left in by the request. *)
Decided(buf) == IF Granted(buf) THEN "Established" ELSE "Failed"

ReadRequest(fd) ==
  /\ ReadOpen(fd) /\ Handler(fd) = "Init"
  /\ \E end \in RequestEnds(Received(fd)) :
       /\ \A other \in RequestEnds(Received(fd)) : end <= other
       /\ LET owner == IF connections[fd].role = "Client" THEN fd ELSE PeerOf(fd)
              after == [connections EXCEPT ![fd] = Answered(AfterRead(fd), end)]
          IN FinishRead(fd, [after EXCEPT ![owner].proto = Decided(Received(fd))])

(* State Established with a peer: the buffer moves to the peer. *)
Relays(fd) == Handler(fd) = "Established" /\ PeerOf(fd) # NoFd /\ Received(fd) # <<>>

(* Mutant: the peer's output is replaced. *)
TunnelOverwrites(fd) ==
  /\ ReadOpen(fd) /\ Relays(fd)
  /\ FinishRead(fd, [connections EXCEPT
       ![fd] = [AfterRead(fd) EXCEPT !.recv = <<>>],
       ![PeerOf(fd)].send = Received(fd),
       ![PeerOf(fd)].want = TRUE])

(* Mutant: it is staged on every other connection, not on the peer alone.   *)
TunnelBroadcasts(fd) ==
  /\ ReadOpen(fd) /\ Relays(fd)
  /\ FinishRead(fd, [ f \in DOMAIN connections |->
       IF f = fd THEN [AfterRead(fd) EXCEPT !.recv = <<>>]
       ELSE [connections[f] EXCEPT !.send = @ \o Received(fd), !.want = TRUE] ])

Tunnel(fd) ==
  /\ ReadOpen(fd) /\ Relays(fd)
  /\ FinishRead(fd, [connections EXCEPT
       ![fd] = [AfterRead(fd) EXCEPT !.recv = <<>>],
       ![PeerOf(fd)].send = @ \o Received(fd),
       ![PeerOf(fd)].want = TRUE])

(* The handler moves nothing: no handler, an incomplete request, no peer to *)
(* relay to, or nothing received.                                           *)
ReadKept(fd) ==
  /\ ReadOpen(fd)
  /\ ~(connections[fd].role = "Client" /\ Protocol(fd) = "none")
  /\ ~(Handler(fd) = "Init" /\ RequestEnds(Received(fd)) # {})
  /\ ~Relays(fd)
  /\ FinishRead(fd, [connections EXCEPT ![fd] = AfterRead(fd)])

-----------------------------------------------------------------------------
(* The writable half. *)

Writing(fd) ==
  /\ current \in {fd, NoFd}
  /\ fd \in DOMAIN batch /\ batch[fd] = {"Writable"}

(* Mutant: one write is taken to have sent everything. *)
WrittenOnce(fd, n) ==
  LET c == connections[fd]
      left == [c EXCEPT !.peer = PeerOf(fd), !.send = SubSeq(c.send, n + 1, Len(c.send)), !.want = FALSE]
  IN /\ connections' = [connections EXCEPT ![fd] = left]
     /\ interest' = [interest EXCEPT ![fd] = Wanted(left)]

(* Connection::Write when send() takes the first n pieces. *)
Written(fd, n) ==
  LET c == connections[fd]
      rest == SubSeq(c.send, n + 1, Len(c.send))
      left == [c EXCEPT !.peer = PeerOf(fd), !.send = rest, !.want = rest # <<>>]
  IN /\ connections' = [connections EXCEPT ![fd] = left]
     /\ interest' = [interest EXCEPT ![fd] = Wanted(left)]

(* A second failing send on a socket, or one after FIN and RST, is EPIPE.   *)
Pipe(fd) == /\ connections[fd].send # <<>>
            /\ \/ sockets[fd].err = "dead"
               \/ sockets[fd].err = "reset" /\ sockets[fd].fin

(* The socket after that; a pending error is reported once and consumed.    *)
Sent(fd, n) ==
  LET out == connections[fd].send IN
  [sockets EXCEPT ![fd].given = @ \o SubSeq(out, 1, n),
                  ![fd].err = IF @ = "reset" /\ out # <<>> THEN "dead" ELSE @]

(* A socket that failed takes nothing. *)
WriteEvent(fd) ==
  /\ Writing(fd) /\ ~Pipe(fd)
  /\ \E n \in 0..Len(connections[fd].send) :
       /\ n = 0 <=> (connections[fd].send = <<>> \/ sockets[fd].err # "ok")
       /\ Written(fd, n)
       /\ sockets' = Sent(fd, n)
  /\ Done(fd)
  /\ UNCHANGED <<callerVars, made>>

(* Send() passes no MSG_NOSIGNAL and SIGPIPE has its default action. *)
WriteKilled(fd) == Writing(fd) /\ Pipe(fd) /\ Halt("killed")

-----------------------------------------------------------------------------
Handle(fd) ==
  \/ ErrorEvent(fd) \/ ReadClosed(fd) \/ ReadUnknown(fd) \/ ReadRequest(fd)
  \/ Tunnel(fd) \/ ReadKept(fd) \/ WriteEvent(fd) \/ WriteKilled(fd)

Server ==
  \/ WaitForEvents \/ WaitInterrupted \/ WaitFails \/ ListenerError
  \/ AcceptOne \/ AcceptRejected \/ AcceptAborted \/ AcceptDone
  \/ \E fd \in Fd : Handle(fd)

Next == Environment \/ Server

(* A wait that reports the event. *)
Reports(fd, event) == WaitForEvents /\ fd \in DOMAIN batch' /\ event \in batch'[fd]

(* The thread runs; epoll serves its ready list in turn, so that no event   *)
(* that stays, or comes back, is left out of the batches for ever; a        *)
(* handshake ends, if only by a timeout.                                    *)
Fairness ==
  /\ WF_vars(Server)
  /\ SF_vars(Reports(ListenFd, "Readable"))
  /\ \A fd \in Fd :
       /\ \A event \in {"Error", "Readable", "Writable"} : SF_vars(Reports(fd, event))
       /\ WF_vars(fd \in DOMAIN sockets /\ (ConnectCompletes(fd) \/ (~sockets[fd].up /\ ResetArrives(fd))))

Spec == Init /\ [][Next]_vars
FairSpec == Spec /\ Fairness

-----------------------------------------------------------------------------
(* Properties. *)

ConnectionType ==
  [ role : {"Client", "Upstream"}, peer : Fd \cup {NoFd}, recv : Seq(Input),
    send : Seq(Piece), want : BOOLEAN, closed : BOOLEAN,
    proto : {"none", "Init", "Established", "Failed"} ]

SocketType ==
  [ gen : Nat, todo : Seq(InputKinds), inq : Seq(Input), fin : BOOLEAN,
    err : {"ok", "reset", "dead"}, up : BOOLEAN, given : Seq(Piece),
    paired : SUBSET Nat ]

(* The type of every variable; in particular a connection, its socket and   *)
(* its registration with the poller are one record per descriptor of Fd.    *)
TypeOK ==
  /\ status \in {"running", "stopped", "killed"}
  /\ DOMAIN connections \subseteq Fd
  /\ \A f \in DOMAIN connections : connections[f] \in ConnectionType
  /\ DOMAIN sockets \subseteq Fd
  /\ \A f \in DOMAIN sockets : sockets[f] \in SocketType
  /\ DOMAIN interest \subseteq Fd
  /\ \A f \in DOMAIN interest : interest[f] \in SUBSET {"IN", "OUT"}
  /\ DOMAIN batch \subseteq Fd \cup {ListenFd}
  /\ \A f \in DOMAIN batch : batch[f] \in SUBSET {"Readable", "Writable", "Error"}
  /\ current \in Fd \cup {ListenFd, NoFd}
  /\ backlog \in Nat /\ callers \in Nat /\ made \in Nat

(* connections_, the kernel's open sockets and the poller's registrations   *)
(* are about the same descriptors, whichever of accept, connect, fcntl or   *)
(* epoll_ctl failed on the way: nothing leaks and nothing is closed twice.  *)
TablesAgree ==
  /\ DOMAIN connections = DOMAIN sockets
  /\ DOMAIN connections = DOMAIN interest

(* No lost wake-up: a connection with bytes to send waits for the socket to *)
(* become writable, also when another connection's event put them there;    *)
(* and reading is never switched off.                                       *)
OutputArmed ==
  \A f \in DOMAIN connections :
    /\ connections[f].want <=> connections[f].send # <<>>
    /\ connections[f].want => "OUT" \in interest[f]
    /\ "IN" \in interest[f]

(* An event that waits its turn in the batch is about an open descriptor, so *)
(* that the loop's "not found" branches (proxy_server.cc:81-83, 123) are     *)
(* never taken.                                                              *)
PendingOpen == DOMAIN batch \subseteq DOMAIN connections \cup {ListenFd}

(* An event that waits its turn is about the very socket it was reported    *)
(* for: no other event of the batch closes the descriptor, and none hands   *)
(* it out again, though the look-up is by descriptor alone.                 *)
EventsFresh ==
  [][ \A f \in (DOMAIN batch \cap DOMAIN batch') \ {ListenFd} :
        /\ f \in DOMAIN sockets \cap DOMAIN sockets'
        /\ sockets'[f].gen = sockets[f].gen ]_vars

(* Only a granted request opens an upstream connection, and a refused       *)
(* client never gets one; no connection is its own peer, so the self ==     *)
(* peer test of socks4.cc:100 never bites.                                  *)
UpstreamAfterGrant ==
  \A f \in DOMAIN connections :
    LET c == connections[f] IN
    /\ c.role = "Client" /\ c.peer # NoFd => c.proto = "Established"
    /\ c.role = "Upstream" => c.proto = "none"
    /\ c.peer # f

(* A verdict is final: once a connection has a protocol it keeps it, and a  *)
(* granted or refused client stays so whatever it, or a stranger's upstream, *)
(* sends afterwards.                                                         *)
VerdictFinal ==
  [][ \A f \in DOMAIN connections \cap DOMAIN connections' :
        /\ connections[f].proto \in {"Established", "Failed"} =>
             connections'[f].proto = connections[f].proto
        /\ connections[f].proto = "Init" => connections'[f].proto # "none" ]_vars

(* Both ends of a tunnel are there and a granted request paired them.       *)
Tunnelled(fd) ==
  /\ fd \in DOMAIN connections /\ PeerOf(fd) # NoFd
  /\ connections[PeerOf(fd)].peer = fd
  /\ "Established" \in {connections[fd].proto, connections[PeerOf(fd)].proto}

(* Two connections that name each other were linked by one                  *)
(* CreateUpstreamTCPConnection, both as they are now.  A link that was left  *)
(* behind by a connection that went finds whoever has the descriptor since   *)
(* (proxy_server.cc:131), but the finder is never that stranger's own peer:  *)
(* bytes go astray in one direction only, and two wrong ends never make a    *)
(* tunnel.                                                                   *)
TunnelsGenuine ==
  \A f \in DOMAIN connections :
    LET p == PeerOf(f) IN
    p # NoFd /\ connections[p].peer = f => sockets[p].gen \in sockets[f].paired

(* What is read in a tunnel before the end of the stream reaches the peer's *)
(* output in full, behind what was there and with what had been left in the *)
(* receive buffer by an earlier event; nothing of it stays behind.          *)
RelayedWhole ==
  [][ \A f \in DOMAIN sockets \cap DOMAIN sockets' :
        /\ Tunnelled(f)
        /\ sockets[f].inq # <<>> /\ sockets'[f].inq = <<>>
        => /\ connections'[PeerOf(f)].send = connections[PeerOf(f)].send \o Received(f)
           /\ connections'[f].recv = <<>> ]_vars

(* Every event of a batch is handled, or the server ends.                   *)
BatchHandled == batch # Nothing ~> (batch = Nothing /\ current = NoFd)

(* Bytes the kernel holds for the proxy are read, or the connection closed. *)
InputRead ==
  \A f \in Fd : (f \in DOMAIN sockets /\ sockets[f].inq # <<>>)
                 ~> (f \notin DOMAIN sockets \/ sockets[f].inq = <<>>)

(* Output is written out, or the connection closed: also output of the      *)
(* health page and of a tunnel whose destination was still connecting.      *)
OutputWritten ==
  \A f \in Fd : (f \in DOMAIN connections /\ connections[f].send # <<>>)
                 ~> (f \notin DOMAIN connections \/ connections[f].send = <<>>)

(* A socket that failed is closed.                                          *)
FailedSocketClosed ==
  \A f \in Fd : (f \in DOMAIN sockets /\ sockets[f].err # "ok") ~>
                 (f \notin DOMAIN sockets \/ sockets[f].err = "ok")
=============================================================================
