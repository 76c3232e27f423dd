----------------------------- MODULE TunnelProofs -----------------------------
(***************************************************************************)
(* Two connections that name each other were linked by one                 *)
(* CreateUpstreamTCPConnection: the proof, for any descriptors, streams,    *)
(* batch size and failures.                                                 *)
(***************************************************************************)
EXTENDS ProxyServerProofs

(* What makes links tell old from new, of the connections `table', their    *)
(* sockets `open' and the number `n' of sockets made so far: a link leads to *)
(* the socket it was made for, or to a younger one that got the descriptor   *)
(* since.  Of two connections that name each other the younger one is        *)
(* therefore linked in earnest, and as a pairing is mutual so is the other.  *)
LinksInv(table, open, n) ==
  /\ \A f \in DOMAIN open : /\ open[f].gen <= n
                            /\ \A g \in open[f].paired : g <= n
  /\ \A f, g \in DOMAIN open : open[f].gen = open[g].gen => f = g
  /\ \A f, g \in DOMAIN open : open[g].gen \in open[f].paired => open[f].gen \in open[g].paired
  /\ \A f \in DOMAIN table :
       table[f].peer \in DOMAIN open =>
         \/ open[table[f].peer].gen \in open[f].paired
         \/ open[f].gen < open[table[f].peer].gen

Genuine == LinksInv(connections, sockets, made)

(* What the induction needs of the tables besides. *)
Numbered(table, open, n) ==
  /\ DOMAIN table = DOMAIN open /\ DOMAIN open \subseteq Fd /\ n \in Nat
  /\ \A f \in DOMAIN open : open[f].gen \in Nat /\ open[f].paired \in SUBSET Nat

LEMMA TablesNumbered == ASSUME IInv PROVE Numbered(connections, sockets, made)
BY DEF IInv, TablesAgree, TypeOK, SocketType, Numbered

(* Connections go, or lose their link. *)
Loosened(table, open, table2, open2) ==
  /\ DOMAIN table2 \subseteq DOMAIN table /\ DOMAIN open2 = DOMAIN table2
  /\ \A f \in DOMAIN table2 : /\ table2[f].peer \in {table[f].peer, NoFd}
                              /\ open2[f].gen = open[f].gen
                              /\ open2[f].paired = open[f].paired

LEMMA LoosenedGenuine ==
  ASSUME NEW table, NEW open, NEW n, Numbered(table, open, n), LinksInv(table, open, n),
         NEW table2, NEW open2, Loosened(table, open, table2, open2)
  PROVE  LinksInv(table2, open2, n)
BY Descriptors DEF Numbered, LinksInv, Loosened

(* A connection is accepted. *)
LEMMA AcceptedGenuine ==
  ASSUME NEW table, NEW open, NEW n, Numbered(table, open, n), LinksInv(table, open, n),
         NEW f \in Fd \ DOMAIN open, NEW todo, NEW up
  PROVE  LinksInv(Put(table, f, NewConnection("Client", NoFd)),
                  Put(open, f, NewSocket(n + 1, todo, up, {})), n + 1)
<1> DEFINE table2 == Put(table, f, NewConnection("Client", NoFd))
           open2 == Put(open, f, NewSocket(n + 1, todo, up, {}))
<1>1. /\ DOMAIN table2 = DOMAIN table \cup {f} /\ DOMAIN open2 = DOMAIN open \cup {f}
      /\ table2[f].peer = NoFd /\ open2[f].gen = n + 1 /\ open2[f].paired = {}
      /\ \A g \in DOMAIN table : table2[g] = table[g]
      /\ \A g \in DOMAIN open : open2[g] = open[g]
  BY DEF Put, NewConnection, NewSocket, Numbered
<1> HIDE DEF table2, open2
<1>2. LinksInv(table2, open2, n + 1)
  BY <1>1, Descriptors DEF Numbered, LinksInv
<1> QED BY <1>2 DEF table2, open2

(* An upstream connection is made and linked. *)
LEMMA LinkedGenuine ==
  ASSUME NEW table, NEW open, NEW n, Numbered(table, open, n), LinksInv(table, open, n),
         NEW fd \in DOMAIN table, NEW up \in Fd \ DOMAIN open, NEW todo,
         table[fd] \in ConnectionType, open[fd] \in SocketType
  PROVE  LinksInv(Put([table EXCEPT ![fd].peer = up], up, NewConnection("Upstream", fd)),
                  Put([open EXCEPT ![fd].paired = @ \cup {n + 1}], up,
                      NewSocket(n + 1, todo, FALSE, {open[fd].gen})), n + 1)
<1> DEFINE linked == [table EXCEPT ![fd].peer = up]
           pairs == [open EXCEPT ![fd].paired = @ \cup {n + 1}]
           table2 == Put(linked, up, NewConnection("Upstream", fd))
           open2 == Put(pairs, up, NewSocket(n + 1, todo, FALSE, {open[fd].gen}))
<1>1. /\ DOMAIN linked = DOMAIN table /\ linked[fd].peer = up
      /\ \A f \in DOMAIN table \ {fd} : linked[f] = table[f]
  BY DEF ConnectionType
<1>2. /\ DOMAIN pairs = DOMAIN open
      /\ pairs[fd].gen = open[fd].gen /\ pairs[fd].paired = open[fd].paired \cup {n + 1}
      /\ \A f \in DOMAIN open \ {fd} : pairs[f] = open[f]
  BY DEF SocketType, Numbered
<1> HIDE DEF linked, pairs
<1>3. /\ DOMAIN table2 = DOMAIN table \cup {up} /\ DOMAIN open2 = DOMAIN open \cup {up}
      /\ up # fd /\ up \notin DOMAIN table
      /\ table2[up].peer = fd /\ table2[fd].peer = up
      /\ open2[up].gen = n + 1 /\ open2[up].paired = {open[fd].gen}
      /\ open2[fd].gen = open[fd].gen /\ open2[fd].paired = open[fd].paired \cup {n + 1}
      /\ \A f \in DOMAIN table \ {fd} : table2[f] = table[f]
      /\ \A f \in DOMAIN open \ {fd} : open2[f] = open[f]
  BY <1>1, <1>2 DEF Put, NewConnection, NewSocket, Numbered
<1> HIDE DEF table2, open2
<1>4. \A f \in DOMAIN open2 : open2[f].gen <= n + 1 /\ \A g \in open2[f].paired : g <= n + 1
  BY <1>3 DEF Numbered, LinksInv
<1>5. \A f, g \in DOMAIN open2 : open2[f].gen = open2[g].gen => f = g
  BY <1>3 DEF Numbered, LinksInv
<1>6. \A f, g \in DOMAIN open2 : open2[g].gen \in open2[f].paired => open2[f].gen \in open2[g].paired
  BY <1>3 DEF Numbered, LinksInv
<1>7. \A f \in DOMAIN table2 :
        table2[f].peer \in DOMAIN open2 =>
          \/ open2[table2[f].peer].gen \in open2[f].paired
          \/ open2[f].gen < open2[table2[f].peer].gen
  BY <1>3 DEF Numbered, LinksInv
<1>8. LinksInv(table2, open2, n + 1)
  BY <1>4, <1>5, <1>6, <1>7 DEF LinksInv
<1> QED BY <1>8 DEF table2, open2, linked, pairs

-----------------------------------------------------------------------------
(* The actions. *)

(* A step that opens nothing and, of what stays, at most loosens links. *)
LEMMA StepLoosened ==
  ASSUME IInv, Genuine, made' = made, Loosened(connections, sockets, connections', sockets')
  PROVE  Genuine'
BY TablesNumbered, LoosenedGenuine DEF Genuine

LEMMA InitGenuine == Init => Genuine
BY NothingThere DEF Init, Genuine, LinksInv

LEMMA HaltGenuine == ASSUME NEW how, Halt(how) PROVE Genuine'
BY NothingThere DEF Halt, Genuine, LinksInv

LEMMA EnvironmentGenuine == ASSUME IInv, Genuine, Environment PROVE Genuine'
<1>1. CASE ClientCalls
  BY <1>1 DEF ClientCalls, Genuine
<1>2. ASSUME NEW fd \in DOMAIN sockets,
             Arrive(fd) \/ FinArrives(fd) \/ ResetArrives(fd) \/ ConnectCompletes(fd)
      PROVE  Genuine'
  <2>1. \A f \in DOMAIN sockets : sockets[f] \in SocketType
    BY DEF IInv, TypeOK
  <2>2. /\ connections' = connections /\ made' = made
        /\ \E s : /\ sockets' = [sockets EXCEPT ![fd] = s]
                 /\ s.gen = sockets[fd].gen /\ s.paired = sockets[fd].paired
    BY <1>2, <2>1 DEF Arrive, FinArrives, ResetArrives, ConnectCompletes, Remote, SocketType
  <2>3. Loosened(connections, sockets, connections', sockets')
    BY <2>2 DEF Loosened, IInv, TablesAgree
  <2> QED BY <2>2, <2>3, StepLoosened
<1> QED BY <1>1, <1>2 DEF Environment

LEMMA AcceptGenuine ==
  ASSUME IInv, Genuine, AcceptOne \/ AcceptRejected \/ AcceptAborted \/ AcceptDone
  PROVE  Genuine'
<1>1. CASE AcceptOne
  <2>1. PICK fd \in Fd \ DOMAIN sockets, stream \in ClientStreams : Accepted(fd, stream)
    BY <1>1 DEF AcceptOne, Lowest
  <2> QED BY <2>1, TablesNumbered, AcceptedGenuine DEF Accepted, Genuine
<1>2. CASE UNCHANGED <<connections, sockets, made>>
  BY <1>2 DEF Genuine
<1> QED BY <1>1, <1>2 DEF AcceptRejected, AcceptAborted, Turned, AcceptDone

LEMMA DrainedPaired ==
  ASSUME IInv, NEW fd \in DOMAIN connections
  PROVE  \A f \in DOMAIN sockets : Drained(fd)[f].paired = sockets[f].paired
<1>1. fd \in DOMAIN sockets /\ \A f \in DOMAIN sockets : sockets[f] \in SocketType
  BY DEF IInv, TablesAgree, TypeOK
<1> QED BY <1>1 DEF Drained, SocketType

(* The table OnReadable leaves has the links of before, or fewer. *)
SameLinks(table) ==
  /\ DOMAIN table = DOMAIN connections
  /\ \A f \in DOMAIN connections : table[f].peer \in {connections[f].peer, NoFd}

LEMMA DrainedLoosened ==
  ASSUME IInv, NEW fd \in DOMAIN connections, NEW table, SameLinks(table)
  PROVE  Loosened(connections, sockets, table, Drained(fd))
BY DrainedGood, DrainedPaired DEF Loosened, SameLinks, IInv, TablesAgree

LEMMA FinishReadGenuine ==
  ASSUME IInv, Genuine, NEW fd \in DOMAIN connections, NEW table, FinishRead(fd, table),
         SameLinks(table), table[fd] \in ConnectionType
  PROVE  Genuine'
<1> DEFINE open == Drained(fd)
<1>1. LinksInv(table, open, made) /\ Loosened(connections, sockets, table, open)
  BY TablesNumbered, DrainedLoosened, LoosenedGenuine DEF Genuine
<1>2. /\ DOMAIN open = DOMAIN sockets /\ \A f \in DOMAIN sockets : open[f] \in SocketType
      /\ open[fd].gen = sockets[fd].gen /\ fd \in DOMAIN sockets
  BY DrainedGood DEF IInv, TablesAgree
<1>3. Numbered(table, open, made)
  BY <1>2, TablesNumbered DEF Numbered, SameLinks, SocketType
<1>4. CASE Upstream(fd, table)
  <2>1. PICK up \in Fd \ DOMAIN sockets, stream \in ServerStreams :
          /\ connections' = Put([table EXCEPT ![fd].peer = up], up, NewConnection("Upstream", fd))
          /\ sockets' = Put([open EXCEPT ![fd].paired = @ \cup {made + 1}], up,
                            NewSocket(made + 1, stream, FALSE, {sockets[fd].gen}))
          /\ made' = made + 1
    BY <1>4 DEF Upstream, Lowest
  <2> HIDE DEF open
  <2>2. fd \in DOMAIN table /\ up \in Fd \ DOMAIN open /\ open[fd] \in SocketType
    BY <1>2, <2>1 DEF SameLinks
  <2> QED BY <1>1, <1>2, <1>3, <2>1, <2>2, LinkedGenuine DEF Genuine
<1>5. CASE connections' = table /\ sockets' = Drained(fd) /\ made' = made
  BY <1>1, <1>5 DEF Genuine
<1> QED BY <1>4, <1>5 DEF FinishRead

LEMMA EraseGenuine ==
  ASSUME IInv, Genuine, NEW fd \in Fd, EraseConnection(fd) PROVE Genuine'
<1>1. Loosened(connections, sockets, connections', sockets')
  BY DEF EraseConnection, Erased, Restrict, Loosened, IInv, TablesAgree
<1> QED BY <1>1, StepLoosened DEF EraseConnection

LEMMA ReadUnknownGenuine ==
  ASSUME IInv, Genuine, NEW fd \in Fd, ReadUnknown(fd) PROVE Genuine'
<1> DEFINE c == AfterRead(fd)
           d == [c EXCEPT !.send = Append(c.send, [kind |-> "health", src |-> 0]), !.want = TRUE]
<1>1. /\ fd \in DOMAIN connections /\ connections' = [connections EXCEPT ![fd] = d]
      /\ sockets' = Drained(fd) /\ made' = made
  BY EventOpen DEF ReadUnknown, ReadOpen, NextEvent, HealthResponse
<1>2. c \in ConnectionType /\ c.peer = PeerOf(fd)
  BY <1>1, AfterReadGood DEF GoodConnection
<1>3. d.peer = PeerOf(fd)
  <2> HIDE DEF c
  <2> QED BY <1>2 DEF ConnectionType
<1>4. PeerOf(fd) \in {connections[fd].peer, NoFd}
  BY DEF PeerOf
<1> HIDE DEF d
<1>5. SameLinks(connections')
  BY <1>1, <1>3, <1>4 DEF SameLinks
<1> QED BY <1>1, <1>5, DrainedLoosened, StepLoosened

LEMMA ReadRequestGenuine ==
  ASSUME IInv, Genuine, NEW fd \in Fd, ReadRequest(fd) PROVE Genuine'
<1>1. fd \in DOMAIN connections
  BY EventOpen DEF ReadRequest, ReadOpen, NextEvent
<1> DEFINE c == AfterRead(fd)
           owner == IF connections[fd].role = "Client" THEN fd ELSE PeerOf(fd)
           verdict == Decided(Received(fd))
<1>2. PICK end \in RequestEnds(Received(fd)) :
        FinishRead(fd, [[connections EXCEPT ![fd] = Answered(c, end)]
                          EXCEPT ![owner].proto = verdict])
  BY DEF ReadRequest
<1> DEFINE d == Answered(c, end)
           table == [[connections EXCEPT ![fd] = d] EXCEPT ![owner].proto = verdict]
<1>3. c.peer = PeerOf(fd) /\ PeerOf(fd) \in {connections[fd].peer, NoFd}
  BY <1>1, AfterReadGood DEF PeerOf
<1>4. d \in ConnectionType /\ d.peer = c.peer
  BY <1>1, AnsweredGood
<1>5. verdict \in {"Established", "Failed"}
  BY DEF Decided
<1>6. \A f \in DOMAIN connections : connections[f] \in ConnectionType
  BY DEF IInv, TypeOK
<1>7. /\ DOMAIN table = DOMAIN connections /\ table[fd] \in ConnectionType
      /\ \A f \in DOMAIN connections :
           table[f].peer = IF f = fd THEN d.peer ELSE connections[f].peer
  <2> HIDE DEF d, owner, verdict
  <2> QED BY <1>1, <1>4, <1>5, <1>6 DEF ConnectionType
<1> HIDE DEF c, d, table
<1>8. SameLinks(table)
  BY <1>3, <1>4, <1>7 DEF SameLinks
<1> QED BY <1>1, <1>2, <1>7, <1>8, FinishReadGenuine DEF table, d

LEMMA TunnelGenuine == ASSUME IInv, Genuine, NEW fd \in Fd, Tunnel(fd) PROVE Genuine'
<1> DEFINE p == PeerOf(fd)
           d == [AfterRead(fd) EXCEPT !.recv = <<>>]
           sent == connections[p].send \o Received(fd)
           table == [connections EXCEPT ![fd] = d, ![p].send = sent, ![p].want = TRUE]
<1>1. fd \in DOMAIN connections /\ p \in DOMAIN connections /\ p # fd
  <2>1. fd \in DOMAIN connections
    BY EventOpen DEF Tunnel, ReadOpen, NextEvent
  <2> QED BY <2>1, AfterReadGood DEF Tunnel, Relays
<1>2. d \in ConnectionType /\ d.peer = p /\ p \in {connections[fd].peer, NoFd}
  <2>1. AfterRead(fd) \in ConnectionType /\ AfterRead(fd).peer = p
    BY <1>1, AfterReadGood DEF GoodConnection
  <2>2. <<>> \in Seq(Input)
    BY EmptySeq
  <2> QED BY <2>1, <2>2 DEF ConnectionType, PeerOf
<1>3. \A f \in DOMAIN connections : connections[f] \in ConnectionType
  BY DEF IInv, TypeOK
<1>4. /\ DOMAIN table = DOMAIN connections
      /\ table[fd] = d /\ table[p].peer = connections[p].peer
      /\ \A f \in DOMAIN connections \ {fd, p} : table[f] = connections[f]
  <2> HIDE DEF d, sent, p
  <2> QED BY <1>1, <1>3 DEF ConnectionType
<1>5. FinishRead(fd, table)
  BY DEF Tunnel
<1> HIDE DEF d, table, p
<1>6. SameLinks(table)
  BY <1>2, <1>4 DEF SameLinks
<1> QED BY <1>1, <1>2, <1>4, <1>5, <1>6, FinishReadGenuine

LEMMA HandleGenuine == ASSUME IInv, Genuine, NEW fd \in Fd, Handle(fd) PROVE Genuine'
<1>1. CASE ErrorEvent(fd) \/ ReadClosed(fd)
  BY <1>1, EraseGenuine DEF ErrorEvent, ReadClosed
<1>2. CASE ReadUnknown(fd)
  BY <1>2, ReadUnknownGenuine
<1>3. CASE ReadRequest(fd)
  BY <1>3, ReadRequestGenuine
<1>4. CASE Tunnel(fd)
  BY <1>4, TunnelGenuine
<1>5. CASE ReadKept(fd)
  <2> DEFINE c == AfterRead(fd)
             table == [connections EXCEPT ![fd] = c]
  <2>1. fd \in DOMAIN connections /\ FinishRead(fd, table)
    BY <1>5, EventOpen DEF ReadKept, ReadOpen, NextEvent
  <2>2. c \in ConnectionType /\ c.peer \in {connections[fd].peer, NoFd}
    BY <2>1, AfterReadGood DEF GoodConnection, PeerOf
  <2>3. /\ DOMAIN table = DOMAIN connections /\ table[fd] = c
        /\ \A f \in DOMAIN connections \ {fd} : table[f] = connections[f]
    BY <2>1
  <2> HIDE DEF table, c
  <2>4. SameLinks(table)
    BY <2>2, <2>3 DEF SameLinks
  <2> QED BY <2>1, <2>2, <2>3, <2>4, FinishReadGenuine
<1>6. CASE WriteEvent(fd)
  <2>1. fd \in DOMAIN connections
    BY <1>6, EventOpen DEF WriteEvent, Writing
  <2>2. PICK n \in 0..Len(connections[fd].send) : Written(fd, n) /\ sockets' = Sent(fd, n)
    BY <1>6 DEF WriteEvent
  <2> DEFINE rest == SubSeq(connections[fd].send, n + 1, Len(connections[fd].send))
             left == [connections[fd] EXCEPT !.peer = PeerOf(fd), !.send = rest, !.want = rest # <<>>]
  <2>3. connections' = [connections EXCEPT ![fd] = left] /\ made' = made
    BY <1>6, <2>2 DEF WriteEvent, Written
  <2>4. connections[fd] \in ConnectionType /\ fd \in DOMAIN sockets
    BY <2>1 DEF IInv, TypeOK, TablesAgree
  <2>5. left.peer \in {connections[fd].peer, NoFd}
    <3> HIDE DEF rest
    <3> QED BY <2>4 DEF ConnectionType, PeerOf
  <2>6. /\ DOMAIN sockets' = DOMAIN sockets
        /\ \A f \in DOMAIN sockets : /\ sockets'[f].gen = sockets[f].gen
                                     /\ sockets'[f].paired = sockets[f].paired
    <3>1. DOMAIN Sent(fd, n) = DOMAIN sockets
          /\ \A f \in DOMAIN sockets : /\ Sent(fd, n)[f].gen = sockets[f].gen
                                       /\ Sent(fd, n)[f].paired = sockets[f].paired
      BY <2>2, <2>4, SentGood
    <3> QED BY <2>2, <3>1
  <2> HIDE DEF left
  <2>7. Loosened(connections, sockets, connections', sockets')
    BY <2>1, <2>3, <2>5, <2>6 DEF Loosened, IInv, TablesAgree
  <2> QED BY <2>3, <2>7, StepLoosened
<1>7. CASE WriteKilled(fd)
  BY <1>7, HaltGenuine DEF WriteKilled
<1> QED BY <1>1, <1>2, <1>3, <1>4, <1>5, <1>6, <1>7 DEF Handle

(* A link never leads to an older stranger: it leads to the socket it was    *)
(* made for, or to a younger one.  In every reachable state.                *)
THEOREM LinksAlwaysGenuine == Spec => []Genuine
<1>1. ASSUME IInv, Genuine, [Next]_vars PROVE Genuine'
  <2>1. CASE Environment
    BY <1>1, <2>1, EnvironmentGenuine
  <2>2. CASE WaitForEvents
    BY <1>1, <2>2 DEF WaitForEvents, Genuine
  <2>3. CASE WaitInterrupted \/ WaitFails \/ ListenerError
    BY <2>3, HaltGenuine DEF WaitInterrupted, WaitFails, ListenerError
  <2>4. CASE AcceptOne \/ AcceptRejected \/ AcceptAborted \/ AcceptDone
    BY <1>1, <2>4, AcceptGenuine
  <2>5. ASSUME NEW fd \in Fd, Handle(fd) PROVE Genuine'
    BY <1>1, <2>5, HandleGenuine
  <2>6. CASE UNCHANGED vars
    BY <1>1, <2>6 DEF vars, Genuine
  <2> QED BY <1>1, <2>1, <2>2, <2>3, <2>4, <2>5, <2>6 DEF Next, Server
<1> QED BY <1>1, InitGenuine, Invariance, PTL DEF Spec

(* Two connections that name each other were linked by one                  *)
(* CreateUpstreamTCPConnection (connection.cc:226-278), however often their   *)
(* descriptors were used before: a look-up by descriptor (proxy_server.cc:131) *)
(* sends bytes astray in one direction at most.                              *)
THEOREM TunnelsAlwaysGenuine == Spec => []TunnelsGenuine
<1>1. ASSUME IInv, Genuine, NEW f \in DOMAIN connections, PeerOf(f) # NoFd,
             connections[PeerOf(f)].peer = f
      PROVE  sockets[PeerOf(f)].gen \in sockets[f].paired
  <2> DEFINE p == PeerOf(f)
  <2>1. p = connections[f].peer /\ p \in DOMAIN connections
    BY <1>1 DEF PeerOf
  <2>2. Numbered(connections, sockets, made)
    BY <1>1, TablesNumbered
  <2>3. p \in DOMAIN sockets /\ f \in DOMAIN sockets
    BY <1>1, <2>1, <2>2 DEF Numbered
  <2> HIDE DEF p
  <2>4. sockets[p].gen \in sockets[f].paired \/ sockets[f].gen < sockets[p].gen
    BY <1>1, <2>1, <2>3 DEF Genuine, LinksInv
  <2>5. sockets[f].gen \in sockets[p].paired \/ sockets[p].gen < sockets[f].gen
    BY <1>1, <2>1, <2>3 DEF Genuine, LinksInv, p
  <2>6. sockets[p].gen \in Nat /\ sockets[f].gen \in Nat
    BY <2>2, <2>3 DEF Numbered
  <2>7. CASE sockets[f].gen \in sockets[p].paired
    BY <1>1, <2>3, <2>7 DEF Genuine, LinksInv, p
  <2>8. CASE ~(sockets[f].gen \in sockets[p].paired)
    BY <2>4, <2>5, <2>6, <2>8 DEF p
  <2> QED BY <2>7, <2>8
<1>2. IInv /\ Genuine => TunnelsGenuine
  BY <1>1 DEF TunnelsGenuine
<1> QED BY <1>2, Invariance, LinksAlwaysGenuine, PTL

-----------------------------------------------------------------------------
(* What is read in a tunnel is relayed whole.                              *)

(* The part of RelayedWhole about one socket. *)
RelayedFrom(f) ==
  /\ Tunnelled(f)
  /\ sockets[f].inq # <<>> /\ sockets'[f].inq = <<>>
  => /\ connections'[PeerOf(f)].send = connections[PeerOf(f)].send \o Received(f)
     /\ connections'[f].recv = <<>>

(* Nothing but its own readable half empties the queue of a socket that     *)
(* stays open.                                                              *)
QueuesKept(others) ==
  \A f \in (DOMAIN sockets \cap DOMAIN sockets') \ others :
    sockets'[f].inq = <<>> => sockets[f].inq = <<>>

LEMMA QueuesKeptByEnvironment == ASSUME IInv, Environment PROVE QueuesKept({})
<1>1. CASE ClientCalls
  BY <1>1 DEF ClientCalls, QueuesKept
<1>2. ASSUME NEW fd \in DOMAIN sockets, Arrive(fd) PROVE QueuesKept({})
  <2> DEFINE s == sockets[fd]
             piece == [kind |-> Head(s.todo), src |-> s.gen]
             inq == Append(s.inq, piece)
  <2>1. s \in SocketType /\ s.todo # <<>>
    BY <1>2 DEF IInv, TypeOK, Arrive
  <2>2. piece \in Input
    BY <2>1 DEF SocketType, Input
  <2>3. inq # <<>>
    BY <2>1, <2>2, AppendProperties DEF SocketType
  <2>4. sockets' = [sockets EXCEPT ![fd] = [s EXCEPT !.todo = Tail(s.todo), !.inq = inq]]
    BY <1>2 DEF Arrive, Remote
  <2>5. [s EXCEPT !.todo = Tail(s.todo), !.inq = inq].inq = inq
    <3> HIDE DEF s, inq
    <3> QED BY <2>1 DEF SocketType
  <2> HIDE DEF inq
  <2> QED BY <2>3, <2>4, <2>5 DEF QueuesKept
<1>3. ASSUME NEW fd \in DOMAIN sockets, FinArrives(fd) \/ ResetArrives(fd) \/ ConnectCompletes(fd)
      PROVE  QueuesKept({})
  <2>1. sockets[fd] \in SocketType
    BY DEF IInv, TypeOK
  <2>2. \E s : sockets' = [sockets EXCEPT ![fd] = s] /\ s.inq = sockets[fd].inq
    BY <1>3, <2>1 DEF FinArrives, ResetArrives, ConnectCompletes, Remote, SocketType
  <2> QED BY <2>2 DEF QueuesKept
<1> QED BY <1>1, <1>2, <1>3 DEF Environment

(* The readable halves that leave the connection open. *)
LEMMA QueuesKeptByRead ==
  ASSUME IInv, NEW fd \in DOMAIN connections,
         sockets' = Drained(fd) \/ \E table : FinishRead(fd, table)
  PROVE  QueuesKept({fd})
<1>1. /\ DOMAIN Drained(fd) = DOMAIN sockets
      /\ \A f \in DOMAIN sockets \ {fd} : Drained(fd)[f] = sockets[f]
  BY DEF Drained
<1>2. CASE sockets' = Drained(fd)
  BY <1>1, <1>2 DEF QueuesKept
<1>3. ASSUME NEW table, Upstream(fd, table) PROVE QueuesKept({fd})
  <2> DEFINE open == [Drained(fd) EXCEPT ![fd].paired = @ \cup {made + 1}]
  <2>1. PICK up \in Fd \ DOMAIN sockets : \E s : sockets' = Put(open, up, s)
    BY <1>3 DEF Upstream, Lowest
  <2>2. DOMAIN open = DOMAIN sockets /\ \A f \in DOMAIN sockets \ {fd} : open[f] = sockets[f]
    BY <1>1
  <2> HIDE DEF open
  <2>3. \A f \in DOMAIN sockets \ {fd} : sockets'[f] = sockets[f]
    BY <2>1, <2>2 DEF Put
  <2> QED BY <2>3 DEF QueuesKept
<1> QED BY <1>2, <1>3 DEF FinishRead

(* In a tunnel the handler is Established, on either side.                  *)
LEMMA TunnelledHandler ==
  ASSUME IInv, NEW fd \in DOMAIN connections, Tunnelled(fd)
  PROVE  /\ Handler(fd) = "Established" /\ PeerOf(fd) \in DOMAIN connections
         /\ connections[fd].role = "Client" => Protocol(fd) = "Established"
<1> DEFINE c == connections[fd]
           p == PeerOf(fd)
<1>1. p # NoFd /\ p \in DOMAIN connections /\ p = c.peer /\ connections[p].peer = fd
  BY DEF Tunnelled, PeerOf
<1>2. fd # NoFd
  BY Descriptors DEF IInv, TypeOK
<1>3. CASE c.role = "Client"
  <2>1. c.proto = "Established"
    BY <1>1, <1>3 DEF IInv, UpstreamAfterGrant
  <2> QED BY <1>1, <1>3, <2>1 DEF Handler, Protocol
<1>4. CASE c.role = "Upstream"
  <2>1. c.proto = "none" /\ connections[p].proto = "Established"
    BY <1>4 DEF IInv, UpstreamAfterGrant, Tunnelled
  <2> QED BY <1>1, <1>4, <2>1 DEF Handler
<1> QED BY <1>3, <1>4 DEF IInv, TypeOK, ConnectionType

LEMMA RelayedByTunnel ==
  ASSUME IInv, NEW fd \in DOMAIN connections, Tunnelled(fd), Tunnel(fd) PROVE RelayedFrom(fd)
<1> DEFINE p == PeerOf(fd)
           d == [AfterRead(fd) EXCEPT !.recv = <<>>]
           sent == connections[p].send \o Received(fd)
           table == [connections EXCEPT ![fd] = d, ![p].send = sent, ![p].want = TRUE]
<1>1. p \in DOMAIN connections /\ p # fd /\ p # NoFd
  BY TunnelledHandler, AfterReadGood DEF Tunnelled
<1>2. d.recv = <<>> /\ d.peer = p
  <2>1. AfterRead(fd) \in ConnectionType /\ AfterRead(fd).peer = p
    BY AfterReadGood DEF GoodConnection
  <2> QED BY <2>1 DEF ConnectionType
<1>3. table[fd] = d /\ table[p].send = sent
  <2>1. connections[p] \in ConnectionType
    BY <1>1 DEF IInv, TypeOK
  <2> HIDE DEF d, sent, p
  <2> QED BY <1>1, <2>1 DEF ConnectionType
<1>4. FinishRead(fd, table)
  BY DEF Tunnel
<1> HIDE DEF d, table, p
<1>5. connections' = table
  BY <1>1, <1>2, <1>3, <1>4 DEF FinishRead, NeedsUpstream
<1> QED BY <1>2, <1>3, <1>5 DEF RelayedFrom, p

LEMMA RelayedByHandle ==
  ASSUME IInv, NEW fd \in Fd, Handle(fd), NEW f \in DOMAIN sockets \cap DOMAIN sockets'
  PROVE  RelayedFrom(f)
<1>1. CASE ErrorEvent(fd) \/ ReadClosed(fd)
  BY <1>1 DEF ErrorEvent, ReadClosed, EraseConnection, Erased, Restrict, RelayedFrom
<1>2. CASE WriteEvent(fd)
  <2>1. fd \in DOMAIN sockets
    BY <1>2, EventOpen DEF WriteEvent, Writing
  <2>2. PICK n \in 0..Len(connections[fd].send) : sockets' = Sent(fd, n)
    BY <1>2 DEF WriteEvent
  <2>3. sockets'[f].inq = sockets[f].inq
    <3>1. \A g \in DOMAIN sockets : Sent(fd, n)[g].inq = sockets[g].inq
      BY <2>1, <2>2, SentGood
    <3> QED BY <2>2, <3>1
  <2> QED BY <2>3 DEF RelayedFrom
<1>3. CASE WriteKilled(fd)
  BY <1>3, NothingThere DEF WriteKilled, Halt
<1>4. CASE ReadUnknown(fd) \/ ReadRequest(fd) \/ Tunnel(fd) \/ ReadKept(fd)
  <2>1. fd \in DOMAIN connections /\ DOMAIN connections = DOMAIN sockets
    BY <1>4, EventOpen DEF ReadUnknown, ReadRequest, Tunnel, ReadKept, ReadOpen, NextEvent, IInv, TablesAgree
  <2>2. QueuesKept({fd})
    BY <1>4, <2>1, QueuesKeptByRead DEF ReadUnknown, ReadRequest, Tunnel, ReadKept
  <2>3. CASE f # fd
    BY <2>2, <2>3 DEF QueuesKept, RelayedFrom
  <2>4. ASSUME f = fd, Tunnelled(fd), sockets[fd].inq # <<>> PROVE RelayedFrom(fd)
    <3>1. /\ Handler(fd) = "Established" /\ PeerOf(fd) # NoFd
          /\ connections[fd].role = "Client" => Protocol(fd) = "Established"
      BY <2>1, <2>4, TunnelledHandler DEF Tunnelled
    <3>2. Received(fd) # <<>>
      <4>1. connections[fd].recv \in Seq(Input) /\ sockets[fd].inq \in Seq(Input)
        BY <2>1 DEF IInv, TypeOK, ConnectionType, SocketType
      <4> QED BY <2>4, <4>1, ConcatEqualIffEmpty DEF Received
    <3>3. Tunnel(fd)
      BY <1>4, <3>1, <3>2 DEF ReadUnknown, ReadRequest, ReadKept, Relays
    <3> QED BY <2>1, <2>4, <3>3, RelayedByTunnel
  <2> QED BY <2>3, <2>4 DEF RelayedFrom
<1> QED BY <1>1, <1>2, <1>3, <1>4 DEF Handle

(* What a read in a tunnel returns (socks4.cc:96-117), and what an earlier   *)
(* event had left in the receive buffer, reaches the peer's output in full    *)
(* and in order, for every cut of the streams and every history of the        *)
(* descriptors.                                                              *)
THEOREM TunnelsRelayWhole == Spec => RelayedWhole
<1>1. ASSUME IInv, [Next]_vars, NEW f \in DOMAIN sockets \cap DOMAIN sockets'
      PROVE  RelayedFrom(f)
  <2>1. CASE Environment
    BY <1>1, <2>1, QueuesKeptByEnvironment DEF QueuesKept, RelayedFrom
  <2>2. CASE UNCHANGED sockets
    BY <2>2 DEF RelayedFrom
  <2>3. CASE WaitInterrupted \/ WaitFails \/ ListenerError
    BY <1>1, <2>3, NothingThere DEF WaitInterrupted, WaitFails, ListenerError, Halt
  <2>4. CASE AcceptOne
    BY <1>1, <2>4 DEF AcceptOne, Accepted, Lowest, Put, RelayedFrom
  <2>5. ASSUME NEW fd \in Fd, Handle(fd) PROVE RelayedFrom(f)
    BY <1>1, <2>5, RelayedByHandle
  <2> QED BY <1>1, <2>1, <2>2, <2>3, <2>4, <2>5
          DEF Next, Server, vars, WaitForEvents, AcceptRejected, AcceptAborted, Turned, AcceptDone
<1> DEFINE AllRelayed == \A f \in DOMAIN sockets \cap DOMAIN sockets' : RelayedFrom(f)
<1>2. IInv /\ [Next]_vars => [AllRelayed]_vars
  BY <1>1
<1> QED BY <1>2, Invariance, PTL DEF Spec, RelayedWhole, RelayedFrom
=============================================================================
