-------------------------- MODULE ProxyServerProofs --------------------------
(***************************************************************************)
(* Invariance proofs for ProxyServer, for any set of descriptors, any      *)
(* streams, any batch size and any combination of failures.                *)
(***************************************************************************)
EXTENDS ProxyServer, SequenceTheorems, TLAPS

(* The inductive invariant.  The two parts that are not properties by      *)
(* themselves say where the loop stands: events wait about open             *)
(* descriptors, and between the halves of an event only its writable half   *)
(* is left.                                                                 *)
HalfDone == current \in Fd => current \in DOMAIN batch /\ batch[current] = {"Writable"}

IInv ==
  /\ TypeOK
  /\ TablesAgree
  /\ PendingOpen
  /\ OutputArmed
  /\ UpstreamAfterGrant
  /\ HalfDone

(* The part of the invariant that is about one connection alone. *)
GoodConnection(f, c) ==
  /\ c \in ConnectionType
  /\ c.want <=> c.send # <<>>
  /\ c.role = "Client" /\ c.peer # NoFd => c.proto = "Established"
  /\ c.role = "Upstream" => c.proto = "none"
  /\ c.peer # f

(* The part about its registration with the poller. *)
GoodInterest(c, events) ==
  /\ events \in SUBSET {"IN", "OUT"}
  /\ c.want => "OUT" \in events
  /\ "IN" \in events

(* The tables of a step, taken together. *)
GoodTables(table, polled, open) ==
  /\ DOMAIN table \subseteq Fd
  /\ DOMAIN table = DOMAIN open /\ DOMAIN table = DOMAIN polled
  /\ \A f \in DOMAIN table : /\ GoodConnection(f, table[f])
                             /\ GoodInterest(table[f], polled[f])
                             /\ open[f] \in SocketType

(* Where the loop stands. *)
GoodLoop ==
  /\ status \in {"running", "stopped", "killed"}
  /\ DOMAIN batch \subseteq Fd \cup {ListenFd}
  /\ \A f \in DOMAIN batch : batch[f] \in SUBSET {"Readable", "Writable", "Error"}
  /\ current \in Fd \cup {ListenFd, NoFd}
  /\ HalfDone

(* IInv, arranged by connection instead of by property. *)
LEMMA Rearranged ==
  IInv <=> /\ GoodTables(connections, interest, sockets)
           /\ GoodLoop /\ PendingOpen
           /\ backlog \in Nat /\ callers \in Nat /\ made \in Nat
<1>1. ASSUME IInv PROVE GoodTables(connections, interest, sockets)
  <2>1. /\ DOMAIN connections \subseteq Fd
        /\ DOMAIN connections = DOMAIN sockets /\ DOMAIN connections = DOMAIN interest
    BY <1>1 DEF IInv, TypeOK, TablesAgree
  <2>2. ASSUME NEW f \in DOMAIN connections
        PROVE  /\ GoodConnection(f, connections[f])
               /\ GoodInterest(connections[f], interest[f])
               /\ sockets[f] \in SocketType
    BY <1>1, <2>1, <2>2 DEF IInv, TypeOK, OutputArmed, UpstreamAfterGrant, GoodConnection, GoodInterest
  <2> QED BY <2>1, <2>2 DEF GoodTables
<1>2. ASSUME GoodTables(connections, interest, sockets), GoodLoop, PendingOpen,
             backlog \in Nat, callers \in Nat, made \in Nat
      PROVE  IInv
  <2>1. TypeOK
    BY <1>2 DEF GoodTables, GoodConnection, GoodInterest, GoodLoop, TypeOK
  <2>2. TablesAgree /\ OutputArmed /\ UpstreamAfterGrant
    BY <1>2 DEF GoodTables, GoodConnection, GoodInterest, TablesAgree, OutputArmed, UpstreamAfterGrant
  <2> QED BY <1>2, <2>1, <2>2 DEF GoodLoop, IInv
<1>3. ASSUME IInv
      PROVE  GoodLoop /\ PendingOpen /\ backlog \in Nat /\ callers \in Nat /\ made \in Nat
  BY <1>3 DEF IInv, TypeOK, GoodLoop
<1> QED BY <1>1, <1>2, <1>3

LEMMA RearrangedNext ==
  IInv' <=> /\ GoodTables(connections, interest, sockets)'
            /\ GoodLoop' /\ PendingOpen'
            /\ backlog' \in Nat /\ callers' \in Nat /\ made' \in Nat
<1>1. (IInv <=> /\ GoodTables(connections, interest, sockets)
                /\ GoodLoop /\ PendingOpen
                /\ backlog \in Nat /\ callers \in Nat /\ made \in Nat)'
  BY Rearranged, PTL
<1> QED BY <1>1

-----------------------------------------------------------------------------
(* Facts about the constants, tables and pieces. *)

LEMMA Descriptors == ListenFd \notin Fd /\ NoFd \notin Fd /\ ListenFd # NoFd /\ Fd \subseteq Nat
BY FdAssumption DEF NoFd

LEMMA InputIsPiece == Seq(Input) \subseteq Seq(Piece)
<1> SUFFICES ASSUME NEW s \in Seq(Input) PROVE s \in Seq(Piece)
  OBVIOUS
<1>1. Input \subseteq Piece
  BY DEF Input, Piece, Kinds
<1> QED BY <1>1, SeqDef

LEMMA NothingThere == DOMAIN Nothing = {}
BY DEF Nothing

LEMMA InitGood == Init => IInv
BY NothingThere, Descriptors DEF Init, IInv, TypeOK, TablesAgree, PendingOpen, OutputArmed,
   UpstreamAfterGrant, HalfDone

(* Closing everything keeps the invariant. *)
LEMMA HaltGood ==
  ASSUME IInv, NEW how \in {"stopped", "killed"}, Halt(how) PROVE IInv'
BY NothingThere, Descriptors DEF Halt, IInv, TypeOK, TablesAgree, PendingOpen, OutputArmed,
   UpstreamAfterGrant, HalfDone

(* A remote end keeps it, whatever it makes of the socket. *)
LEMMA RemoteGood ==
  ASSUME IInv, NEW fd \in DOMAIN sockets, NEW s \in SocketType, Remote(fd, s)
  PROVE  IInv'
<1>1. GoodTables(connections, interest, sockets)'
  BY Rearranged DEF Remote, GoodTables
<1>2. (GoodLoop /\ PendingOpen)' /\ backlog' \in Nat /\ callers' \in Nat /\ made' \in Nat
  BY Rearranged DEF Remote, GoodLoop, PendingOpen, HalfDone, loop, callerVars
<1> QED BY <1>1, <1>2, RearrangedNext

LEMMA EnvironmentGood == ASSUME IInv, Environment PROVE IInv'
<1>1. CASE ClientCalls
  <2>1. (GoodTables(connections, interest, sockets) /\ GoodLoop /\ PendingOpen)'
    BY <1>1, Rearranged DEF ClientCalls, loop, GoodTables, GoodLoop, PendingOpen, HalfDone
  <2>2. backlog' \in Nat /\ callers' \in Nat /\ made' \in Nat
    BY <1>1, Rearranged DEF ClientCalls
  <2> QED BY <2>1, <2>2, RearrangedNext
<1>2. ASSUME NEW fd \in DOMAIN sockets,
             Arrive(fd) \/ FinArrives(fd) \/ ResetArrives(fd) \/ ConnectCompletes(fd)
      PROVE  IInv'
  <2> DEFINE s == sockets[fd]
  <2>0. s \in SocketType /\ <<>> \in Seq(InputKinds)
    BY EmptySeq DEF IInv, TypeOK
  <2>1. CASE Arrive(fd)
    <3> DEFINE p == [kind |-> Head(s.todo), src |-> s.gen]
    <3>1. p \in Input /\ Tail(s.todo) \in Seq(InputKinds)
      BY <2>0, <2>1 DEF Arrive, SocketType, Input
    <3>2. Append(s.inq, p) \in Seq(Input)
      BY <2>0, <3>1 DEF SocketType
    <3>3. [s EXCEPT !.todo = Tail(s.todo), !.inq = Append(s.inq, p)] \in SocketType
      BY <2>0, <3>1, <3>2 DEF SocketType
    <3> QED BY <2>1, <3>3, RemoteGood DEF Arrive
  <2>2. CASE FinArrives(fd)
    <3>1. [s EXCEPT !.fin = TRUE, !.todo = <<>>] \in SocketType
      BY <2>0 DEF SocketType
    <3> QED BY <2>2, <3>1, RemoteGood DEF FinArrives
  <2>3. CASE ResetArrives(fd)
    <3>1. [s EXCEPT !.err = "reset", !.todo = <<>>] \in SocketType
      BY <2>0 DEF SocketType
    <3> QED BY <2>3, <3>1, RemoteGood DEF ResetArrives
  <2>4. CASE ConnectCompletes(fd)
    <3>1. [s EXCEPT !.up = TRUE] \in SocketType
      BY <2>0 DEF SocketType
    <3> QED BY <2>4, <3>1, RemoteGood DEF ConnectCompletes
  <2> QED BY <1>2, <2>1, <2>2, <2>3, <2>4
<1> QED BY <1>1, <1>2 DEF Environment

-----------------------------------------------------------------------------
(* The steps of the server that open or close at most one connection. *)

LEMMA WaitGood == ASSUME IInv, WaitForEvents PROVE IInv'
<1>1. PICK room \in SUBSET { f \in DOMAIN sockets : sockets[f].up },
           broken \in (IF "listener" \in Faults THEN BOOLEAN ELSE {FALSE}),
           some \in SUBSET (DOMAIN sockets \cup {ListenFd}) :
        batch' = [ f \in some |-> IF f # ListenFd THEN Reported(f, room)
                                  ELSE IF broken THEN {"Error"} ELSE {"Readable"} ]
  BY ZenonT(40) DEF WaitForEvents
<1>2. \A f : Reported(f, room) \in SUBSET {"Readable", "Writable", "Error"}
  BY DEF Reported
<1>3. /\ DOMAIN batch' \subseteq DOMAIN connections \cup {ListenFd}
      /\ \A f \in DOMAIN batch' : batch'[f] \in SUBSET {"Readable", "Writable", "Error"}
  BY <1>1, <1>2 DEF IInv, TablesAgree
<1>4. current = NoFd /\ NoFd \notin Fd
  BY Descriptors DEF WaitForEvents, Waiting
<1>5. UNCHANGED <<status, current, connections, interest, sockets, callerVars, made>>
  BY DEF WaitForEvents
<1>6. GoodTables(connections, interest, sockets)'
  BY <1>5, Rearranged
<1>7. (GoodLoop /\ PendingOpen)'
  BY <1>3, <1>4, <1>5, Rearranged DEF GoodLoop, PendingOpen, HalfDone, GoodTables
<1> QED BY <1>5, <1>6, <1>7, Rearranged, RearrangedNext DEF callerVars

(* Done(fd), when the other events stay about open connections. *)
LEMMA DoneGood ==
  ASSUME IInv, NEW fd \in Fd \cup {ListenFd}, Done(fd),
         DOMAIN connections \subseteq DOMAIN connections' \cup {fd}
  PROVE  (GoodLoop /\ PendingOpen)'
<1>1. DOMAIN batch' = DOMAIN batch \ {fd} /\ \A f \in DOMAIN batch' : batch'[f] = batch[f]
  BY DEF Done, Erased, Restrict
<1>2. current' = NoFd /\ NoFd \notin Fd /\ status' = status
  BY Descriptors DEF Done
<1> QED BY <1>1, <1>2, Rearranged DEF GoodLoop, PendingOpen, HalfDone

LEMMA EraseGood ==
  ASSUME IInv, NEW fd \in Fd, fd \in DOMAIN batch, EraseConnection(fd), Done(fd) PROVE IInv'
<1>1. /\ DOMAIN connections' = DOMAIN connections \ {fd}
      /\ DOMAIN interest' = DOMAIN interest \ {fd}
      /\ DOMAIN sockets' = DOMAIN sockets \ {fd}
      /\ \A f \in DOMAIN connections' : connections'[f] = connections[f]
      /\ \A f \in DOMAIN interest' : interest'[f] = interest[f]
      /\ \A f \in DOMAIN sockets' : sockets'[f] = sockets[f]
  BY DEF EraseConnection, Erased, Restrict
<1>2. GoodTables(connections, interest, sockets)'
  BY <1>1, Rearranged DEF GoodTables
<1>3. (GoodLoop /\ PendingOpen)'
  BY <1>1, DoneGood
<1> QED BY <1>2, <1>3, Rearranged, RearrangedNext DEF EraseConnection, callerVars

(* A new entry in each of the three tables. *)
LEMMA PutGood ==
  ASSUME NEW table, NEW polled, NEW open, GoodTables(table, polled, open),
         NEW f \in Fd, NEW c, GoodConnection(f, c), NEW e, GoodInterest(c, e), NEW s \in SocketType
  PROVE  GoodTables(Put(table, f, c), Put(polled, f, e), Put(open, f, s))
BY DEF GoodTables, Put

LEMMA NewSocketType ==
  ASSUME NEW gen \in Nat, NEW todo \in Seq(InputKinds), NEW up \in BOOLEAN, NEW paired \in SUBSET Nat
  PROVE  NewSocket(gen, todo, up, paired) \in SocketType
BY EmptySeq DEF NewSocket, SocketType

LEMMA NewConnectionGood ==
  ASSUME NEW f \in Fd, NEW role, NEW peer \in Fd \cup {NoFd}, peer # f,
         \/ role = "Client" /\ peer = NoFd
         \/ role = "Upstream"
  PROVE  /\ GoodConnection(f, NewConnection(role, peer))
         /\ ~NewConnection(role, peer).want
<1>1. <<>> \in Seq(Input) /\ <<>> \in Seq(Piece)
  BY EmptySeq
<1> QED BY <1>1 DEF NewConnection, ConnectionType, GoodConnection

LEMMA AcceptGood ==
  ASSUME IInv, AcceptOne \/ AcceptRejected \/ AcceptAborted \/ AcceptDone PROVE IInv'
<1>1. CASE AcceptOne
  <2>1. PICK fd \in Fd, stream \in ClientStreams : Lowest(fd) /\ Accepted(fd, stream)
    BY <1>1 DEF AcceptOne
  <2>2. made \in Nat /\ made + 1 \in Nat /\ stream \in Seq(InputKinds)
    BY Rearranged, StreamAssumption
  <2>3. NewSocket(made + 1, stream, TRUE, {}) \in SocketType
    BY <2>2, NewSocketType
  <2>4. /\ GoodConnection(fd, NewConnection("Client", NoFd))
        /\ GoodInterest(NewConnection("Client", NoFd), {"IN"})
    BY NewConnectionGood, Descriptors DEF GoodInterest
  <2>5. GoodTables(connections, interest, sockets)'
    BY <2>1, <2>3, <2>4, PutGood, Rearranged DEF Accepted
  <2>6. DOMAIN connections \subseteq DOMAIN connections'
    BY <2>1 DEF Accepted, Put
  <2>7. /\ DOMAIN batch' \subseteq DOMAIN batch /\ \A f \in DOMAIN batch' : batch'[f] = batch[f]
        /\ current' = ListenFd /\ ListenFd \notin Fd /\ status' = status
    BY <1>1, Descriptors DEF AcceptOne, Erased, Restrict
  <2>8. (GoodLoop /\ PendingOpen)'
    BY <2>6, <2>7, Rearranged DEF GoodLoop, PendingOpen, HalfDone
  <2>9. backlog' \in Nat /\ callers' \in Nat /\ made' \in Nat
    BY <1>1, <2>1, <2>2, Rearranged DEF AcceptOne, Accepted
  <2> QED BY <2>5, <2>8, <2>9, RearrangedNext
<1>2. ASSUME NEW next \in {ListenFd, NoFd}, Turned(next) PROVE IInv'
  <2>1. /\ DOMAIN batch' \subseteq DOMAIN batch /\ \A f \in DOMAIN batch' : batch'[f] = batch[f]
        /\ current' \in {ListenFd, NoFd} /\ current' \notin Fd
        /\ UNCHANGED <<status, connections, interest, sockets, callers, made>>
    BY <1>2, Descriptors DEF Turned, Erased, Restrict
  <2>2. (GoodTables(connections, interest, sockets) /\ GoodLoop /\ PendingOpen)'
    BY <2>1, Rearranged DEF GoodTables, GoodLoop, PendingOpen, HalfDone
  <2>3. backlog' \in Nat
    BY <1>2, Rearranged DEF Turned
  <2> QED BY <2>1, <2>2, <2>3, Rearranged, RearrangedNext
<1>3. CASE AcceptDone
  <2>1. UNCHANGED <<connections, interest, sockets, backlog, callers, made>>
    BY <1>3 DEF AcceptDone, callerVars
  <2>2. (GoodLoop /\ PendingOpen)'
    BY <1>3, <2>1, DoneGood DEF AcceptDone
  <2>3. GoodTables(connections, interest, sockets)'
    BY <2>1, Rearranged
  <2> QED BY <2>1, <2>2, <2>3, Rearranged, RearrangedNext
<1> QED BY <1>1, <1>2, <1>3 DEF AcceptRejected, AcceptAborted

-----------------------------------------------------------------------------
(* The readable half. *)

(* Read, the peer look-up and SetProtocol leave a good connection. *)
LEMMA AfterReadGood ==
  ASSUME IInv, NEW fd \in DOMAIN connections
  PROVE  /\ Received(fd) \in Seq(Input)
         /\ PeerOf(fd) \in DOMAIN connections \cup {NoFd} /\ PeerOf(fd) # fd
         /\ GoodConnection(fd, AfterRead(fd))
         /\ AfterRead(fd).role = connections[fd].role /\ AfterRead(fd).peer = PeerOf(fd)
         /\ AfterRead(fd).recv = Received(fd) /\ AfterRead(fd).send = connections[fd].send
         /\ AfterRead(fd).want = connections[fd].want
         /\ AfterRead(fd).closed = connections[fd].closed /\ AfterRead(fd).proto = Protocol(fd)
<1> DEFINE c == connections[fd]
<1>1. GoodConnection(fd, c) /\ sockets[fd] \in SocketType /\ fd \in Fd /\ fd # NoFd
  BY Rearranged, Descriptors DEF GoodTables
<1>2. Received(fd) \in Seq(Input)
  BY <1>1 DEF Received, GoodConnection, ConnectionType, SocketType
<1>3. PeerOf(fd) \in DOMAIN connections \cup {NoFd} /\ PeerOf(fd) \in {c.peer, NoFd}
  BY DEF PeerOf
<1>4. /\ Protocol(fd) \in {c.proto, "Init"}
      /\ Protocol(fd) = c.proto \/ (c.role = "Client" /\ c.proto = "none")
  BY DEF Protocol
<1>5. /\ AfterRead(fd).role = c.role /\ AfterRead(fd).peer = PeerOf(fd)
      /\ AfterRead(fd).recv = Received(fd) /\ AfterRead(fd).send = c.send
      /\ AfterRead(fd).want = c.want /\ AfterRead(fd).closed = c.closed
      /\ AfterRead(fd).proto = Protocol(fd)
  BY <1>1 DEF AfterRead, GoodConnection, ConnectionType
<1>6. PeerOf(fd) # fd
  BY <1>1, <1>3 DEF GoodConnection
<1>7. PeerOf(fd) \in Fd \cup {NoFd}
  BY <1>1, <1>3 DEF GoodConnection, ConnectionType
<1>8. GoodConnection(fd, AfterRead(fd))
  <2>1. AfterRead(fd) \in ConnectionType
    BY <1>1, <1>2, <1>4, <1>7 DEF AfterRead, GoodConnection, ConnectionType
  <2> QED BY <1>1, <1>3, <1>4, <1>5, <1>6, <2>1 DEF GoodConnection
<1> QED BY <1>2, <1>3, <1>5, <1>6, <1>8

LEMMA DrainedGood ==
  ASSUME IInv, NEW fd \in DOMAIN connections
  PROVE  /\ DOMAIN Drained(fd) = DOMAIN sockets
         /\ \A f \in DOMAIN sockets : Drained(fd)[f] \in SocketType
         /\ \A f \in DOMAIN sockets : Drained(fd)[f].gen = sockets[f].gen
<1>1. fd \in DOMAIN sockets /\ \A f \in DOMAIN sockets : sockets[f] \in SocketType
  BY DEF IInv, TablesAgree, TypeOK
<1>2. <<>> \in Seq(Input)
  BY EmptySeq
<1> QED BY <1>1, <1>2 DEF Drained, SocketType

LEMMA AppendPiece ==
  ASSUME NEW send \in Seq(Piece), NEW kind \in OutputKinds
  PROVE  /\ Append(send, [kind |-> kind, src |-> 0]) \in Seq(Piece)
         /\ Append(send, [kind |-> kind, src |-> 0]) # <<>>
<1>1. [kind |-> kind, src |-> 0] \in Piece
  BY DEF Piece, Kinds
<1> QED BY <1>1, AppendProperties

(* The event of a connection that is in the table. *)
LEMMA EventOpen ==
  ASSUME IInv, NEW fd \in Fd, fd \in DOMAIN batch
  PROVE  fd \in DOMAIN connections /\ fd \in DOMAIN sockets /\ fd \in DOMAIN interest
BY Descriptors DEF IInv, PendingOpen, TablesAgree

LEMMA ReadUnknownGood ==
  ASSUME IInv, NEW fd \in Fd, ReadUnknown(fd) PROVE IInv'
<1> DEFINE c == AfterRead(fd)
           send == Append(c.send, [kind |-> "health", src |-> 0])
           d == [c EXCEPT !.send = send, !.want = TRUE]
<1>1. fd \in DOMAIN batch /\ fd \in DOMAIN connections
  BY EventOpen DEF ReadUnknown, ReadOpen, NextEvent
<1>2. GoodConnection(fd, c)
  BY <1>1, AfterReadGood
<1>3. send \in Seq(Piece) /\ send # <<>>
  BY <1>2, AppendPiece DEF GoodConnection, ConnectionType, OutputKinds
<1>4. GoodConnection(fd, d)
  <2> HIDE DEF c, send
  <2> QED BY <1>2, <1>3 DEF GoodConnection, ConnectionType
<1>5. /\ connections' = [connections EXCEPT ![fd] = d]
      /\ interest' = [interest EXCEPT ![fd] = {"IN", "OUT"}]
      /\ sockets' = Drained(fd)
  BY DEF ReadUnknown, HealthResponse
<1>6. GoodTables(connections, interest, sockets)'
  <2> HIDE DEF d
  <2> QED BY <1>1, <1>4, <1>5, DrainedGood, Rearranged DEF GoodTables, GoodInterest
<1>7. (GoodLoop /\ PendingOpen)'
  BY <1>1, <1>5, DoneGood DEF ReadUnknown
<1> QED BY <1>6, <1>7, Rearranged, RearrangedNext DEF ReadUnknown, callerVars

(* What FinishRead needs of the table OnReadable leaves. *)
GoodChange(fd, table) ==
  /\ DOMAIN table = DOMAIN connections
  /\ \A f \in DOMAIN connections : GoodConnection(f, table[f])
  /\ \A f \in DOMAIN connections \ {fd, PeerOf(fd)} : table[f].want = connections[f].want

LEMMA RefreshedGood ==
  ASSUME IInv, NEW fd \in DOMAIN connections, NEW table, GoodChange(fd, table)
  PROVE  GoodTables(table, Refreshed(fd, table), Drained(fd))
<1>1. DOMAIN Refreshed(fd, table) = DOMAIN connections
  BY DEF Refreshed, IInv, TablesAgree
<1>2. ASSUME NEW f \in DOMAIN connections
      PROVE  GoodInterest(table[f], Refreshed(fd, table)[f])
  <2>1. CASE f \in {fd, PeerOf(fd)}
    BY <1>1, <2>1 DEF Refreshed, Wanted, GoodInterest
  <2>2. CASE f \notin {fd, PeerOf(fd)}
    BY <1>1, <2>2, Rearranged DEF Refreshed, GoodInterest, GoodChange, GoodTables
  <2> QED BY <2>1, <2>2
<1> QED BY <1>1, <1>2, DrainedGood, Rearranged DEF GoodTables, GoodChange

LEMMA EndReadGood ==
  ASSUME IInv, NEW fd \in Fd, NextEvent(fd, "Readable"), EndRead(fd),
         DOMAIN connections \subseteq DOMAIN connections'
  PROVE  (GoodLoop /\ PendingOpen)'
<1>1. CASE "Writable" \in batch[fd]
  <2>1. /\ DOMAIN batch' = DOMAIN batch
        /\ batch'[fd] = {"Writable"}
        /\ \A f \in DOMAIN batch \ {fd} : batch'[f] = batch[f]
        /\ current' = fd /\ fd \in DOMAIN batch /\ status' = status
    BY <1>1 DEF EndRead, NextEvent
  <2> QED BY <2>1, Rearranged DEF GoodLoop, PendingOpen, HalfDone
<1>2. CASE "Writable" \notin batch[fd]
  BY <1>2, DoneGood DEF EndRead
<1> QED BY <1>1, <1>2

LEMMA FinishReadGood ==
  ASSUME IInv, NEW fd \in Fd, NextEvent(fd, "Readable"), NEW table, GoodChange(fd, table),
         FinishRead(fd, table)
  PROVE  IInv'
<1>1. fd \in DOMAIN connections
  BY EventOpen DEF NextEvent
<1>2. GoodTables(table, Refreshed(fd, table), Drained(fd))
  BY <1>1, RefreshedGood
<1>3. CASE NeedsUpstream(table[fd]) /\ Upstream(fd, table)
  <2>1. PICK up \in Fd, stream \in ServerStreams :
          /\ Lowest(up)
          /\ connections' = Put([table EXCEPT ![fd].peer = up], up, NewConnection("Upstream", fd))
          /\ interest' = Put(Refreshed(fd, table), up, {"IN", "OUT"})
          /\ sockets' = Put([Drained(fd) EXCEPT ![fd].paired = @ \cup {made + 1}], up,
                            NewSocket(made + 1, stream, FALSE, {sockets[fd].gen}))
          /\ made' = made + 1
    BY <1>3 DEF Upstream
  <2> DEFINE linked == [table EXCEPT ![fd].peer = up]
             open == [Drained(fd) EXCEPT ![fd].paired = @ \cup {made + 1}]
  <2>2. up \notin DOMAIN connections /\ up # fd /\ fd # NoFd /\ up # NoFd
    BY <1>1, <2>1, Descriptors DEF Lowest, IInv, TablesAgree
  <2>3. made \in Nat /\ sockets[fd].gen \in Nat /\ stream \in Seq(InputKinds)
    BY <1>1, Rearranged, StreamAssumption DEF GoodTables, SocketType
  <2>4. NewSocket(made + 1, stream, FALSE, {sockets[fd].gen}) \in SocketType
    <3>1. made + 1 \in Nat /\ {sockets[fd].gen} \in SUBSET Nat /\ FALSE \in BOOLEAN
      BY <2>3
    <3> QED BY <2>3, <3>1, NewSocketType
  <2>5. /\ GoodConnection(up, NewConnection("Upstream", fd))
        /\ GoodInterest(NewConnection("Upstream", fd), {"IN", "OUT"})
    BY <2>2, NewConnectionGood DEF GoodInterest
  <2>6. GoodTables(linked, Refreshed(fd, table), open)
    <3>1. GoodConnection(fd, table[fd]) /\ fd \in DOMAIN table
      BY <1>1, <1>2 DEF GoodTables, GoodChange
    <3>2. [table[fd] EXCEPT !.peer = up] \in ConnectionType
      BY <3>1, <2>1 DEF GoodConnection, ConnectionType
    <3>3. /\ linked[fd] = [table[fd] EXCEPT !.peer = up]
          /\ \A f \in DOMAIN table \ {fd} : linked[f] = table[f]
          /\ DOMAIN linked = DOMAIN table
      BY <3>1
    <3>4. /\ linked[fd].want = table[fd].want /\ linked[fd].send = table[fd].send
          /\ linked[fd].role = table[fd].role /\ linked[fd].proto = table[fd].proto
          /\ linked[fd].peer = up
      BY <3>1, <3>3 DEF GoodConnection, ConnectionType
    <3>5. GoodConnection(fd, linked[fd])
      BY <1>3, <2>2, <3>1, <3>2, <3>3, <3>4 DEF GoodConnection, NeedsUpstream
    <3>6. GoodInterest(linked[fd], Refreshed(fd, table)[fd])
      BY <1>2, <3>1, <3>4 DEF GoodTables, GoodInterest
    <3>7. DOMAIN open = DOMAIN sockets /\ \A f \in DOMAIN sockets : open[f] \in SocketType
      <4>1. DOMAIN Drained(fd) = DOMAIN sockets /\ \A f \in DOMAIN sockets : Drained(fd)[f] \in SocketType
        BY <1>1, DrainedGood
      <4>2. fd \in DOMAIN sockets /\ Drained(fd)[fd] \in SocketType
        BY <1>1, <4>1 DEF IInv, TablesAgree
      <4>3. [Drained(fd)[fd] EXCEPT !.paired = @ \cup {made + 1}] \in SocketType
        <5> DEFINE s == Drained(fd)[fd]
                   more == s.paired \cup {made + 1}
        <5>1. s \in SocketType
          BY <4>2
        <5>2. more \in SUBSET Nat
          BY <2>3, <5>1 DEF SocketType
        <5>3. [s EXCEPT !.paired = more] \in SocketType
          <6> HIDE DEF s, more
          <6> QED BY <5>1, <5>2 DEF SocketType
        <5> QED BY <5>3
      <4> QED BY <4>1, <4>2, <4>3
    <3>8. DOMAIN sockets = DOMAIN table
      BY <1>1, <1>2, DrainedGood DEF GoodTables
    <3> HIDE DEF linked, open
    <3> QED BY <1>2, <3>1, <3>3, <3>5, <3>6, <3>7, <3>8 DEF GoodTables
  <2>7. GoodTables(connections, interest, sockets)'
    BY <2>1, <2>4, <2>5, <2>6, PutGood
  <2>8. DOMAIN connections \subseteq DOMAIN connections'
    BY <2>1 DEF Put, GoodChange
  <2>9. (GoodLoop /\ PendingOpen)'
    BY <2>8, EndReadGood DEF FinishRead
  <2>10. backlog' \in Nat /\ callers' \in Nat /\ made' \in Nat
    BY <2>1, <2>3, Rearranged DEF FinishRead, callerVars
  <2> QED BY <2>7, <2>9, <2>10, RearrangedNext
<1>4. CASE /\ connections' = table /\ interest' = Refreshed(fd, table)
           /\ sockets' = Drained(fd) /\ made' = made
  <2>1. DOMAIN connections \subseteq DOMAIN connections'
    BY <1>4 DEF GoodChange
  <2>2. GoodTables(connections, interest, sockets)'
    BY <1>2, <1>4
  <2> QED BY <1>4, <2>1, <2>2, EndReadGood, Rearranged, RearrangedNext DEF FinishRead, callerVars
<1> QED BY <1>3, <1>4 DEF FinishRead

(* The connection a request was read from, once it is answered. *)
LEMMA AnsweredGood ==
  ASSUME IInv, NEW fd \in DOMAIN connections, NEW end \in RequestEnds(Received(fd))
  PROVE  LET c == AfterRead(fd)
             d == Answered(c, end)
         IN /\ d \in ConnectionType /\ d.want /\ d.send # <<>>
            /\ d.role = c.role /\ d.peer = c.peer /\ d.proto = c.proto
<1> DEFINE c == AfterRead(fd)
           d == Answered(c, end)
           verdict == IF Granted(c.recv) THEN "granted" ELSE "refused"
           send == Append(c.send, [kind |-> verdict, src |-> 0])
           rest == SubSeq(c.recv, end + 1, Len(c.recv))
<1>1. /\ GoodConnection(fd, c) /\ Received(fd) \in Seq(Input) /\ c.recv = Received(fd)
      /\ end \in 1..Len(Received(fd))
  BY AfterReadGood DEF RequestEnds
<1>2. send \in Seq(Piece) /\ send # <<>>
  BY <1>1, AppendPiece DEF GoodConnection, ConnectionType, OutputKinds
<1>3. rest \in Seq(Input)
  BY <1>1, SubSeqProperties
<1>4. Granted(c.recv) \in BOOLEAN
  BY DEF Granted
<1>5. d = [c EXCEPT !.recv = rest, !.send = send, !.want = TRUE, !.closed = ~Granted(c.recv)]
  BY DEF Answered
<1> HIDE DEF c, send, rest, d
<1>6. /\ d \in ConnectionType /\ d.want /\ d.send # <<>>
      /\ d.role = c.role /\ d.peer = c.peer /\ d.proto = c.proto
  BY <1>1, <1>2, <1>3, <1>4, <1>5 DEF GoodConnection, ConnectionType
<1> QED BY <1>6 DEF c, d

(* The request is answered on the connection it came from; the verdict is  *)
(* its own if it is a client, and otherwise that of the client it belongs to. *)
LEMMA ReadRequestGood ==
  ASSUME IInv, NEW fd \in Fd, ReadRequest(fd) PROVE IInv'
<1>1. fd \in DOMAIN batch /\ fd \in DOMAIN connections /\ NextEvent(fd, "Readable")
  BY EventOpen DEF ReadRequest, ReadOpen, NextEvent
<1> DEFINE c == AfterRead(fd)
           owner == IF connections[fd].role = "Client" THEN fd ELSE PeerOf(fd)
<1>2. /\ GoodConnection(fd, c) /\ Received(fd) \in Seq(Input) /\ c.recv = Received(fd)
      /\ c.proto = Protocol(fd) /\ c.role = connections[fd].role
      /\ PeerOf(fd) \in DOMAIN connections \cup {NoFd} /\ PeerOf(fd) # fd
      /\ c.peer = PeerOf(fd)
  BY <1>1, AfterReadGood
<1>3. PICK end \in RequestEnds(Received(fd)) :
        FinishRead(fd, [[connections EXCEPT ![fd] = Answered(c, end)]
                          EXCEPT ![owner].proto = Decided(Received(fd))])
  BY DEF ReadRequest
<1> DEFINE d == Answered(c, end)
           after == [connections EXCEPT ![fd] = d]
           table == [after EXCEPT ![owner].proto = Decided(Received(fd))]
<1>4. end \in 1..Len(Received(fd))
  BY DEF RequestEnds
<1>5. /\ d \in ConnectionType /\ d.want /\ d.send # <<>>
      /\ d.role = c.role /\ d.peer = c.peer /\ d.proto = c.proto
  BY <1>1, AnsweredGood
<1>6. Decided(Received(fd)) \in {"Established", "Failed"}
  BY DEF Decided
<1>7. CASE connections[fd].role = "Client"
  <2>1. c.proto = "Init" /\ c.peer = NoFd /\ c.role = "Client"
    BY <1>2, <1>7 DEF ReadRequest, Handler, GoodConnection
  <2>2. table = [connections EXCEPT ![fd] = [d EXCEPT !.proto = Decided(Received(fd))]]
    BY <1>1, <1>7
  <2>3. GoodConnection(fd, [d EXCEPT !.proto = Decided(Received(fd))])
    <3> HIDE DEF c, d
    <3> QED BY <1>2, <1>5, <1>6, <2>1 DEF GoodConnection, ConnectionType
  <2>4. GoodChange(fd, table)
    <3> HIDE DEF d
    <3> QED BY <1>1, <2>2, <2>3, Rearranged DEF GoodChange, GoodTables
  <2> QED BY <1>1, <1>3, <2>4, FinishReadGood
<1>8. CASE connections[fd].role # "Client"
  <2> DEFINE p == PeerOf(fd)
  <2>1. p \in DOMAIN connections /\ p # fd /\ connections[p].proto = "Init"
    BY <1>2, <1>8 DEF ReadRequest, Handler
  <2>2. GoodConnection(p, connections[p])
    BY <2>1, Rearranged DEF GoodTables
  <2>3. connections[p].role = "Client" /\ connections[p].peer = NoFd
    BY <2>1, <2>2 DEF GoodConnection, ConnectionType
  <2>4. GoodConnection(p, [connections[p] EXCEPT !.proto = Decided(Received(fd))])
    BY <1>6, <2>2, <2>3 DEF GoodConnection, ConnectionType
  <2>5. GoodConnection(fd, d)
    BY <1>2, <1>5 DEF GoodConnection
  <2>6. /\ DOMAIN table = DOMAIN connections
        /\ table[fd] = d
        /\ table[p] = [connections[p] EXCEPT !.proto = Decided(Received(fd))]
        /\ \A f \in DOMAIN connections \ {fd, p} : table[f] = connections[f]
    <3> HIDE DEF d
    <3> QED BY <1>1, <1>8, <2>1
  <2>7. GoodChange(fd, table)
    <3> HIDE DEF d, table
    <3> QED BY <1>1, <2>4, <2>5, <2>6, Rearranged DEF GoodChange, GoodTables
  <2> QED BY <1>1, <1>3, <2>7, FinishReadGood
<1> QED BY <1>7, <1>8

LEMMA TunnelGood ==
  ASSUME IInv, NEW fd \in Fd, Tunnel(fd) PROVE IInv'
<1>1. fd \in DOMAIN batch /\ fd \in DOMAIN connections /\ NextEvent(fd, "Readable")
  BY EventOpen DEF Tunnel, ReadOpen, NextEvent
<1> DEFINE c == AfterRead(fd)
           p == PeerOf(fd)
           d == [c EXCEPT !.recv = <<>>]
           sent == connections[p].send \o Received(fd)
           e == [connections[p] EXCEPT !.send = sent, !.want = TRUE]
           table == [connections EXCEPT ![fd] = d, ![p].send = sent, ![p].want = TRUE]
<1>2. /\ GoodConnection(fd, c) /\ Received(fd) \in Seq(Input)
      /\ p \in DOMAIN connections /\ p # fd /\ Received(fd) # <<>>
  BY <1>1, AfterReadGood DEF Tunnel, Relays
<1>3. GoodConnection(p, connections[p])
  BY <1>2, Rearranged DEF GoodTables
<1>4. sent \in Seq(Piece) /\ sent # <<>>
  BY <1>2, <1>3, InputIsPiece, ConcatProperties, ConcatEqualIffEmpty DEF GoodConnection, ConnectionType
<1>5. GoodConnection(p, e)
  <2> HIDE DEF sent
  <2> QED BY <1>3, <1>4 DEF GoodConnection, ConnectionType
<1>6. GoodConnection(fd, d)
  <2>1. <<>> \in Seq(Input)
    BY EmptySeq
  <2> HIDE DEF c
  <2> QED BY <1>2, <2>1 DEF GoodConnection, ConnectionType
<1>7. /\ DOMAIN table = DOMAIN connections
      /\ table[fd] = d /\ table[p] = e
      /\ \A f \in DOMAIN connections \ {fd, p} : table[f] = connections[f]
  <2> HIDE DEF d, sent
  <2> QED BY <1>1, <1>2
<1>8. GoodChange(fd, table)
  <2> HIDE DEF table, d, e
  <2> QED BY <1>1, <1>2, <1>5, <1>6, <1>7, Rearranged DEF GoodChange, GoodTables
<1> QED BY <1>1, <1>8, FinishReadGood DEF Tunnel

LEMMA ReadKeptGood ==
  ASSUME IInv, NEW fd \in Fd, ReadKept(fd) PROVE IInv'
<1>1. fd \in DOMAIN batch /\ fd \in DOMAIN connections /\ NextEvent(fd, "Readable")
  BY EventOpen DEF ReadKept, ReadOpen, NextEvent
<1>2. GoodConnection(fd, AfterRead(fd))
  BY <1>1, AfterReadGood
<1>3. GoodChange(fd, [connections EXCEPT ![fd] = AfterRead(fd)])
  BY <1>1, <1>2, Rearranged DEF GoodChange, GoodTables
<1> QED BY <1>1, <1>3, FinishReadGood DEF ReadKept

-----------------------------------------------------------------------------
(* The writable half. *)

(* What a write does to the sockets. *)
LEMMA SentGood ==
  ASSUME IInv, NEW fd \in DOMAIN sockets, NEW n \in 0..Len(connections[fd].send)
  PROVE  /\ DOMAIN Sent(fd, n) = DOMAIN sockets
         /\ \A f \in DOMAIN sockets : Sent(fd, n)[f] \in SocketType
         /\ \A f \in DOMAIN sockets : Sent(fd, n)[f].gen = sockets[f].gen
         /\ \A f \in DOMAIN sockets : Sent(fd, n)[f].todo = sockets[f].todo
         /\ \A f \in DOMAIN sockets : Sent(fd, n)[f].inq = sockets[f].inq
         /\ \A f \in DOMAIN sockets : Sent(fd, n)[f].paired = sockets[f].paired
         /\ \A f \in DOMAIN sockets \ {fd} : Sent(fd, n)[f].given = sockets[f].given
         /\ Sent(fd, n)[fd].given = sockets[fd].given \o SubSeq(connections[fd].send, 1, n)
<1> DEFINE out == connections[fd].send
           s == sockets[fd]
           front == SubSeq(out, 1, n)
           all == s.given \o front
           err == IF s.err = "reset" /\ out # <<>> THEN "dead" ELSE s.err
           t == [s EXCEPT !.given = all, !.err = err]
<1>1. /\ out \in Seq(Piece) /\ n \in 0..Len(out)
      /\ s \in SocketType /\ \A f \in DOMAIN sockets : sockets[f] \in SocketType
  BY DEF IInv, TablesAgree, TypeOK, ConnectionType
<1>2. front \in Seq(Piece)
  <2> HIDE DEF out
  <2>1. \A k \in 1..n : out[k] \in Piece
    BY <1>1
  <2> QED BY <1>1, <2>1, SubSeqProperties
<1>3. all \in Seq(Piece)
  <2> HIDE DEF front
  <2> QED BY <1>1, <1>2, ConcatProperties DEF SocketType
<1>4. err \in {"ok", "reset", "dead"}
  BY <1>1 DEF SocketType
<1>5. Sent(fd, n) = [sockets EXCEPT ![fd] = t]
  BY DEF Sent
<1> HIDE DEF all, err
<1>6. /\ t \in SocketType /\ t.gen = s.gen /\ t.todo = s.todo /\ t.inq = s.inq
      /\ t.paired = s.paired /\ t.given = all
  BY <1>1, <1>3, <1>4 DEF SocketType
<1> HIDE DEF t
<1>7. DOMAIN Sent(fd, n) = DOMAIN sockets /\ Sent(fd, n)[fd] = t
      /\ \A f \in DOMAIN sockets \ {fd} : Sent(fd, n)[f] = sockets[f]
  BY <1>5
<1> QED BY <1>1, <1>6, <1>7 DEF all

LEMMA WriteEventGood ==
  ASSUME IInv, NEW fd \in Fd, WriteEvent(fd) PROVE IInv'
<1> DEFINE c == connections[fd]
<1>1. fd \in DOMAIN batch /\ fd \in DOMAIN connections /\ fd \in DOMAIN sockets
  BY EventOpen DEF WriteEvent, Writing
<1>2. GoodConnection(fd, c)
  BY <1>1, Rearranged DEF GoodTables
<1>3. PICK n \in 0..Len(c.send) : Written(fd, n) /\ sockets' = Sent(fd, n)
  BY DEF WriteEvent
<1> DEFINE rest == SubSeq(c.send, n + 1, Len(c.send))
           left == [c EXCEPT !.peer = PeerOf(fd), !.send = rest, !.want = rest # <<>>]
<1>4. /\ connections' = [connections EXCEPT ![fd] = left]
      /\ interest' = [interest EXCEPT ![fd] = Wanted(left)]
  BY <1>3 DEF Written
<1>5. rest \in Seq(Piece)
  BY <1>2, <1>3, SubSeqProperties DEF GoodConnection, ConnectionType
<1>6. PeerOf(fd) \in Fd \cup {NoFd} /\ PeerOf(fd) \in {c.peer, NoFd} /\ PeerOf(fd) # fd
  BY <1>1, <1>2, AfterReadGood, Rearranged DEF PeerOf, GoodTables
<1>7. left \in ConnectionType
  <2>1. (rest # <<>>) \in BOOLEAN
    OBVIOUS
  <2> HIDE DEF rest
  <2> QED BY <1>2, <1>5, <1>6, <2>1 DEF GoodConnection, ConnectionType
<1>8. /\ left.peer = PeerOf(fd) /\ left.send = rest /\ left.want = (rest # <<>>)
      /\ left.role = c.role /\ left.proto = c.proto
  <2> HIDE DEF rest
  <2> QED BY <1>2 DEF GoodConnection, ConnectionType
<1>9. GoodConnection(fd, left) /\ GoodInterest(left, Wanted(left))
  <2>1. GoodInterest(left, Wanted(left))
    BY DEF GoodInterest, Wanted
  <2>2. GoodConnection(fd, left)
    <3> HIDE DEF left, rest
    <3> QED BY <1>2, <1>6, <1>7, <1>8 DEF GoodConnection
  <2> QED BY <2>1, <2>2
<1>10. DOMAIN sockets' = DOMAIN sockets /\ \A f \in DOMAIN sockets : sockets'[f] \in SocketType
  <2>1. DOMAIN Sent(fd, n) = DOMAIN sockets /\ \A f \in DOMAIN sockets : Sent(fd, n)[f] \in SocketType
    BY <1>1, <1>3, SentGood
  <2> QED BY <1>3, <2>1
<1>11. GoodTables(connections, interest, sockets)'
  <2> HIDE DEF left
  <2> QED BY <1>1, <1>4, <1>9, <1>10, Rearranged DEF GoodTables
<1>12. (GoodLoop /\ PendingOpen)'
  BY <1>1, <1>4, DoneGood DEF WriteEvent
<1> QED BY <1>11, <1>12, Rearranged, RearrangedNext DEF WriteEvent, callerVars

-----------------------------------------------------------------------------
(* The steps together. *)

LEMMA HandleGood ==
  ASSUME IInv, NEW fd \in Fd, Handle(fd) PROVE IInv'
<1>1. CASE ErrorEvent(fd)
  BY <1>1, EraseGood DEF ErrorEvent, NextEvent
<1>2. CASE ReadClosed(fd)
  BY <1>2, EraseGood DEF ReadClosed, NextEvent
<1>3. CASE ReadUnknown(fd)
  BY <1>3, ReadUnknownGood
<1>4. CASE ReadRequest(fd)
  BY <1>4, ReadRequestGood
<1>5. CASE Tunnel(fd)
  BY <1>5, TunnelGood
<1>6. CASE ReadKept(fd)
  BY <1>6, ReadKeptGood
<1>7. CASE WriteEvent(fd)
  BY <1>7, WriteEventGood
<1>8. CASE WriteKilled(fd)
  <2>1. Halt("killed") /\ "killed" \in {"stopped", "killed"}
    BY <1>8 DEF WriteKilled
  <2> QED BY <2>1, HaltGood
<1> QED BY <1>1, <1>2, <1>3, <1>4, <1>5, <1>6, <1>7, <1>8 DEF Handle

LEMMA NextGood == IInv /\ [Next]_vars => IInv'
<1> SUFFICES ASSUME IInv, [Next]_vars PROVE IInv'
  OBVIOUS
<1>1. CASE Environment
  BY <1>1, EnvironmentGood
<1>2. CASE WaitForEvents
  BY <1>2, WaitGood
<1>3. CASE WaitInterrupted \/ WaitFails \/ ListenerError
  <2>1. Halt("stopped") /\ "stopped" \in {"stopped", "killed"}
    BY <1>3 DEF WaitInterrupted, WaitFails, ListenerError
  <2> QED BY <2>1, HaltGood
<1>4. CASE AcceptOne \/ AcceptRejected \/ AcceptAborted \/ AcceptDone
  BY <1>4, AcceptGood
<1>5. ASSUME NEW fd \in Fd, Handle(fd) PROVE IInv'
  BY <1>5, HandleGood
<1>6. CASE UNCHANGED vars
  BY <1>6, Rearranged, RearrangedNext
  DEF vars, GoodTables, GoodLoop, PendingOpen, HalfDone
<1> QED BY <1>1, <1>2, <1>3, <1>4, <1>5, <1>6 DEF Next, Server

(* The inductive invariant holds in every reachable state.                 *)
THEOREM Invariance == Spec => []IInv
BY InitGood, NextGood, PTL DEF Spec

(* Type correctness, for every set of descriptors and every stream.        *)
THEOREM TypeCorrect == Spec => []TypeOK
<1>1. IInv => TypeOK
  BY DEF IInv
<1> QED BY <1>1, Invariance, PTL

(* The table of connections, the open sockets and the registrations with   *)
(* the poller agree after every step, failures included.                   *)
THEOREM TablesAlwaysAgree == Spec => []TablesAgree
<1>1. IInv => TablesAgree
  BY DEF IInv
<1> QED BY <1>1, Invariance, PTL

(* No lost wake-up: whoever stages bytes for a connection arms it.         *)
THEOREM OutputAlwaysArmed == Spec => []OutputArmed
<1>1. IInv => OutputArmed
  BY DEF IInv
<1> QED BY <1>1, Invariance, PTL

(* An upstream connection is only ever opened for a granted request.       *)
THEOREM UpstreamOnlyAfterGrant == Spec => []UpstreamAfterGrant
<1>1. IInv => UpstreamAfterGrant
  BY DEF IInv
<1> QED BY <1>1, Invariance, PTL

-----------------------------------------------------------------------------
(* Events of a batch stay about the socket they were reported for.         *)

(* No open socket is closed or replaced. *)
SocketsKept ==
  \A f \in DOMAIN sockets : f \in DOMAIN sockets' /\ sockets'[f].gen = sockets[f].gen

EventsKept ==
  \A f \in (DOMAIN batch \cap DOMAIN batch') \ {ListenFd} :
    /\ f \in DOMAIN sockets \cap DOMAIN sockets'
    /\ sockets'[f].gen = sockets[f].gen

LEMMA KeptSockets == ASSUME IInv, SocketsKept PROVE EventsKept
BY DEF IInv, PendingOpen, TablesAgree, SocketsKept, EventsKept

LEMMA KeptByEnvironment == ASSUME IInv, Environment PROVE SocketsKept
<1>1. CASE ClientCalls
  BY <1>1 DEF ClientCalls, SocketsKept
<1>2. ASSUME NEW fd \in DOMAIN sockets,
             Arrive(fd) \/ FinArrives(fd) \/ ResetArrives(fd) \/ ConnectCompletes(fd)
      PROVE  SocketsKept
  <2>1. \A f \in DOMAIN sockets : sockets[f] \in SocketType
    BY DEF IInv, TypeOK
  <2>2. PICK s : sockets' = [sockets EXCEPT ![fd] = s] /\ s.gen = sockets[fd].gen
    BY <1>2, <2>1 DEF Arrive, FinArrives, ResetArrives, ConnectCompletes, Remote, SocketType
  <2> QED BY <2>2 DEF SocketsKept
<1> QED BY <1>1, <1>2 DEF Environment

LEMMA KeptByAccept == ASSUME AcceptOne \/ AcceptRejected \/ AcceptAborted \/ AcceptDone
                      PROVE  SocketsKept
<1>1. CASE AcceptOne
  BY <1>1 DEF AcceptOne, Accepted, Lowest, Put, SocketsKept
<1>2. CASE UNCHANGED sockets
  BY <1>2 DEF SocketsKept
<1> QED BY <1>1, <1>2 DEF AcceptRejected, AcceptAborted, Turned, AcceptDone

LEMMA KeptByFinishRead ==
  ASSUME IInv, NEW fd \in DOMAIN connections, NEW table, FinishRead(fd, table) PROVE SocketsKept
<1>1. /\ DOMAIN Drained(fd) = DOMAIN sockets
      /\ \A f \in DOMAIN sockets : Drained(fd)[f] \in SocketType
      /\ \A f \in DOMAIN sockets : Drained(fd)[f].gen = sockets[f].gen
  BY DrainedGood
<1>2. CASE Upstream(fd, table)
  <2>1. PICK up \in Fd :
          \E stream \in ServerStreams :
            /\ up \notin DOMAIN sockets
            /\ sockets' = Put([Drained(fd) EXCEPT ![fd].paired = @ \cup {made + 1}], up,
                             NewSocket(made + 1, stream, FALSE, {sockets[fd].gen}))
    BY <1>2 DEF Upstream, Lowest
  <2> DEFINE open == [Drained(fd) EXCEPT ![fd].paired = @ \cup {made + 1}]
  <2>2. DOMAIN open = DOMAIN sockets /\ \A f \in DOMAIN sockets : open[f].gen = sockets[f].gen
    BY <1>1 DEF SocketType
  <2> HIDE DEF open
  <2>3. \A f \in DOMAIN sockets : f \in DOMAIN sockets' /\ sockets'[f] = open[f]
    BY <2>1, <2>2 DEF Put, open
  <2> QED BY <2>2, <2>3 DEF SocketsKept
<1>3. CASE sockets' = Drained(fd)
  BY <1>1, <1>3 DEF SocketsKept
<1> QED BY <1>2, <1>3 DEF FinishRead

LEMMA KeptByHandle == ASSUME IInv, NEW fd \in Fd, Handle(fd) PROVE EventsKept
<1>1. CASE ErrorEvent(fd) \/ ReadClosed(fd)
  <2>1. DOMAIN batch' = DOMAIN batch \ {fd}
    BY <1>1 DEF ErrorEvent, ReadClosed, Done, Erased, Restrict
  <2>2. DOMAIN sockets' = DOMAIN sockets \ {fd} /\ \A f \in DOMAIN sockets' : sockets'[f] = sockets[f]
    BY <1>1 DEF ErrorEvent, ReadClosed, EraseConnection, Erased, Restrict
  <2> QED BY <2>1, <2>2 DEF IInv, PendingOpen, TablesAgree, EventsKept
<1>2. CASE ReadUnknown(fd)
  <2>1. fd \in DOMAIN connections /\ sockets' = Drained(fd)
    BY <1>2, EventOpen DEF ReadUnknown, ReadOpen, NextEvent
  <2> QED BY <2>1, DrainedGood, KeptSockets DEF SocketsKept
<1>3. CASE ReadRequest(fd) \/ Tunnel(fd) \/ ReadKept(fd)
  <2>1. fd \in DOMAIN connections
    BY <1>3, EventOpen DEF ReadRequest, Tunnel, ReadKept, ReadOpen, NextEvent
  <2>2. \E table : FinishRead(fd, table)
    BY <1>3 DEF ReadRequest, Tunnel, ReadKept
  <2> QED BY <2>1, <2>2, KeptByFinishRead, KeptSockets
<1>4. CASE WriteEvent(fd)
  <2>1. fd \in DOMAIN sockets
    BY <1>4, EventOpen DEF WriteEvent, Writing
  <2>2. PICK n \in 0..Len(connections[fd].send) : sockets' = Sent(fd, n)
    BY <1>4 DEF WriteEvent
  <2>3. DOMAIN Sent(fd, n) = DOMAIN sockets /\ \A f \in DOMAIN sockets : Sent(fd, n)[f].gen = sockets[f].gen
    BY <2>1, <2>2, SentGood
  <2>4. SocketsKept
    BY <2>2, <2>3 DEF SocketsKept
  <2> QED BY <2>4, KeptSockets
<1>5. CASE WriteKilled(fd)
  BY <1>5, NothingThere DEF WriteKilled, Halt, EventsKept
<1> QED BY <1>1, <1>2, <1>3, <1>4, <1>5 DEF Handle

(* While an event waits, its descriptor is neither closed nor handed out    *)
(* again, so the look-up by descriptor finds the right connection.          *)
THEOREM EventsAlwaysFresh == Spec => EventsFresh
<1>1. ASSUME IInv, [Next]_vars PROVE EventsKept
  <2>1. CASE Environment
    BY <1>1, <2>1, KeptByEnvironment, KeptSockets
  <2>2. CASE WaitForEvents
    BY <1>1, <2>2, KeptSockets DEF WaitForEvents, SocketsKept
  <2>3. CASE WaitInterrupted \/ WaitFails \/ ListenerError
    BY <2>3, NothingThere DEF WaitInterrupted, WaitFails, ListenerError, Halt, EventsKept
  <2>4. CASE AcceptOne \/ AcceptRejected \/ AcceptAborted \/ AcceptDone
    BY <1>1, <2>4, KeptByAccept, KeptSockets
  <2>5. ASSUME NEW fd \in Fd, Handle(fd) PROVE EventsKept
    BY <1>1, <2>5, KeptByHandle
  <2>6. CASE UNCHANGED vars
    BY <1>1, <2>6, KeptSockets DEF vars, SocketsKept
  <2> QED BY <1>1, <2>1, <2>2, <2>3, <2>4, <2>5, <2>6 DEF Next, Server
<1>2. IInv /\ [Next]_vars => [EventsKept]_vars
  BY <1>1
<1> QED BY <1>2, Invariance, PTL DEF Spec, EventsFresh, EventsKept

-----------------------------------------------------------------------------
(* Verdicts are final.                                                     *)

NoRetreat(before, after) ==
  /\ before \in {"Established", "Failed"} => after = before
  /\ before = "Init" => after # "none"

VerdictsKept ==
  \A f \in DOMAIN connections \cap DOMAIN connections' :
    NoRetreat(connections[f].proto, connections'[f].proto)

LEMMA ProtocolForward ==
  ASSUME NEW fd \in DOMAIN connections PROVE NoRetreat(connections[fd].proto, Protocol(fd))
BY DEF Protocol, NoRetreat

LEMMA FinishReadForward ==
  ASSUME NEW fd \in DOMAIN connections, NEW table, FinishRead(fd, table), IInv,
         DOMAIN table = DOMAIN connections, table[fd] \in ConnectionType,
         \A f \in DOMAIN connections : NoRetreat(connections[f].proto, table[f].proto)
  PROVE  VerdictsKept
<1>1. CASE Upstream(fd, table)
  <2>1. PICK up \in Fd :
          /\ up \notin DOMAIN connections
          /\ connections' = Put([table EXCEPT ![fd].peer = up], up, NewConnection("Upstream", fd))
    BY <1>1 DEF Upstream, Lowest, IInv, TablesAgree
  <2> DEFINE linked == [table EXCEPT ![fd].peer = up]
  <2>2. \A f \in DOMAIN connections : linked[f].proto = table[f].proto
    BY DEF ConnectionType
  <2>3. DOMAIN linked = DOMAIN connections
    OBVIOUS
  <2> HIDE DEF linked
  <2>4. \A f \in DOMAIN connections : connections'[f] = linked[f]
    BY <2>1, <2>3 DEF Put, linked
  <2> QED BY <2>2, <2>4 DEF VerdictsKept
<1>2. CASE connections' = table
  BY <1>2 DEF VerdictsKept
<1> QED BY <1>1, <1>2 DEF FinishRead

LEMMA RequestForward == ASSUME IInv, NEW fd \in Fd, ReadRequest(fd) PROVE VerdictsKept
<1>1. fd \in DOMAIN connections
  BY EventOpen DEF ReadRequest, ReadOpen, NextEvent
<1> DEFINE c == AfterRead(fd)
           owner == IF connections[fd].role = "Client" THEN fd ELSE PeerOf(fd)
<1>2. PICK end \in RequestEnds(Received(fd)) :
        FinishRead(fd, [[connections EXCEPT ![fd] = Answered(c, end)]
                          EXCEPT ![owner].proto = Decided(Received(fd))])
  BY DEF ReadRequest
<1> DEFINE d == Answered(c, end)
           table == [[connections EXCEPT ![fd] = d] EXCEPT ![owner].proto = Decided(Received(fd))]
<1>3. /\ GoodConnection(fd, c) /\ c.proto = Protocol(fd)
      /\ PeerOf(fd) \in DOMAIN connections \cup {NoFd} /\ PeerOf(fd) # fd
  BY <1>1, AfterReadGood
<1>4. d \in ConnectionType /\ d.proto = c.proto
  BY <1>1, AnsweredGood
<1>5. Decided(Received(fd)) \in {"Established", "Failed"}
  BY DEF Decided
<1>6. /\ owner \in DOMAIN connections
      /\ owner = fd => Protocol(fd) = "Init"
      /\ owner # fd => connections[owner].proto = "Init"
  BY <1>1, <1>3 DEF ReadRequest, Handler
<1>7. \A f \in DOMAIN connections : connections[f] \in ConnectionType
  BY DEF IInv, TypeOK
<1>8. NoRetreat(connections[fd].proto, Protocol(fd))
  BY <1>1, ProtocolForward
<1>9. /\ DOMAIN table = DOMAIN connections
      /\ table[owner].proto = Decided(Received(fd))
      /\ \A f \in DOMAIN connections \ {owner} :
           table[f].proto = IF f = fd THEN d.proto ELSE connections[f].proto
  <2> HIDE DEF d, owner
  <2> QED BY <1>1, <1>4, <1>6, <1>7 DEF ConnectionType
<1>10. \A f \in DOMAIN connections : NoRetreat(connections[f].proto, table[f].proto)
  <2> HIDE DEF table, d
  <2> QED BY <1>3, <1>4, <1>5, <1>6, <1>8, <1>9 DEF NoRetreat
<1>11. table[fd] \in ConnectionType
  <2> HIDE DEF d, owner
  <2> QED BY <1>1, <1>4, <1>5, <1>6 DEF ConnectionType
<1> QED BY <1>1, <1>2, <1>9, <1>10, <1>11, FinishReadForward

LEMMA HandleForward == ASSUME IInv, NEW fd \in Fd, Handle(fd) PROVE VerdictsKept
<1>1. \A f \in DOMAIN connections : connections[f] \in ConnectionType
  BY DEF IInv, TypeOK
<1>2. CASE ErrorEvent(fd) \/ ReadClosed(fd)
  BY <1>2 DEF ErrorEvent, ReadClosed, EraseConnection, Erased, Restrict, VerdictsKept, NoRetreat
<1>3. CASE ReadUnknown(fd)
  <2> DEFINE c == AfterRead(fd)
             d == [c EXCEPT !.send = Append(c.send, [kind |-> "health", src |-> 0]), !.want = TRUE]
  <2>1. fd \in DOMAIN connections /\ connections' = [connections EXCEPT ![fd] = d]
    BY <1>3, EventOpen DEF ReadUnknown, ReadOpen, NextEvent, HealthResponse
  <2>2. c \in ConnectionType /\ c.proto = Protocol(fd)
    BY <2>1, AfterReadGood DEF GoodConnection
  <2>3. d.proto = Protocol(fd)
    <3> HIDE DEF c
    <3> QED BY <2>2 DEF ConnectionType
  <2>4. NoRetreat(connections[fd].proto, d.proto)
    BY <2>1, <2>3, ProtocolForward
  <2> HIDE DEF d
  <2> QED BY <2>1, <2>4 DEF VerdictsKept, NoRetreat
<1>4. CASE ReadRequest(fd)
  BY <1>4, RequestForward
<1>5. CASE Tunnel(fd)
  <2> DEFINE p == PeerOf(fd)
             d == [AfterRead(fd) EXCEPT !.recv = <<>>]
             sent == connections[p].send \o Received(fd)
             table == [connections EXCEPT ![fd] = d, ![p].send = sent, ![p].want = TRUE]
  <2>1. fd \in DOMAIN connections /\ p \in DOMAIN connections /\ p # fd
    <3>1. fd \in DOMAIN connections
      BY <1>5, EventOpen DEF Tunnel, ReadOpen, NextEvent
    <3> QED BY <1>5, <3>1, AfterReadGood DEF Tunnel, Relays
  <2>2. d \in ConnectionType /\ d.proto = Protocol(fd)
    <3>1. AfterRead(fd) \in ConnectionType /\ AfterRead(fd).proto = Protocol(fd)
      BY <2>1, AfterReadGood DEF GoodConnection
    <3>2. <<>> \in Seq(Input)
      BY EmptySeq
    <3> QED BY <3>1, <3>2 DEF ConnectionType
  <2>3. NoRetreat(connections[fd].proto, d.proto)
    BY <2>1, <2>2, ProtocolForward
  <2>4. /\ DOMAIN table = DOMAIN connections
        /\ table[fd] = d /\ table[p].proto = connections[p].proto
        /\ \A f \in DOMAIN connections \ {fd, p} : table[f] = connections[f]
    <3> HIDE DEF d, sent, p
    <3> QED BY <1>1, <2>1 DEF ConnectionType
  <2>5. \A f \in DOMAIN connections : NoRetreat(connections[f].proto, table[f].proto)
    <3> HIDE DEF d, table, p
    <3> QED BY <2>3, <2>4 DEF NoRetreat
  <2>6. FinishRead(fd, table)
    BY <1>5 DEF Tunnel
  <2> HIDE DEF d, table, p
  <2> QED BY <2>1, <2>2, <2>4, <2>5, <2>6, FinishReadForward
<1>6. CASE ReadKept(fd)
  <2> DEFINE c == AfterRead(fd)
             table == [connections EXCEPT ![fd] = c]
  <2>1. fd \in DOMAIN connections /\ FinishRead(fd, table)
    BY <1>6, EventOpen DEF ReadKept, ReadOpen, NextEvent
  <2>2. c \in ConnectionType /\ NoRetreat(connections[fd].proto, c.proto)
    BY <2>1, AfterReadGood, ProtocolForward DEF GoodConnection
  <2>3. /\ DOMAIN table = DOMAIN connections /\ table[fd] = c
        /\ \A f \in DOMAIN connections \ {fd} : table[f] = connections[f]
    BY <2>1
  <2> HIDE DEF table, c
  <2>4. \A f \in DOMAIN connections : NoRetreat(connections[f].proto, table[f].proto)
    BY <2>2, <2>3 DEF NoRetreat
  <2> QED BY <2>1, <2>2, <2>3, <2>4, FinishReadForward
<1>7. CASE WriteEvent(fd)
  <2>1. fd \in DOMAIN connections
    BY <1>7, EventOpen DEF WriteEvent, Writing
  <2>2. PICK n \in Nat : Written(fd, n)
    BY <1>7 DEF WriteEvent
  <2> DEFINE rest == SubSeq(connections[fd].send, n + 1, Len(connections[fd].send))
             left == [connections[fd] EXCEPT !.peer = PeerOf(fd), !.send = rest, !.want = rest # <<>>]
  <2>3. connections' = [connections EXCEPT ![fd] = left]
    BY <2>2 DEF Written
  <2>4. left.proto = connections[fd].proto
    <3> HIDE DEF rest
    <3> QED BY <1>1, <2>1 DEF ConnectionType
  <2> HIDE DEF left
  <2> QED BY <2>1, <2>3, <2>4 DEF VerdictsKept, NoRetreat
<1>8. CASE WriteKilled(fd)
  BY <1>8, NothingThere DEF WriteKilled, Halt, VerdictsKept
<1> QED BY <1>2, <1>3, <1>4, <1>5, <1>6, <1>7, <1>8 DEF Handle

(* No step takes a verdict back: a client is answered once, and the state   *)
(* that decides where its bytes go is never reset.                          *)
THEOREM VerdictsFinal == Spec => VerdictFinal
<1>1. ASSUME IInv, [Next]_vars PROVE VerdictsKept
  <2>1. CASE UNCHANGED connections
    BY <2>1 DEF VerdictsKept, NoRetreat
  <2>2. CASE AcceptOne
    BY <1>1, <2>2 DEF AcceptOne, Accepted, Lowest, Put, IInv, TablesAgree, VerdictsKept, NoRetreat
  <2>3. CASE WaitInterrupted \/ WaitFails \/ ListenerError
    BY <2>3, NothingThere DEF WaitInterrupted, WaitFails, ListenerError, Halt, VerdictsKept
  <2>4. ASSUME NEW fd \in Fd, Handle(fd) PROVE VerdictsKept
    BY <1>1, <2>4, HandleForward
  <2>5. CASE Environment
    BY <2>1, <2>5 DEF Environment, ClientCalls, Arrive, FinArrives, ResetArrives, ConnectCompletes, Remote
  <2> QED BY <1>1, <2>1, <2>2, <2>3, <2>4, <2>5
          DEF Next, Server, vars, WaitForEvents, AcceptRejected, AcceptAborted, Turned, AcceptDone
<1>2. IInv /\ [Next]_vars => [VerdictsKept]_vars
  BY <1>1
<1> QED BY <1>2, Invariance, PTL DEF Spec, VerdictFinal, VerdictsKept, NoRetreat
=============================================================================
