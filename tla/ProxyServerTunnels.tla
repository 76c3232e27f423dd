-------------------------- MODULE ProxyServerTunnels --------------------------
(***************************************************************************)
(* The event loop implements Tunnels.  Between the remote end that sent it  *)
(* and the one it is given to, a piece is in one of three places: the       *)
(* kernel's queue of the socket it came to, the receive buffer of that      *)
(* connection, and the send buffer of the peer.  Nothing of these is hidden *)
(* from Tunnels: the replies of the proxy and what a stranger's link left   *)
(* there are in transit like the rest.                                      *)
(***************************************************************************)
EXTENDS ProxyServer

(* What `from' has still to send, as it will be read. *)
Unsent(from) ==
  [ i \in DOMAIN sockets[from].todo |-> [kind |-> sockets[from].todo[i], src |-> sockets[from].gen] ]

Flows ==
  [ way \in { <<f, PeerOf(f)>> : f \in { g \in DOMAIN connections : Tunnelled(g) } } |->
      LET from == way[1]
          to == way[2]
      IN [ sender |-> sockets[from].gen,
           unsent |-> Unsent(from),
           transit |-> connections[to].send \o connections[from].recv \o sockets[from].inq,
           given |-> sockets[to].given ] ]

T == INSTANCE Tunnels
     WITH End <- Fd, Source <- Nat \ {0}, Message <- Piece, flow <- Flows

(* From the step that opens a tunnel to the one that ends it, what is in     *)
(* transit then and what an end sends later is what the other end is given   *)
(* (socks4.cc:96-117), in order, nothing lost and nothing twice, in whatever *)
(* cuts it is read, relayed and written; and it is given to no other tunnel. *)
(* Only the bytes of a connection that is in no tunnel may come in between,  *)
(* by a link left behind (proxy_server.cc:131); they take nothing away.      *)
TunnelsAreFifo == T!Spec
=============================================================================
