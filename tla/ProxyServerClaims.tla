-------------------------- MODULE ProxyServerClaims --------------------------
(***************************************************************************)
(* What comments of the source say of the event loop and the code does not *)
(* do.  Each is checked by a run of its own, which finds it violated.       *)
(***************************************************************************)
EXTENDS ProxyServerTunnels

(* network.h:100-102, on Send: "<=0 : error or would-block on non-blocking   *)
(* socket".  On a connection that was reset, send() raises SIGPIPE and does   *)
(* not return.                                                               *)
SendReturns == status # "killed"

(* protocol.h:34, on OnReadable: "Peer is paired with self, this can be       *)
(* nullptr".  What is staged for a connection was read from a socket it was    *)
(* paired with, or is the proxy's own; the look-up by descriptor also finds     *)
(* the stranger that was given the descriptor of a closed peer.                *)
OwnPeerBytes ==
  \A f \in DOMAIN connections :
    \A i \in DOMAIN connections[f].send :
      connections[f].send[i].src \in sockets[f].paired \cup {0}

(* socks4.cc:119-122, on a refused client: "Nothing to do, server will close  *)
(* connection".  closed_ is looked at by the next Read only, which takes the    *)
(* client to send or close something.                                         *)
RefusedClosed ==
  \A f \in Fd : (f \in DOMAIN connections /\ connections[f].proto = "Failed")
                ~> (f \notin DOMAIN connections \/ connections[f].proto # "Failed")

(* connection.cc:160, on the detector's false: "not enough bytes yet", as in   *)
(* detector.h:27-29; proxy_server.cc:160-161 takes it for "Unknown connection   *)
(* protocol".  A client whose SOCKS4 request is still arriving must not be sent *)
(* the health page.                                                           *)
NoHealthTooEarly ==
  [][ \A f \in DOMAIN connections \cap DOMAIN connections' :
        LET before == connections[f].send
            after == connections'[f].send
            seen == connections'[f].recv
        IN Len(after) > Len(before) /\ after[Len(after)].kind = "health" =>
             ~(Size(seen) < 8 /\ seen[1].kind \in {"connect", "bind"}) ]_vars

(* socks4.cc:98-99: "Whichever side becomes readable, its bytes are moved into  *)
(* the peer's send buffer".  Bytes that leave the kernel's queue of a healthy    *)
(* socket in a tunnel are at the end of the peer's output; the ones that arrived *)
(* together with the end of the stream are dropped with the connection.         *)
ReceivedIsRelayed ==
  [][ \A f \in DOMAIN sockets :
        /\ Tunnelled(f) /\ sockets[f].inq # <<>> /\ sockets[f].err = "ok"
        /\ status' = "running"
        /\ f \in DOMAIN sockets' => sockets'[f].inq = <<>>
        => IsSuffix(sockets[f].inq, connections'[PeerOf(f)].send) ]_vars
=============================================================================
