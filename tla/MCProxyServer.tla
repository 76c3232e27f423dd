--------------------------- MODULE MCProxyServer ---------------------------
(***************************************************************************)
(* Streams and constants for checking ProxyServer with TLC.                *)
(***************************************************************************)
EXTENDS ProxyServerClaims

(* A request in three pieces: the segments of a network may cut it anywhere, *)
(* and the first piece alone is too short for the detector.                  *)
Request == <<"connect", "addr", "userid">>

(* A client that sends data right behind its request, one that goes on when  *)
(* some of its data may already wait in the receive buffer, one whose BIND is *)
(* refused, one that speaks no known protocol, and one that asks twice: what *)
(* would be a second request belongs to the tunnel of the first.             *)
ClientStreams1 ==
  { Request \o <<"text">>, <<"request", "text", "text">>, <<"bind", "addr", "userid">>,
    <<"text">>, <<"request", "bind", "addr">> }

(* A client that only listens to its destination, where several share        *)
(* descriptors.                                                              *)
ClientStreams2 == { <<"request">> }

(* A client that sends data right behind its request, which may have to wait *)
(* for the handshake with the destination, and one that gets the health page. *)
ClientStreams3 == { <<"request", "text">>, <<"text">> }

ServerStreams1 == { <<"text">> }

(* A destination that only listens. *)
ServerStreams2 == { <<>> }
=============================================================================
