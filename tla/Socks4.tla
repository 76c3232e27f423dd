------------------------------- MODULE Socks4 -------------------------------
(***************************************************************************)
(* What the proxy sees of the bytes of a connection: how a client's        *)
(* protocol is recognised (core/connection.cc SetProtocol,                 *)
(* core/protocol/detector.cc) and where a SOCKS4 request ends              *)
(* (core/protocol/socks4.cc).                                              *)
(*                                                                         *)
(* A stream of bytes is a sequence of pieces.  A piece is a run of bytes   *)
(* that always matter together; `src' is the incarnation of the socket it  *)
(* was read from (0: the proxy wrote it itself), so that a byte's origin   *)
(* can be told wherever it is.                                             *)
(***************************************************************************)
EXTENDS Integers, Sequences, FiniteSets, SequencesExt

(* What a client or a server may send. *)
InputKinds ==
  { "request",   \* a whole CONNECT request with an empty user id
    "connect",   \* 04 01 and the destination port
    "bind",      \* 04 02 and the destination port
    "addr",      \* the destination address of a SOCKS4 request
    "addr4a",    \* an address 0.0.0.x, the mark of SOCKS4a
    "userid",    \* the NUL that ends the user id
    "text",      \* nine bytes, no NUL, the first one is not 04
    "blob" }     \* nine bytes, the last one NUL, the first one is not 04

(* What the proxy itself writes. *)
OutputKinds == { "granted", "refused", "health" }

Kinds == InputKinds \cup OutputKinds

Piece == [kind : Kinds, src : Nat]
Input == [kind : InputKinds, src : Nat]

(* The number of bytes of a piece. *)
Width == [ k \in InputKinds |->
             CASE k = "userid" -> 1
               [] k \in {"request", "text", "blob"} -> 9
               [] OTHER -> 4 ]

Size(buf) == FoldLeft(LAMBDA n, p : n + Width[p.kind], 0, buf)

-----------------------------------------------------------------------------
(* Connection::SetProtocol with Detector::ProbeProtocol: eight bytes, the  *)
(* first one 04, and an address that is not SOCKS4a's.  Every other verdict *)
(* of the detector leaves protocol_ unset, whether it means "not enough     *)
(* bytes" or "a protocol that is not implemented".                          *)
IsSocks4(buf) ==
  /\ Size(buf) >= 8
  /\ \/ buf[1].kind = "request"
     \/ buf[1].kind \in {"connect", "bind"} /\ buf[2].kind # "addr4a"

(* The positions whose piece holds a NUL at byte 9 or later.  The request  *)
(* ends at the least of them; with none the request is incomplete.          *)
RequestEnds(buf) ==
  { i \in 1..Len(buf) : /\ buf[i].kind \in {"request", "userid", "blob"}
                        /\ Size(SubSeq(buf, 1, i)) >= 9 }

(* Version 4 and command CONNECT; anything else is refused. *)
Granted(buf) == buf[1].kind \in {"request", "connect"}
=============================================================================
