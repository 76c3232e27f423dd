----------------------------- MODULE MCDetector -----------------------------
(***************************************************************************)
(* Detector with every kind of client, and the agreement of its verdicts   *)
(* on bytes with what Socks4 says of pieces.                               *)
(***************************************************************************)
EXTENDS Detector, Sequences

AllStreams == Stream

Pieces == INSTANCE Socks4

(* The first bytes of a buffer of pieces, as the detector sees them. *)
StreamOf(buf) ==
  [ opening |-> IF buf[1].kind \in {"request", "connect", "bind"} THEN "04" ELSE "other",
    blank |-> FALSE,
    domain |-> /\ Len(buf) > 1 /\ buf[1].kind \in {"connect", "bind"}
               /\ buf[2].kind = "addr4a" ]

Buffers == UNION { [1..n -> [kind : Pieces!InputKinds, src : {1}]] : n \in 1..3 }

(* A buffer of pieces is taken for SOCKS4 exactly when its bytes are.      *)
ASSUME PiecesAgree ==
  \A buf \in Buffers :
    Pieces!IsSocks4(buf) <=> ProbeProtocol(StreamOf(buf), Pieces!Size(buf)) = "Socks4"
=============================================================================
