------------------------------ MODULE Detector ------------------------------
(***************************************************************************)
(* Detector::ProbeProtocol (core/protocol/detector.cc) on a buffer that    *)
(* grows read by read, as SetProtocol calls it for a client that has no     *)
(* protocol yet.  (Once the verdict is Socks4 the connection has one and is *)
(* not probed again; the model goes on.)                                   *)
(*                                                                         *)
(* Of a client's bytes the detector can tell apart only what they open      *)
(* with, the byte behind that, and whether bytes 5 to 8 are 0.0.0.x.        *)
(***************************************************************************)
EXTENDS Naturals

CONSTANTS Streams,   \* what clients may send
          MaxBytes   \* bound: bytes a client sends before we stop looking

Preface == "PRI * HTTP/2.0"

(* The methods of detector.cc:132-135 with their lengths. *)
Length == [ GET |-> 3, HEAD |-> 4, POST |-> 4, PUT |-> 3, DELETE |-> 6,
            CONNECT |-> 7, OPTIONS |-> 7, TRACE |-> 5, PATCH |-> 5 ]
Methods == DOMAIN Length

(* "04", "05": the version byte of SOCKS; "other": none of these. *)
Openings == Methods \cup {Preface, "04", "05", "other"}

Stream == [ opening : Openings, blank : BOOLEAN, domain : BOOLEAN ]

ASSUME StreamsAssumption == Streams \subseteq Stream /\ MaxBytes \in Nat

VARIABLES stream,    \* what this client sends
          received,  \* how many bytes of it are in receive_buffer_
          verdict    \* what the last probe returned

vars == <<stream, received, verdict>>

-----------------------------------------------------------------------------
(* The tests on the first n bytes. *)

IsSocks4(s, n) == n >= 8 /\ s.opening = "04"

IsSocks4a(s, n) == n >= 8 /\ s.domain
IsSocks5(s, n) == n >= 2 /\ s.opening = "05"

(* Mutant: "at least" is written "more than" in the size test of the methods. *)
IsHttpLate(s, n) ==
  \/ s.opening = Preface /\ n >= 14
  \/ s.opening \in Methods /\ n > Length[s.opening] + 1 /\ s.blank

(* A method counts only with the blank or tab behind it; the preface has to *)
(* be there to its last byte.                                               *)
IsHttp(s, n) ==
  \/ s.opening = Preface /\ n >= 14
  \/ s.opening \in Methods /\ n >= Length[s.opening] + 1 /\ s.blank

(* "undecided" is the return value false, any other the type of true. *)
ProbeProtocol(s, n) ==
  IF IsSocks4(s, n) THEN IF IsSocks4a(s, n) THEN "Socks4a" ELSE "Socks4"
  ELSE IF IsSocks5(s, n) THEN "Socks5"
  ELSE IF IsHttp(s, n) THEN "Http"
  ELSE IF n < 8 THEN "undecided"
  ELSE "Unsupported"

-----------------------------------------------------------------------------
Init == stream \in Streams /\ received = 0 /\ verdict = "undecided"

(* One read of any size, and the probe that follows it. *)
Receive(n) ==
  /\ received + n <= MaxBytes
  /\ received' = received + n
  /\ verdict' = ProbeProtocol(stream, received + n)
  /\ stream' = stream

Next == \E n \in 1..MaxBytes : Receive(n)
Spec == Init /\ [][Next]_vars

-----------------------------------------------------------------------------
TypeOK ==
  /\ stream \in Stream /\ received \in Nat
  /\ verdict \in {"undecided", "Socks4", "Socks4a", "Socks5", "Http", "Unsupported"}

(* detector.h:27-29: probing "returns true if buf has enough bytes, and      *)
(* false if buf does not have enough data".  True is therefore final: bytes   *)
(* that come later do not change a verdict, and no method and no SOCKS        *)
(* version is decided before the bytes that decide it.  The exception is the  *)
(* HTTP/2 preface, Unsupported on 8 to 13 bytes and Http on 14.               *)
VerdictStableButPreface ==
  [][verdict # "undecided" /\ stream.opening # Preface => verdict' = verdict]_vars

(* The verdict is that of the bytes alone (used by the proofs).              *)
VerdictOfBytes == verdict = ProbeProtocol(stream, received)
=============================================================================
