--------------------------- MODULE DetectorProofs ---------------------------
(***************************************************************************)
(* The detector's verdict is final, for any set of clients but those that   *)
(* open with the HTTP/2 preface.                                            *)
(***************************************************************************)
EXTENDS Detector, TLAPS

IInv == TypeOK /\ VerdictOfBytes

(* The probe is monotone: what is decided on n bytes is decided so on more. *)
LEMMA ProbeMonotone ==
  ASSUME NEW s \in Stream, NEW n \in Nat, NEW m \in Nat, n <= m,
         s.opening # Preface, ProbeProtocol(s, n) # "undecided"
  PROVE  ProbeProtocol(s, m) = ProbeProtocol(s, n)
<1>1. s.opening \in Methods => Length[s.opening] + 1 \in 1..8
  BY DEF Methods, Length
<1>2. s.opening \in Methods => s.opening \notin {"04", "05"}
  BY DEF Methods, Length
<1>3. IsSocks4(s, m) = IsSocks4(s, n) \/ n < 8
  BY DEF IsSocks4
<1>4. IsSocks4a(s, m) = IsSocks4a(s, n) \/ n < 8
  BY DEF IsSocks4a
<1> QED BY <1>1, <1>2, <1>3, <1>4 DEF ProbeProtocol, IsSocks4, IsSocks4a, IsSocks5, IsHttp

(* What was decided stays decided as more bytes arrive.                     *)
THEOREM VerdictsStable == Spec => VerdictStableButPreface
<1>1. Init => IInv
  BY StreamsAssumption DEF Init, IInv, TypeOK, VerdictOfBytes, ProbeProtocol, IsSocks4, IsSocks5, IsHttp, Methods, Length
<1>2. IInv /\ [Next]_vars => IInv'
  BY StreamsAssumption DEF IInv, TypeOK, VerdictOfBytes, Next, Receive, ProbeProtocol, vars
<1>3. IInv /\ [Next]_vars => [verdict # "undecided" /\ stream.opening # Preface => verdict' = verdict]_vars
  BY ProbeMonotone, StreamsAssumption DEF IInv, TypeOK, VerdictOfBytes, Next, Receive, vars
<1> QED BY <1>1, <1>2, <1>3, PTL DEF Spec, VerdictStableButPreface
=============================================================================
