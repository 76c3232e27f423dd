----------------------------- MODULE MCEncoding -----------------------------
(***************************************************************************)
(* Inputs for checking Encoding with TLC.                                  *)
(***************************************************************************)
EXTENDS Encoding

(* Bytes whose bits differ at both ends. *)
SomeBytes == {0, 1, 128, 213, 255}

(* Up to four bytes, so that every remainder modulo three occurs and the      *)
(* accumulator overflows; and one byte repeated up to twelve times.           *)
SomeInputs ==
  UNION { [1..n -> SomeBytes] : n \in 0..4 }
  \cup { [ i \in 1..n |-> b ] : n \in 5..12, b \in SomeBytes }

(* A, B, 9, /, = and a blank. *)
SomeTexts == UNION { [1..n -> {65, 66, 57, 47, 61, 32}] : n \in 0..5 }

(* Around the boundaries of two blocks, and where the number of bits takes    *)
(* another byte.                                                             *)
SomeSizes == 0..140 \cup {8191, 8192, 2097151, 2097152, 2^28 - 1}
=============================================================================
