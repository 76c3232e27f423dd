------------------------------ MODULE Encoding ------------------------------
(***************************************************************************)
(* Base64 (core/utils/encoding.cc), a step for each turn of its loops, and  *)
(* the padding of a SHA-256 message (core/utils/sha256.cc:47-64), beside    *)
(* the definitions of their standards.  The code shifts bytes through an    *)
(* accumulator that overflows on all but the shortest inputs; the standards *)
(* speak of groups of 24 bits and of a number of 64.                        *)
(*                                                                         *)
(* Bytes and characters are numbers.                                        *)
(***************************************************************************)
EXTENDS Integers, Sequences

CONSTANTS
  Inputs,     \* what is encoded: sequences of bytes
  Texts,      \* what is decoded besides: sequences of characters
  Sizes,      \* the sizes of messages, in bytes, that are padded
  IntRange    \* how many values an int has: 2^32 in the code

ASSUME InputAssumption == Inputs \subseteq Seq(0..255) /\ Texts \subseteq Seq(0..255)

(* The bits of a message are counted in 64 bits: there are fewer than 2^61   *)
(* bytes.                                                                    *)
ASSUME SizeAssumption ==
  Sizes \subseteq Nat /\ \A size \in Sizes : ((size \div 2^30) \div 2^30) \div 2 = 0

(* An int has twelve bits at least: none above the twelfth is ever read.     *)
ASSUME RangeAssumption == IntRange \in Nat \ {0} /\ IntRange % 4096 = 0

VARIABLES
  call,    \* the call under way, or the one that has returned
  given,   \* what the first call was given
  input,   \* what this call was given
  at,      \* how much of it the loop has read
  loop     \* val, valb and output of the loop

vars == <<call, given, input, at, loop>>

-----------------------------------------------------------------------------
(* kBase64Chars: A-Z, a-z, 0-9, + and /. *)
kBase64Chars ==
  [ i \in 0..63 |-> CASE i < 26 -> 65 + i
                      [] i \in 26..51 -> 97 + (i - 26)
                      [] i \in 52..61 -> 48 + (i - 52)
                      [] i = 62 -> 43
                      [] OTHER -> 47 ]

Pad64 == 61  \* =

(* The inverse, as the table of Decode: -1 for every other character. *)
table ==
  [ c \in 0..255 |-> IF \E i \in 0..63 : kBase64Chars[i] = c
                     THEN CHOOSE i \in 0..63 : kBase64Chars[i] = c ELSE -1 ]

(* val is an int and loses its high bits as it is shifted; the value of those *)
(* it keeps is not negative here, as its sign is never read.                  *)
ToInt(n) == n % IntRange
Shifted(n, by) == n \div 2^by

-----------------------------------------------------------------------------
(* Base64Utils::Encode. *)

(* The inner loop's body: six bits leave the accumulator. *)
Drain(s) ==
  IF s.valb < 0 THEN s
  ELSE [val |-> s.val, valb |-> s.valb - 6,
        output |-> Append(s.output, kBase64Chars[Shifted(s.val, s.valb) % 64])]

(* A byte comes in; valb is at most 6 then and the inner loop has two turns  *)
(* at most.                                                                  *)
WithByte(s, c) ==
  Drain(Drain([val |-> ToInt(s.val * 256 + c), valb |-> s.valb + 8, output |-> s.output]))

(* Mutant: the last bits are not moved to the high end of their character. *)
WithRestRightAligned(s) ==
  IF s.valb > -6
  THEN Append(s.output, kBase64Chars[s.val % 2^(s.valb + 6)])
  ELSE s.output

WithRest(s) ==
  IF s.valb > -6
  THEN Append(s.output, kBase64Chars[Shifted(ToInt(s.val * 256), s.valb + 8) % 64])
  ELSE s.output

Filled(text) == text \o [ i \in 1..((4 - (Len(text) % 4)) % 4) |-> Pad64 ]

EncodeByte ==
  /\ call = "Encode" /\ at < Len(input)
  /\ loop' = WithByte(loop, input[at + 1]) /\ at' = at + 1
  /\ UNCHANGED <<call, given, input>>

EncodeEnd ==
  /\ call = "Encode" /\ at = Len(input)
  /\ call' = "Encoded" /\ loop' = [loop EXCEPT !.output = Filled(WithRest(loop))]
  /\ UNCHANGED <<given, input, at>>

-----------------------------------------------------------------------------
(* Base64Utils::Decode. *)

(* Mutant: a byte is put out before its eight bits are there. *)
WithCharEarly(s, c) ==
  LET val == ToInt(s.val * 64 + table[c])
      valb == s.valb + 6
  IN IF valb >= -2
     THEN [val |-> val, valb |-> valb - 8, output |-> Append(s.output, Shifted(val * 4, valb + 2) % 256)]
     ELSE [val |-> val, valb |-> valb, output |-> s.output]

WithChar(s, c) ==
  LET val == ToInt(s.val * 64 + table[c])
      valb == s.valb + 6
  IN IF valb >= 0
     THEN [val |-> val, valb |-> valb - 8, output |-> Append(s.output, Shifted(val, valb) % 256)]
     ELSE [val |-> val, valb |-> valb, output |-> s.output]

(* Mutant: a character that is not in the table does not end the loop. *)
NeverStops == at = Len(input)

(* The loop ends for good at the first character that is not in the table. *)
Stops == at < Len(input) => table[input[at + 1]] = -1

(* A caller decodes what Encode returned. *)
DecodeBack ==
  /\ call = "Encoded"
  /\ call' = "DecodeBack" /\ input' = loop.output /\ at' = 0
  /\ loop' = [val |-> 0, valb |-> -8, output |-> <<>>]
  /\ UNCHANGED given

DecodeChar ==
  /\ call \in {"Decode", "DecodeBack"} /\ ~Stops
  /\ loop' = WithChar(loop, input[at + 1]) /\ at' = at + 1
  /\ UNCHANGED <<call, given, input>>

DecodeEnd ==
  /\ call \in {"Decode", "DecodeBack"} /\ Stops
  /\ call' = IF call = "Decode" THEN "Decoded" ELSE "DecodedBack"
  /\ UNCHANGED <<given, input, at, loop>>

-----------------------------------------------------------------------------
(* Sha256::Compute, step 1: what is appended to a message of `size' bytes.  *)

(* Mutant: no zeros when the marker has passed byte 56 of the last block. *)
ZerosOfShort(size) == IF (size + 1) % 64 > 56 THEN 0 ELSE 56 - ((size + 1) % 64)

(* The turns of the loop: one for each byte until the size is 56 modulo 64. *)
Zeros(size) == CHOOSE k \in 0..63 : (size + 1 + k) % 64 = 56

(* bit_len, from its highest byte to its lowest. *)
Word(n) == <<Shifted(n, 24) % 256, Shifted(n, 16) % 256, Shifted(n, 8) % 256, n % 256>>
BigEndian(n) == Word(Shifted(Shifted(n, 16), 16)) \o Word(n)

Appended(size) ==
  <<128>> \o [ i \in 1..Zeros(size) |-> 0 ] \o BigEndian(size * 8)

Pad ==
  /\ call = "Pad"
  /\ call' = "Padded" /\ loop' = [loop EXCEPT !.output = Appended(input[1])]
  /\ UNCHANGED <<given, input, at>>

-----------------------------------------------------------------------------
Init ==
  /\ at = 0
  /\ \/ call = "Encode" /\ given \in Inputs /\ loop = [val |-> 0, valb |-> -6, output |-> <<>>]
     \/ call = "Decode" /\ given \in Texts /\ loop = [val |-> 0, valb |-> -8, output |-> <<>>]
     \/ /\ call = "Pad" /\ \E size \in Sizes : given = <<size>>
        /\ loop = [val |-> 0, valb |-> 0, output |-> <<>>]
  /\ input = given

Next == EncodeByte \/ EncodeEnd \/ DecodeBack \/ DecodeChar \/ DecodeEnd \/ Pad

Spec == Init /\ [][Next]_vars

-----------------------------------------------------------------------------
(* Properties. *)

(* RFC 4648, section 4: three bytes are 24 bits, those that are missing at   *)
(* the end are zeros, and the 24 bits are four groups of six.                *)
ByteAt(bytes, i) == IF i <= Len(bytes) THEN bytes[i] ELSE 0
Group(bytes, g) ==
  65536 * ByteAt(bytes, 3 * g + 1) + 256 * ByteAt(bytes, 3 * g + 2) + ByteAt(bytes, 3 * g + 3)
Sextet(bytes, k) == Shifted(Group(bytes, (k - 1) \div 4), 6 * (3 - ((k - 1) % 4))) % 64

(* How many of them there are for a number of bytes. *)
Sextets(n) == (8 * n + 5) \div 6

(* One character for each group of six bits, and as many `=' as are missing   *)
(* to a multiple of four.                                                    *)
IsBase64(text, bytes) ==
  /\ Len(text) = 4 * ((Len(bytes) + 2) \div 3)
  /\ \A k \in 1..Len(text) :
       text[k] = IF k <= Sextets(Len(bytes)) THEN kBase64Chars[Sextet(bytes, k)] ELSE Pad64

(* What Encode returns is the Base64 of its input (encoding.cc:23-42).       *)
EncodesRfc4648 == call = "Encoded" => IsBase64(loop.output, given)

(* Decoding gives back what was encoded, whatever its size and bytes.       *)
RoundTrip == call = "DecodedBack" => loop.output = given

(* Four characters of which the first `good' count are 24 bits again, and    *)
(* these are three bytes.                                                    *)
DigitAt(text, good, i) == IF i <= good THEN table[text[i]] ELSE 0
Quad(text, good, g) ==
  262144 * DigitAt(text, good, 4 * g + 1) + 4096 * DigitAt(text, good, 4 * g + 2)
  + 64 * DigitAt(text, good, 4 * g + 3) + DigitAt(text, good, 4 * g + 4)
Octet(text, good, k) == Shifted(Quad(text, good, (k - 1) \div 3), 8 * (2 - ((k - 1) % 3))) % 256
Octets(text, good) == [ k \in 1..((6 * good) \div 8) |-> Octet(text, good, k) ]

(* Of any text, the characters before the first that is not Base64 are read  *)
(* (encoding.cc:55), and of their bits the whole bytes are the result; bits   *)
(* that fill no byte are dropped.                                            *)
DecodesWholeBytes ==
  call = "Decoded" =>
    LET good == CHOOSE g \in 0..Len(given) :
                  /\ \A i \in 1..g : table[given[i]] # -1
                  /\ g < Len(given) => table[given[g + 1]] = -1
    IN loop.output = Octets(given, good)

(* FIPS 180-4, section 5.1.1: a one bit, the fewest zero bits that make the   *)
(* message a whole number of blocks of 64 bytes, and the number of its bits   *)
(* in 64 bits; also when the marker is in one block and the number in the     *)
(* next (sizes of 56 to 63 bytes).                                           *)
PadsFips180 ==
  call = "Padded" =>
    LET size == given[1]
        output == loop.output
        n == Len(output)
        Digits(a) == ((output[a] * 256 + output[a + 1]) * 256 + output[a + 2]) * 256 + output[a + 3]
    IN /\ (size + n) % 64 = 0 /\ n \in 9..72
       /\ output[1] = 128
       /\ \A i \in 2..(n - 8) : output[i] = 0
       /\ Digits(n - 7) = size \div 2^29 /\ Digits(n - 3) = 8 * (size % 2^29)
=============================================================================
