--------------------------- MODULE EncodingProofs ---------------------------
(***************************************************************************)
(* Base64 and the padding of SHA-256 are those of their standards, and      *)
(* decoding undoes encoding, for every input and every width of an int.     *)
(*                                                                         *)
(* The loops are followed byte by byte.  What they have put out is, up to   *)
(* there, what the standard asks for; of the accumulator only the bits not  *)
(* yet put out matter, and of an int's the lowest twelve.                   *)
(***************************************************************************)
EXTENDS Encoding, SequenceTheorems, TLAPS

Byte == 0..255

(* The numbers of 32 bits. *)
Words == 4294967296
Loop == [val : Nat, valb : Int, output : Seq(Byte)]

(* What is put out is the first groups of six bits. *)
Begins(out, bytes) ==
  out \in Seq(Byte) /\ \A k \in 1..Len(out) : out[k] = kBase64Chars[Sextet(bytes, k)]

(* After n bytes the loop of Encode has put out all whole groups of six bits, *)
(* and the low bits of val are the two or four that are left.                *)
HasEncoded(bytes, n, s) ==
  /\ s \in Loop
  /\ s.valb = 2 * (n % 3) - 6
  /\ Len(s.output) = (4 * n) \div 3
  /\ Begins(s.output, bytes)
  /\ n % 3 = 1 => s.val % 4 = bytes[n] % 4
  /\ n % 3 = 2 => s.val % 16 = bytes[n] % 16

(* After m characters, all of the table, the loop of Decode has put out all   *)
(* whole bytes, and the low bits of val are the six, four or two left.       *)
HasDecoded(text, m, s) ==
  /\ s \in Loop
  /\ s.valb = IF m % 4 = 0 THEN -8 ELSE -2 * (m % 4)
  /\ \A i \in 1..m : table[text[i]] \in 0..63
  /\ s.output = Octets(text, m)
  /\ m % 4 = 1 => s.val % 64 = table[text[m]]
  /\ m % 4 = 2 => s.val % 16 = table[text[m]] % 16
  /\ m % 4 = 3 => s.val % 4 = table[text[m]] % 4

(* The inductive invariant: a part for each call. *)
EncodeInv ==
  /\ call = "Encode" =>
       given \in Seq(Byte) /\ input = given /\ at \in 0..Len(input) /\ HasEncoded(input, at, loop)
  /\ call = "Encoded" => given \in Seq(Byte) /\ loop.output \in Seq(Byte) /\ IsBase64(loop.output, given)

DecodeInv ==
  /\ call \in {"Decode", "Decoded", "DecodeBack", "DecodedBack"} =>
       input \in Seq(Byte) /\ at \in 0..Len(input) /\ HasDecoded(input, at, loop)
  /\ call \in {"Decode", "Decoded"} => input = given
  /\ call \in {"DecodeBack", "DecodedBack"} => given \in Seq(Byte) /\ IsBase64(input, given)
  /\ call \in {"Decoded", "DecodedBack"} => Stops

PadInv ==
  /\ call = "Pad" => loop \in Loop
  /\ call \in {"Pad", "Padded"} => input = given /\ \E size \in Sizes : given = <<size>>
  /\ call = "Padded" => loop.output = Appended(given[1])

Calls == {"Encode", "Encoded", "Decode", "Decoded", "DecodeBack", "DecodedBack", "Pad", "Padded"}

IInv == call \in Calls /\ EncodeInv /\ DecodeInv /\ PadInv

-----------------------------------------------------------------------------
(* The alphabet. *)

LEMMA Chars ==
  /\ \A i \in 0..63 : kBase64Chars[i] \in Byte \ {Pad64}
  /\ \A i, j \in 0..63 : kBase64Chars[i] = kBase64Chars[j] => i = j
<1>1. ASSUME NEW i \in 0..63
      PROVE  kBase64Chars[i] = IF i < 26 THEN 65 + i ELSE IF i < 52 THEN 97 + (i - 26)
                               ELSE IF i < 62 THEN 48 + (i - 52) ELSE IF i = 62 THEN 43 ELSE 47
  <2>1. CASE i < 26
    BY <2>1 DEF kBase64Chars
  <2>2. CASE i \in 26..51
    BY <2>2 DEF kBase64Chars
  <2>3. CASE i \in 52..61
    BY <2>3 DEF kBase64Chars
  <2>4. CASE i = 62
    BY <2>4 DEF kBase64Chars
  <2>5. CASE i = 63
    BY <2>5 DEF kBase64Chars
  <2> QED BY <2>1, <2>2, <2>3, <2>4, <2>5
<1>2. ASSUME NEW i \in 0..63 PROVE kBase64Chars[i] \in 0..255 \ {61}
  BY <1>1
<1>3. ASSUME NEW i \in 0..63, NEW j \in 0..63, kBase64Chars[i] = kBase64Chars[j] PROVE i = j
  BY SMTT(30), <1>1, <1>3
<1> QED BY <1>2, <1>3 DEF Pad64, Byte

(* Decode's table undoes it, and `=' ends the loop. *)
LEMMA Table ==
  /\ \A i \in 0..63 : table[kBase64Chars[i]] = i
  /\ \A c \in Byte : table[c] \in 0..63 \/ table[c] = -1
  /\ table[Pad64] = -1
<1>1. ASSUME NEW i \in 0..63 PROVE table[kBase64Chars[i]] = i
  BY <1>1, Chars DEF table, Byte
<1>2. ASSUME NEW c \in Byte PROVE table[c] \in 0..63 \/ table[c] = -1
  <2>1. CASE \E i \in 0..63 : kBase64Chars[i] = c
    <3> DEFINE d == CHOOSE i \in 0..63 : kBase64Chars[i] = c
    <3>1. d \in 0..63
      BY <2>1
    <3>2. table[c] = d
      BY <1>2, <2>1 DEF table, Byte
    <3> HIDE DEF d
    <3> QED BY <3>1, <3>2
  <2>2. CASE ~ \E i \in 0..63 : kBase64Chars[i] = c
    BY <1>2, <2>2 DEF table, Byte
  <2> QED BY <2>1, <2>2
<1>3. table[Pad64] = -1
  <2>1. Pad64 \in 0..255
    BY DEF Pad64
  <2> QED BY <2>1, Chars DEF table
<1> QED BY <1>1, <1>2, <1>3

-----------------------------------------------------------------------------
(* Bits. *)

LEMMA Powers ==
  /\ 2^0 = 1 /\ 2^2 = 4 /\ 2^4 = 16 /\ 2^6 = 64 /\ 2^8 = 256
  /\ 2^12 = 4096 /\ 2^16 = 65536 /\ 2^18 = 262144 /\ 2^24 = 16777216
OBVIOUS

LEMMA Shifts ==
  ASSUME NEW n
  PROVE  /\ Shifted(n, 2) = n \div 4 /\ Shifted(n, 4) = n \div 16 /\ Shifted(n, 6) = n \div 64
         /\ Shifted(n, 8) = n \div 256 /\ Shifted(n, 12) = n \div 4096
         /\ Shifted(n, 16) = n \div 65536 /\ Shifted(n, 18) = n \div 262144
         /\ Shifted(n, 24) = n \div 16777216
BY Powers DEF Shifted

LEMMA NoShift == \A n \in Nat : Shifted(n, 0) = n
<1>1. \A n \in Nat : n \div 1 = n
  OBVIOUS
<1> QED BY <1>1, Powers DEF Shifted

(* The low twelve bits of an int are those of the number. *)
LEMMA LowBitsKept == \A n \in Nat : ToInt(n) \in Nat /\ ToInt(n) % 4096 = n % 4096
<1> TAKE n \in Nat
<1> DEFINE q == n \div IntRange
           r == n % IntRange
           k == IntRange \div 4096
           p == k * q
<1>1. IntRange \in Nat \ {0} /\ IntRange = 4096 * k /\ k \in Nat
  BY RangeAssumption
<1>2. n = IntRange * q + r /\ q \in Nat /\ r \in Nat
  BY <1>1
<1>3. IntRange * q = 4096 * p /\ p \in Nat
  BY <1>1, <1>2
<1> HIDE DEF q, k, r, p
<1>4. r % 4096 = n % 4096
  BY <1>2, <1>3
<1> QED BY <1>2, <1>4 DEF ToInt, r

(* What a byte leaves in the accumulator, and what it lets out. *)
LEMMA ByteIn ==
  ASSUME NEW u \in Nat, NEW c \in Byte
  PROVE  LET v == ToInt(u * 256 + c)
         IN /\ v \in Nat
            /\ (v \div 4) % 64 = c \div 4 /\ (v \div 16) % 64 = (u % 4) * 16 + c \div 16
            /\ (v \div 64) % 64 = (u % 16) * 4 + c \div 64 /\ v % 64 = c % 64
            /\ v % 4 = c % 4 /\ v % 16 = c % 16
<1> DEFINE v == ToInt(u * 256 + c)
<1>1. v \in Nat /\ v % 4096 = (u * 256 + c) % 4096 /\ c \in 0..255
  <2>1. u * 256 + c \in Nat
    BY DEF Byte
  <2> QED BY <2>1, LowBitsKept DEF Byte
<1> HIDE DEF v
<1>2. (v \div 4) % 64 = c \div 4 /\ (v \div 16) % 64 = (u % 4) * 16 + c \div 16
  BY SMTT(40), <1>1
<1>3. (v \div 64) % 64 = (u % 16) * 4 + c \div 64 /\ v % 64 = c % 64
  BY <1>1
<1>4. v % 4 = c % 4 /\ v % 16 = c % 16
  BY <1>1
<1> QED BY <1>1, <1>2, <1>3, <1>4 DEF v

(* The bits left at the end are moved to the high end of a group. *)
LEMMA RestIn ==
  ASSUME NEW u \in Nat
  PROVE  LET v == ToInt(u * 256)
         IN /\ (v \div 16) % 64 = (u % 4) * 16 /\ (v \div 64) % 64 = (u % 16) * 4
            /\ (v \div 16) % 64 \in 0..63 /\ (v \div 64) % 64 \in 0..63
<1> DEFINE v == ToInt(u * 256)
<1>1. v \in Nat /\ v % 4096 = (u * 256) % 4096
  <2>1. u * 256 \in Nat
    OBVIOUS
  <2> QED BY <2>1, LowBitsKept
<1> HIDE DEF v
<1>2. (v \div 16) % 64 = (u % 4) * 16 /\ (v \div 64) % 64 = (u % 16) * 4
  BY <1>1
<1>3. (v \div 16) % 64 \in 0..63 /\ (v \div 64) % 64 \in 0..63
  BY <1>1
<1> QED BY <1>2, <1>3 DEF v

(* And so for six bits. *)
LEMMA DigitIn ==
  ASSUME NEW u \in Nat, NEW d \in 0..63
  PROVE  LET v == ToInt(u * 64 + d)
         IN /\ v \in Nat
            /\ (v \div 16) % 256 = (u % 64) * 4 + d \div 16
            /\ (v \div 4) % 256 = (u % 16) * 16 + d \div 4
            /\ v % 256 = (u % 4) * 64 + d
            /\ v % 64 = d /\ v % 16 = d % 16 /\ v % 4 = d % 4
<1> DEFINE v == ToInt(u * 64 + d)
<1>1. v \in Nat /\ v % 4096 = (u * 64 + d) % 4096
  <2>1. u * 64 + d \in Nat
    OBVIOUS
  <2> QED BY <2>1, LowBitsKept
<1> HIDE DEF v
<1>2. (v \div 16) % 256 = (u % 64) * 4 + d \div 16
  BY <1>1
<1>3. (v \div 4) % 256 = (u % 16) * 16 + d \div 4 /\ v % 256 = (u % 4) * 64 + d
  BY <1>1
<1>4. v % 64 = d /\ v % 16 = d % 16 /\ v % 4 = d % 4
  BY <1>1
<1> QED BY <1>1, <1>2, <1>3, <1>4 DEF v

(* The four groups of six bits of three bytes. *)
LEMMA SextetBytes ==
  ASSUME NEW bytes \in Seq(Byte), NEW g \in Nat
  PROVE  LET a == ByteAt(bytes, 3 * g + 1)
             b == ByteAt(bytes, 3 * g + 2)
             c == ByteAt(bytes, 3 * g + 3)
         IN /\ a \in Byte /\ b \in Byte /\ c \in Byte
            /\ Sextet(bytes, 4 * g + 1) = a \div 4
            /\ Sextet(bytes, 4 * g + 2) = (a % 4) * 16 + b \div 16
            /\ Sextet(bytes, 4 * g + 3) = (b % 16) * 4 + c \div 64
            /\ Sextet(bytes, 4 * g + 4) = c % 64
<1> DEFINE a == ByteAt(bytes, 3 * g + 1)
           b == ByteAt(bytes, 3 * g + 2)
           c == ByteAt(bytes, 3 * g + 3)
           all == Group(bytes, g)
<1>1. a \in 0..255 /\ b \in 0..255 /\ c \in 0..255
  <2>1. ASSUME NEW i \in Nat \ {0} PROVE ByteAt(bytes, i) \in 0..255
    <3>1. CASE i \in 1..Len(bytes)
      <4>1. bytes[i] \in Byte /\ i <= Len(bytes)
        BY <3>1, LenProperties
      <4> QED BY <4>1 DEF ByteAt, Byte
    <3>2. CASE i \notin 1..Len(bytes)
      BY <3>2, LenProperties DEF ByteAt
    <3> QED BY <3>1, <3>2
  <2> QED BY SMTT(30), <2>1
<1>2. all = 65536 * a + 256 * b + c
  BY DEF Group
<1> HIDE DEF a, b, c, all
<1>3. Sextet(bytes, 4 * g + 1) = Shifted(all, 18) % 64
  <2>1. (4 * g + 1 - 1) \div 4 = g /\ 6 * (3 - ((4 * g + 1 - 1) % 4)) = 18
    OBVIOUS
  <2> QED BY <2>1 DEF Sextet, all
<1>4. Sextet(bytes, 4 * g + 2) = Shifted(all, 12) % 64
  <2>1. (4 * g + 2 - 1) \div 4 = g /\ 6 * (3 - ((4 * g + 2 - 1) % 4)) = 12
    OBVIOUS
  <2> QED BY <2>1 DEF Sextet, all
<1>5. Sextet(bytes, 4 * g + 3) = Shifted(all, 6) % 64
  <2>1. (4 * g + 3 - 1) \div 4 = g /\ 6 * (3 - ((4 * g + 3 - 1) % 4)) = 6
    OBVIOUS
  <2> QED BY <2>1 DEF Sextet, all
<1>6. Sextet(bytes, 4 * g + 4) = Shifted(all, 0) % 64
  <2>1. (4 * g + 4 - 1) \div 4 = g /\ 6 * (3 - ((4 * g + 4 - 1) % 4)) = 0
    OBVIOUS
  <2> QED BY <2>1 DEF Sextet, all
<1>7. Sextet(bytes, 4 * g + 1) = a \div 4
  <2>1. (all \div 262144) % 64 = a \div 4
    BY <1>1, <1>2
  <2> QED BY <1>3, <2>1, Shifts
<1>8. Sextet(bytes, 4 * g + 2) = (a % 4) * 16 + b \div 16
  <2>1. all \div 4096 = 16 * a + b \div 16
    BY <1>1, <1>2
  <2>2. (16 * a + b \div 16) % 64 = (a % 4) * 16 + b \div 16
    BY <1>1
  <2> QED BY <1>4, <2>1, <2>2, Shifts
<1>9. Sextet(bytes, 4 * g + 3) = (b % 16) * 4 + c \div 64
  <2>1. (all \div 64) % 64 = (b % 16) * 4 + c \div 64
    BY <1>1, <1>2
  <2> QED BY <1>5, <2>1, Shifts
<1>10. Sextet(bytes, 4 * g + 4) = c % 64
  <2>1. all \in Nat /\ all % 64 = c % 64
    BY <1>1, <1>2
  <2>2. Shifted(all, 0) = all
    BY <2>1, NoShift
  <2> QED BY <1>6, <2>1, <2>2
<1> QED BY <1>1, <1>7, <1>8, <1>9, <1>10 DEF a, b, c, Byte

(* The three bytes of four digits. *)
LEMMA OctetDigits ==
  ASSUME NEW text, NEW good \in Nat, \A i \in 1..good : table[text[i]] \in 0..63, NEW g \in Nat
  PROVE  LET a == DigitAt(text, good, 4 * g + 1)
             b == DigitAt(text, good, 4 * g + 2)
             c == DigitAt(text, good, 4 * g + 3)
             d == DigitAt(text, good, 4 * g + 4)
         IN /\ a \in 0..63 /\ b \in 0..63 /\ c \in 0..63 /\ d \in 0..63
            /\ Octet(text, good, 3 * g + 1) = a * 4 + b \div 16
            /\ Octet(text, good, 3 * g + 2) = (b % 16) * 16 + c \div 4
            /\ Octet(text, good, 3 * g + 3) = (c % 4) * 64 + d
<1> DEFINE a == DigitAt(text, good, 4 * g + 1)
           b == DigitAt(text, good, 4 * g + 2)
           c == DigitAt(text, good, 4 * g + 3)
           d == DigitAt(text, good, 4 * g + 4)
           all == Quad(text, good, g)
<1>1. a \in 0..63 /\ b \in 0..63 /\ c \in 0..63 /\ d \in 0..63
  BY DEF DigitAt
<1>2. all = 262144 * a + 4096 * b + 64 * c + d
  BY DEF Quad
<1> HIDE DEF a, b, c, d, all
<1>3. Octet(text, good, 3 * g + 1) = Shifted(all, 16) % 256
  <2>1. (3 * g + 1 - 1) \div 3 = g /\ 8 * (2 - ((3 * g + 1 - 1) % 3)) = 16
    OBVIOUS
  <2> QED BY <2>1 DEF Octet, all
<1>4. Octet(text, good, 3 * g + 2) = Shifted(all, 8) % 256
  <2>1. (3 * g + 2 - 1) \div 3 = g /\ 8 * (2 - ((3 * g + 2 - 1) % 3)) = 8
    OBVIOUS
  <2> QED BY <2>1 DEF Octet, all
<1>5. Octet(text, good, 3 * g + 3) = Shifted(all, 0) % 256
  <2>1. (3 * g + 3 - 1) \div 3 = g /\ 8 * (2 - ((3 * g + 3 - 1) % 3)) = 0
    OBVIOUS
  <2> QED BY <2>1 DEF Octet, all
<1>6. Octet(text, good, 3 * g + 1) = a * 4 + b \div 16
  <2>1. (all \div 65536) % 256 = a * 4 + b \div 16
    BY <1>1, <1>2
  <2> QED BY <1>3, <2>1, Shifts
<1>7. Octet(text, good, 3 * g + 2) = (b % 16) * 16 + c \div 4
  <2>1. all \div 256 = 1024 * a + 16 * b + c \div 4
    BY <1>1, <1>2
  <2>2. (1024 * a + 16 * b + c \div 4) % 256 = (b % 16) * 16 + c \div 4
    BY <1>1
  <2> QED BY <1>4, <2>1, <2>2, Shifts
<1>8. Octet(text, good, 3 * g + 3) = (c % 4) * 64 + d
  <2>1. all \in Nat /\ all % 256 = (c % 4) * 64 + d
    BY <1>1, <1>2
  <2>2. Shifted(all, 0) = all
    BY <2>1, NoShift
  <2> QED BY <1>5, <2>1, <2>2
<1> QED BY <1>1, <1>6, <1>7, <1>8 DEF a, b, c, d

-----------------------------------------------------------------------------
(* Sequences. *)

LEMMA OneMore ==
  ASSUME NEW S, NEW s \in Seq(S), NEW x \in S
  PROVE  /\ Append(s, x) \in Seq(S) /\ Len(Append(s, x)) = Len(s) + 1
         /\ \A k \in 1..Len(s) : Append(s, x)[k] = s[k]
         /\ Append(s, x)[Len(s) + 1] = x
BY AppendProperties


-----------------------------------------------------------------------------
(* Encode. *)

(* A turn of the outer loop, with the two of the inner that there may be. *)
LEMMA WithByteIs ==
  ASSUME NEW s, NEW c, NEW v, v = ToInt(s.val * 256 + c)
  PROVE  /\ s.valb = -6 => WithByte(s, c) =
              [val |-> v, valb |-> -4, output |-> Append(s.output, kBase64Chars[(v \div 4) % 64])]
         /\ s.valb = -4 => WithByte(s, c) =
              [val |-> v, valb |-> -2, output |-> Append(s.output, kBase64Chars[(v \div 16) % 64])]
         /\ s.valb = -2 => WithByte(s, c) =
              [val |-> v, valb |-> -6,
               output |-> Append(Append(s.output, kBase64Chars[(v \div 64) % 64]),
                                 kBase64Chars[Shifted(v, 0) % 64])]
<1> DEFINE R(valb, out) == [val |-> v, valb |-> valb, output |-> out]
           char(by) == kBase64Chars[Shifted(v, by) % 64]
           o == s.output
<1>1. WithByte(s, c) = Drain(Drain(R(s.valb + 8, o)))
  BY DEF WithByte
<1>2. ASSUME NEW out, NEW valb \in Int, valb < 0 PROVE Drain(R(valb, out)) = R(valb, out)
  BY <1>2 DEF Drain
<1>3. ASSUME NEW out, NEW valb \in Nat, NEW left \in Int, left = valb - 6
      PROVE  Drain(R(valb, out)) = R(left, Append(out, char(valb)))
  <2> DEFINE r == R(valb, out)
             x == char(valb)
  <2>1. r.valb = valb /\ r.val = v /\ r.output = out /\ ~ (r.valb < 0)
    OBVIOUS
  <2>2. x = kBase64Chars[Shifted(r.val, r.valb) % 64] /\ left = r.valb - 6
    BY <1>3, <2>1
  <2> HIDE DEF r, x
  <2>3. Drain(r) = R(left, Append(out, x))
    BY <2>1, <2>2 DEF Drain
  <2> QED BY <2>3 DEF r, x
<1>4. Shifted(v, 2) = v \div 4 /\ Shifted(v, 4) = v \div 16 /\ Shifted(v, 6) = v \div 64
  BY Shifts
<1> DEFINE c2 == char(2)
           c4 == char(4)
           c6 == char(6)
           c0 == char(0)
<1>5. /\ c2 = kBase64Chars[(v \div 4) % 64] /\ c4 = kBase64Chars[(v \div 16) % 64]
      /\ c6 = kBase64Chars[(v \div 64) % 64] /\ c0 = kBase64Chars[Shifted(v, 0) % 64]
  BY <1>4
<1>6. /\ \A out : Drain(R(2, out)) = R(-4, Append(out, c2))
      /\ \A out : Drain(R(4, out)) = R(-2, Append(out, c4))
      /\ \A out : Drain(R(6, out)) = R(0, Append(out, c6))
      /\ \A out : Drain(R(0, out)) = R(-6, Append(out, c0))
  <2>1. -4 = 2 - 6 /\ -2 = 4 - 6 /\ 0 = 6 - 6 /\ -6 = 0 - 6
    OBVIOUS
  <2> HIDE DEF R, char
  <2> QED BY <1>3, <2>1
<1>7. \A out : Drain(R(-4, out)) = R(-4, out) /\ Drain(R(-2, out)) = R(-2, out)
  <2>1. -4 \in Int /\ -4 < 0 /\ -2 \in Int /\ -2 < 0
    OBVIOUS
  <2> HIDE DEF R
  <2> QED BY <1>2, <2>1
<1> HIDE DEF c2, c4, c6, c0, o, R
<1>8. ASSUME s.valb = -6 PROVE WithByte(s, c) = R(-4, Append(o, c2))
  <2>1. s.valb + 8 = 2
    BY <1>8
  <2> QED BY <1>1, <1>6, <1>7, <2>1
<1>9. ASSUME s.valb = -4 PROVE WithByte(s, c) = R(-2, Append(o, c4))
  <2>1. s.valb + 8 = 4
    BY <1>9
  <2> QED BY <1>1, <1>6, <1>7, <2>1
<1>10. ASSUME s.valb = -2 PROVE WithByte(s, c) = R(-6, Append(Append(o, c6), c0))
  <2>1. s.valb + 8 = 6
    BY <1>10
  <2> QED BY <1>1, <1>6, <2>1
<1> QED BY <1>5, <1>8, <1>9, <1>10 DEF R, o

(* One more group of six bits. *)
LEMMA CharOut ==
  ASSUME NEW bytes, NEW o, NEW d \in 0..63, Begins(o, bytes), d = Sextet(bytes, Len(o) + 1)
  PROVE  /\ Begins(Append(o, kBase64Chars[d]), bytes)
         /\ Len(Append(o, kBase64Chars[d])) = Len(o) + 1
<1> DEFINE x == kBase64Chars[d]
           p == Append(o, x)
<1>1. x \in Byte /\ o \in Seq(Byte)
  BY Chars DEF Begins
<1>2. x = kBase64Chars[Sextet(bytes, Len(o) + 1)]
  OBVIOUS
<1>3. \A k \in 1..Len(o) : o[k] = kBase64Chars[Sextet(bytes, k)]
  BY DEF Begins
<1> HIDE DEF x
<1>4. /\ p \in Seq(Byte) /\ Len(p) = Len(o) + 1
      /\ \A k \in 1..Len(o) : p[k] = o[k]
      /\ p[Len(o) + 1] = x
  BY <1>1, OneMore
<1> HIDE DEF p
<1>5. \A k \in 1..Len(p) : p[k] = kBase64Chars[Sextet(bytes, k)]
  <2> TAKE k \in 1..Len(p)
  <2>1. CASE k \in 1..Len(o)
    BY <1>3, <1>4, <2>1
  <2>2. CASE k = Len(o) + 1
    BY <1>2, <1>4, <2>2
  <2> QED BY <1>1, <1>4, <2>1, <2>2, LenProperties
<1> QED BY <1>4, <1>5 DEF p, x, Begins

(* One more byte. *)
LEMMA ByteEncoded ==
  ASSUME NEW bytes \in Seq(Byte), NEW n \in Nat, n < Len(bytes), NEW s, HasEncoded(bytes, n, s)
  PROVE  HasEncoded(bytes, n + 1, WithByte(s, bytes[n + 1]))
<1> DEFINE c == bytes[n + 1]
           v == ToInt(s.val * 256 + c)
           t == WithByte(s, c)
           g == n \div 3
           o == s.output
           x1 == (v \div 4) % 64
           x2 == (v \div 16) % 64
           x3 == (v \div 64) % 64
           x4 == v % 64
           p == Append(o, kBase64Chars[x3])
<1> SUFFICES HasEncoded(bytes, n + 1, t)
  OBVIOUS
<1>1. /\ s \in Loop /\ s.val \in Nat /\ o \in Seq(Byte) /\ c \in Byte
      /\ s.valb = 2 * (n % 3) - 6
      /\ Len(o) = (4 * n) \div 3
      /\ Begins(o, bytes)
      /\ n % 3 = 1 => s.val % 4 = bytes[n] % 4
      /\ n % 3 = 2 => s.val % 16 = bytes[n] % 16
  BY DEF HasEncoded, Loop
<1>2. /\ v \in Nat
      /\ x1 = c \div 4 /\ x2 = (s.val % 4) * 16 + c \div 16
      /\ x3 = (s.val % 16) * 4 + c \div 64 /\ x4 = c % 64
      /\ v % 4 = c % 4 /\ v % 16 = c % 16
  BY ZenonT(60), <1>1, ByteIn
<1>3. /\ g \in Nat
      /\ Sextet(bytes, 4 * g + 1) = ByteAt(bytes, 3 * g + 1) \div 4
      /\ Sextet(bytes, 4 * g + 2) = (ByteAt(bytes, 3 * g + 1) % 4) * 16 + ByteAt(bytes, 3 * g + 2) \div 16
      /\ Sextet(bytes, 4 * g + 3) = (ByteAt(bytes, 3 * g + 2) % 16) * 4 + ByteAt(bytes, 3 * g + 3) \div 64
      /\ Sextet(bytes, 4 * g + 4) = ByteAt(bytes, 3 * g + 3) % 64
  <2>1. g \in Nat
    OBVIOUS
  <2> HIDE DEF g
  <2> QED BY <2>1, SextetBytes
<1>4. \A k \in Nat : ByteAt(bytes, k) = IF k <= Len(bytes) THEN bytes[k] ELSE 0
  BY DEF ByteAt
<1>5. /\ s.valb = -6 => t = [val |-> v, valb |-> -4, output |-> Append(o, kBase64Chars[x1])]
      /\ s.valb = -4 => t = [val |-> v, valb |-> -2, output |-> Append(o, kBase64Chars[x2])]
      /\ s.valb = -2 => t = [val |-> v, valb |-> -6, output |-> Append(p, kBase64Chars[x4])]
  <2>1. Shifted(v, 0) % 64 = x4
    BY <1>2, NoShift
  <2>2. v = ToInt(s.val * 256 + c)
    OBVIOUS
  <2> HIDE DEF v, c
  <2>3. /\ s.valb = -6 => t = [val |-> v, valb |-> -4, output |-> Append(o, kBase64Chars[x1])]
        /\ s.valb = -4 => t = [val |-> v, valb |-> -2, output |-> Append(o, kBase64Chars[x2])]
        /\ s.valb = -2 => t = [val |-> v, valb |-> -6, output |-> Append(p, kBase64Chars[Shifted(v, 0) % 64])]
    BY <2>2, WithByteIs
  <2> HIDE DEF x4, t, o, p, x1, x2
  <2> QED BY <2>1, <2>3
<1>6. /\ Len(bytes) \in Nat /\ c \in 0..255
      /\ x1 \in 0..63 /\ x2 \in 0..63 /\ x3 \in 0..63 /\ x4 \in 0..63
  <2>1. Len(bytes) \in Nat
    BY LenProperties
  <2>2. c \in 0..255
    BY <1>1 DEF Byte
  <2>3. \A k \in Nat : k % 64 \in 0..63
    OBVIOUS
  <2> HIDE DEF v
  <2>4. v \in Nat /\ v \div 4 \in Nat /\ v \div 16 \in Nat /\ v \div 64 \in Nat
    BY <1>2
  <2> QED BY <2>1, <2>2, <2>3, <2>4
<1> HIDE DEF c, v, t, o, g, x1, x2, x3, x4, p
<1>7. CASE n % 3 = 0
  <2>1. n = 3 * g /\ s.valb = -6
    BY <1>1, <1>7 DEF g
  <2>2. Len(o) + 1 = 4 * g + 1
    BY <1>1, <1>3, <2>1
  <2>3. Sextet(bytes, Len(o) + 1) = x1
    <3>1. ByteAt(bytes, 3 * g + 1) = c
      BY <1>3, <1>4, <1>6, <2>1 DEF c
    <3> QED BY <1>2, <1>3, <2>2, <3>1
  <2> DEFINE out == Append(o, kBase64Chars[x1])
  <2>4. Begins(out, bytes) /\ Len(out) = 4 * g + 1
    <3>1. out = Append(o, kBase64Chars[x1])
      OBVIOUS
    <3>2. Begins(out, bytes) /\ Len(out) = Len(o) + 1
      BY <1>1, <1>6, <2>3, <3>1, CharOut
    <3> QED BY <2>2, <3>2
  <2>5. t = [val |-> v, valb |-> -4, output |-> out]
    BY <1>5, <2>1
  <2> HIDE DEF out
  <2>6. (n + 1) % 3 = 1 /\ (4 * (n + 1)) \div 3 = 4 * g + 1
    BY <1>3, <2>1
  <2>7. t \in Loop /\ t.val = v /\ t.valb = -4 /\ t.output = out
    BY <1>2, <2>4, <2>5 DEF Loop, Begins
  <2>8. t.valb = 2 * ((n + 1) % 3) - 6 /\ (n + 1) % 3 # 2 /\ t.val % 4 = bytes[n + 1] % 4
    BY <1>2, <2>6, <2>7 DEF c
  <2> QED BY <2>4, <2>6, <2>7, <2>8 DEF HasEncoded
<1>8. CASE n % 3 = 1
  <2>1. n = 3 * g + 1 /\ s.valb = -4
    BY <1>1, <1>8 DEF g
  <2>2. Len(o) + 1 = 4 * g + 2
    BY <1>1, <1>3, <2>1
  <2>3. Sextet(bytes, Len(o) + 1) = x2
    <3>1. ByteAt(bytes, 3 * g + 2) = c /\ ByteAt(bytes, 3 * g + 1) = bytes[n]
      BY <1>3, <1>4, <1>6, <2>1 DEF c
    <3> QED BY <1>1, <1>2, <1>3, <1>8, <2>2, <3>1
  <2> DEFINE out == Append(o, kBase64Chars[x2])
  <2>4. Begins(out, bytes) /\ Len(out) = 4 * g + 2
    <3>1. out = Append(o, kBase64Chars[x2])
      OBVIOUS
    <3>2. Begins(out, bytes) /\ Len(out) = Len(o) + 1
      BY <1>1, <1>6, <2>3, <3>1, CharOut
    <3> QED BY <2>2, <3>2
  <2>5. t = [val |-> v, valb |-> -2, output |-> out]
    BY <1>5, <2>1
  <2> HIDE DEF out
  <2>6. (n + 1) % 3 = 2 /\ (4 * (n + 1)) \div 3 = 4 * g + 2
    BY <1>3, <2>1
  <2>7. t \in Loop /\ t.val = v /\ t.valb = -2 /\ t.output = out
    BY <1>2, <2>4, <2>5 DEF Loop, Begins
  <2>8. t.valb = 2 * ((n + 1) % 3) - 6 /\ (n + 1) % 3 # 1 /\ t.val % 16 = bytes[n + 1] % 16
    BY <1>2, <2>6, <2>7 DEF c
  <2> QED BY <2>4, <2>6, <2>7, <2>8 DEF HasEncoded
<1>9. CASE n % 3 = 2
  <2>1. n = 3 * g + 2 /\ s.valb = -2
    BY <1>1, <1>9 DEF g
  <2>2. Len(o) + 1 = 4 * g + 3
    BY <1>1, <1>3, <2>1
  <2>3. Sextet(bytes, Len(o) + 1) = x3 /\ Sextet(bytes, 4 * g + 4) = x4
    <3>1. ByteAt(bytes, 3 * g + 3) = c /\ ByteAt(bytes, 3 * g + 2) = bytes[n]
      BY <1>3, <1>4, <1>6, <2>1 DEF c
    <3> QED BY <1>1, <1>2, <1>3, <1>9, <2>2, <3>1
  <2>4. Begins(p, bytes) /\ Len(p) = 4 * g + 3
    <3>1. p = Append(o, kBase64Chars[x3])
      BY DEF p
    <3>2. Begins(p, bytes) /\ Len(p) = Len(o) + 1
      BY <1>1, <1>6, <2>3, <3>1, CharOut
    <3> QED BY <2>2, <3>2
  <2>5. Len(p) + 1 = 4 * g + 4
    BY <1>3, <2>4
  <2> DEFINE out == Append(p, kBase64Chars[x4])
  <2>6. Begins(out, bytes) /\ Len(out) = 4 * g + 4
    <3>1. out = Append(p, kBase64Chars[x4]) /\ x4 = Sextet(bytes, Len(p) + 1)
      BY <2>3, <2>5
    <3>2. Begins(out, bytes) /\ Len(out) = Len(p) + 1
      BY <1>6, <2>4, <3>1, CharOut
    <3> QED BY <2>5, <3>2
  <2>7. t = [val |-> v, valb |-> -6, output |-> out]
    BY <1>5, <2>1
  <2> HIDE DEF out
  <2>8. (n + 1) % 3 = 0 /\ (4 * (n + 1)) \div 3 = 4 * g + 4
    BY <1>3, <2>1
  <2>9. t \in Loop /\ t.valb = -6 /\ t.output = out
    BY <1>2, <2>6, <2>7 DEF Loop, Begins
  <2>10. t.valb = 2 * ((n + 1) % 3) - 6 /\ (n + 1) % 3 # 1 /\ (n + 1) % 3 # 2
    BY <2>8, <2>9
  <2> QED BY <2>6, <2>8, <2>9, <2>10 DEF HasEncoded
<1>10. n % 3 \in {0, 1, 2}
  OBVIOUS
<1> QED BY <1>7, <1>8, <1>9, <1>10

(* The last bits, and the filling. *)
LEMMA RestEncoded ==
  ASSUME NEW bytes \in Seq(Byte), NEW s, HasEncoded(bytes, Len(bytes), s)
  PROVE  Begins(WithRest(s), bytes) /\ Len(WithRest(s)) = Sextets(Len(bytes))
<1> DEFINE n == Len(bytes)
           g == n \div 3
           o == s.output
           v == ToInt(s.val * 256)
           x1 == (v \div 16) % 64
           x2 == (v \div 64) % 64
           rest == WithRest(s)
<1> SUFFICES Begins(rest, bytes) /\ Len(rest) = Sextets(n)
  OBVIOUS
<1>1. n \in Nat
  BY LenProperties
<1>2. /\ s.val \in Nat /\ s.valb = 2 * (n % 3) - 6 /\ Len(o) = (4 * n) \div 3 /\ Begins(o, bytes)
      /\ n % 3 = 1 => s.val % 4 = bytes[n] % 4
      /\ n % 3 = 2 => s.val % 16 = bytes[n] % 16
  BY DEF HasEncoded, Loop
<1>3. x1 = (s.val % 4) * 16 /\ x2 = (s.val % 16) * 4
  BY <1>2, RestIn
<1>4. x1 \in 0..63 /\ x2 \in 0..63
  BY ZenonT(60), <1>2, RestIn
<1>5. /\ g \in Nat
      /\ Sextet(bytes, 4 * g + 2) = (ByteAt(bytes, 3 * g + 1) % 4) * 16 + ByteAt(bytes, 3 * g + 2) \div 16
      /\ Sextet(bytes, 4 * g + 3) = (ByteAt(bytes, 3 * g + 2) % 16) * 4 + ByteAt(bytes, 3 * g + 3) \div 64
  <2>1. g \in Nat
    BY <1>1
  <2> HIDE DEF g
  <2> QED BY <2>1, SextetBytes
<1>6. \A k \in Nat : ByteAt(bytes, k) = IF k <= n THEN bytes[k] ELSE 0
  BY DEF ByteAt
<1>7. /\ s.valb = -6 => rest = o
      /\ s.valb = -4 => rest = Append(o, kBase64Chars[x1])
      /\ s.valb = -2 => rest = Append(o, kBase64Chars[x2])
  <2>1. ASSUME s.valb = -6 PROVE rest = o
    BY <2>1 DEF WithRest
  <2>2. ASSUME s.valb > -6 PROVE rest = Append(o, kBase64Chars[Shifted(v, s.valb + 8) % 64])
    BY <2>2 DEF WithRest
  <2>3. Shifted(v, 4) % 64 = x1 /\ Shifted(v, 6) % 64 = x2
    BY Shifts
  <2> HIDE DEF rest, o, v, x1, x2
  <2>4. ASSUME s.valb = -4 PROVE rest = Append(o, kBase64Chars[x1])
    <3>1. s.valb > -6 /\ s.valb + 8 = 4
      BY <2>4
    <3> QED BY <2>2, <2>3, <3>1
  <2>5. ASSUME s.valb = -2 PROVE rest = Append(o, kBase64Chars[x2])
    <3>1. s.valb > -6 /\ s.valb + 8 = 6
      BY <2>5
    <3> QED BY <2>2, <2>3, <3>1
  <2> QED BY <2>1, <2>4, <2>5
<1>8. n % 3 \in {0, 1, 2} /\ n = 3 * g + (n % 3)
  BY <1>1
<1> HIDE DEF n, o, v, x1, x2, rest, g
<1>9. CASE n % 3 = 0
  <2>1. n = 3 * g /\ s.valb = -6 /\ Len(o) = 4 * g
    <3>1. n = 3 * g
      BY <1>5, <1>8, <1>9
    <3>2. s.valb = -6
      BY <1>2, <1>9
    <3>3. (4 * n) \div 3 = 4 * g
      BY <1>5, <3>1
    <3> QED BY <1>2, <1>5, <3>1, <3>2, <3>3
  <2>2. Sextets(n) = 4 * g
    BY <1>5, <2>1 DEF Sextets
  <2> QED BY <1>2, <1>7, <2>1, <2>2
<1>10. CASE n % 3 = 1
  <2>1. n = 3 * g + 1 /\ s.valb = -4 /\ Len(o) = 4 * g + 1 /\ Len(o) + 1 = 4 * g + 2
    <3>1. n = 3 * g + 1
      BY <1>8, <1>10
    <3>2. s.valb = -4
      BY <1>2, <1>10
    <3>3. (4 * n) \div 3 = 4 * g + 1
      BY <1>5, <3>1
    <3> QED BY <1>2, <1>5, <3>1, <3>2, <3>3
  <2>2. Sextets(n) = 4 * g + 2
    BY <1>5, <2>1 DEF Sextets
  <2>3. ByteAt(bytes, 3 * g + 1) = bytes[n] /\ ByteAt(bytes, 3 * g + 2) = 0
    BY <1>5, <1>6, <2>1
  <2>4. x1 = Sextet(bytes, Len(o) + 1)
    BY SMTT(40), <1>2, <1>3, <1>5, <1>10, <2>1, <2>3
  <2>5. rest = Append(o, kBase64Chars[x1])
    BY <1>7, <2>1
  <2> QED BY <1>2, <1>4, <2>1, <2>2, <2>4, <2>5, CharOut
<1>11. CASE n % 3 = 2
  <2>1. n = 3 * g + 2 /\ s.valb = -2 /\ Len(o) = 4 * g + 2 /\ Len(o) + 1 = 4 * g + 3
    <3>1. n = 3 * g + 2
      BY <1>8, <1>11
    <3>2. s.valb = -2
      BY <1>2, <1>11
    <3>3. (4 * n) \div 3 = 4 * g + 2
      BY <1>5, <3>1
    <3> QED BY <1>2, <1>5, <3>1, <3>2, <3>3
  <2>2. Sextets(n) = 4 * g + 3
    BY <1>5, <2>1 DEF Sextets
  <2>3. ByteAt(bytes, 3 * g + 2) = bytes[n] /\ ByteAt(bytes, 3 * g + 3) = 0
    BY <1>5, <1>6, <2>1
  <2>4. x2 = Sextet(bytes, Len(o) + 1)
    <3>1. x2 = (bytes[n] % 16) * 4
      BY <1>2, <1>3, <1>11
    <3>2. Sextet(bytes, 4 * g + 3) = (bytes[n] % 16) * 4
      <4>1. bytes[n] \in Nat
        <5>1. n \in 1..Len(bytes)
          BY <1>1, <1>5, <2>1 DEF n
        <5>2. bytes[n] \in Byte
          BY <5>1
        <5>3. \A x \in Byte : x \in Nat
          BY DEF Byte
        <5> QED BY <5>2, <5>3
      <4> QED BY <1>5, <2>3, <4>1
    <3> QED BY <2>1, <3>1, <3>2
  <2>5. rest = Append(o, kBase64Chars[x2])
    BY <1>7, <2>1
  <2> QED BY <1>2, <1>4, <2>1, <2>2, <2>4, <2>5, CharOut
<1> QED BY <1>8, <1>9, <1>10, <1>11

LEMMA AllEncoded ==
  ASSUME NEW bytes \in Seq(Byte), NEW s, HasEncoded(bytes, Len(bytes), s)
  PROVE  Filled(WithRest(s)) \in Seq(Byte) /\ IsBase64(Filled(WithRest(s)), bytes)
<1> DEFINE n == Len(bytes)
           t == WithRest(s)
           some == (4 - (Len(t) % 4)) % 4
           fill == [ i \in 1..some |-> Pad64 ]
           all == t \o fill
<1>1. n \in Nat /\ t \in Seq(Byte) /\ Len(t) = Sextets(n)
      /\ \A k \in 1..Len(t) : t[k] = kBase64Chars[Sextet(bytes, k)]
  BY RestEncoded, LenProperties DEF Begins
<1>2. Filled(WithRest(s)) = all
  BY DEF Filled
<1>3. some \in Nat /\ Sextets(n) \in Nat /\ Sextets(n) + some = 4 * ((n + 2) \div 3)
  BY <1>1 DEF Sextets
<1> HIDE DEF t, some
<1>4. fill \in Seq(Byte) /\ Len(fill) = some /\ \A i \in 1..some : fill[i] = Pad64
  <2>1. Pad64 \in Byte
    BY DEF Pad64, Byte
  <2> QED BY <1>3, <2>1
<1> HIDE DEF fill
<1>5. /\ all \in Seq(Byte) /\ Len(all) = Len(t) + Len(fill)
      /\ \A k \in 1..Len(t) + Len(fill) : all[k] = IF k <= Len(t) THEN t[k] ELSE fill[k - Len(t)]
  BY <1>1, <1>4, ConcatProperties
<1> HIDE DEF n, all
<1>6. \A k \in 1..Len(all) : all[k] = IF k <= Sextets(n) THEN kBase64Chars[Sextet(bytes, k)] ELSE Pad64
  <2> TAKE k \in 1..Len(all)
  <2>1. CASE k <= Sextets(n)
    BY <1>1, <1>3, <1>4, <1>5, <2>1
  <2>2. CASE k > Sextets(n)
    <3>1. k - Sextets(n) \in 1..some
      BY <1>1, <1>3, <1>4, <1>5, <2>2
    <3> QED BY <1>1, <1>3, <1>4, <1>5, <2>2, <3>1
  <2> QED BY <1>3, <2>1, <2>2
<1>7. Len(all) = 4 * ((n + 2) \div 3)
  BY <1>1, <1>3, <1>4, <1>5
<1> QED BY <1>2, <1>5, <1>6, <1>7 DEF IsBase64, n

-----------------------------------------------------------------------------
(* Decode. *)

LEMMA WithCharIs ==
  ASSUME NEW s, NEW c, NEW v, v = ToInt(s.val * 64 + table[c])
  PROVE  /\ s.valb = -8 => WithChar(s, c) = [val |-> v, valb |-> -2, output |-> s.output]
         /\ s.valb = -2 => WithChar(s, c) =
              [val |-> v, valb |-> -4, output |-> Append(s.output, (v \div 16) % 256)]
         /\ s.valb = -4 => WithChar(s, c) =
              [val |-> v, valb |-> -6, output |-> Append(s.output, (v \div 4) % 256)]
         /\ s.valb = -6 => WithChar(s, c) =
              [val |-> v, valb |-> -8, output |-> Append(s.output, Shifted(v, 0) % 256)]
<1>1. ASSUME NEW valb \in Int, s.valb + 6 = valb
      PROVE  WithChar(s, c) =
               IF valb >= 0
               THEN [val |-> v, valb |-> valb - 8, output |-> Append(s.output, Shifted(v, valb) % 256)]
               ELSE [val |-> v, valb |-> valb, output |-> s.output]
  BY <1>1 DEF WithChar
<1>2. Shifted(v, 4) = v \div 16 /\ Shifted(v, 2) = v \div 4
  BY Shifts
<1>3. ASSUME s.valb = -8 PROVE WithChar(s, c) = [val |-> v, valb |-> -2, output |-> s.output]
  <2>1. s.valb + 6 = -2 /\ ~ (-2 >= 0)
    BY <1>3
  <2> QED BY <1>1, <2>1
<1>4. ASSUME s.valb = -2
      PROVE  WithChar(s, c) = [val |-> v, valb |-> -4, output |-> Append(s.output, (v \div 16) % 256)]
  <2>1. s.valb + 6 = 4 /\ 4 >= 0 /\ 4 - 8 = -4
    BY <1>4
  <2> QED BY <1>1, <1>2, <2>1
<1>5. ASSUME s.valb = -4
      PROVE  WithChar(s, c) = [val |-> v, valb |-> -6, output |-> Append(s.output, (v \div 4) % 256)]
  <2>1. s.valb + 6 = 2 /\ 2 >= 0 /\ 2 - 8 = -6
    BY <1>5
  <2> QED BY <1>1, <1>2, <2>1
<1>6. ASSUME s.valb = -6
      PROVE  WithChar(s, c) = [val |-> v, valb |-> -8, output |-> Append(s.output, Shifted(v, 0) % 256)]
  <2>1. s.valb + 6 = 0 /\ 0 >= 0 /\ 0 - 8 = -8
    BY <1>6
  <2> QED BY <1>1, <2>1
<1> QED BY <1>3, <1>4, <1>5, <1>6

(* What is put out after m characters: the octets, of which the later digits  *)
(* change nothing.                                                           *)
LEMMA OctetsGrow ==
  ASSUME NEW text, NEW m \in Nat, \A i \in 1..m + 1 : table[text[i]] \in 0..63,
         NEW k \in 1..((6 * m) \div 8)
  PROVE  Octet(text, m + 1, k) = Octet(text, m, k) /\ Octet(text, m, k) \in Byte
<1> DEFINE g == (k - 1) \div 3
           D(good, j) == DigitAt(text, good, 4 * g + j)
<1>1. g \in Nat /\ (k = 3 * g + 1 \/ k = 3 * g + 2 \/ k = 3 * g + 3)
  OBVIOUS
<1> HIDE DEF g
<1>2. ASSUME NEW good \in {m, m + 1}
      PROVE  /\ D(good, 1) \in 0..63 /\ D(good, 2) \in 0..63 /\ D(good, 3) \in 0..63 /\ D(good, 4) \in 0..63
             /\ Octet(text, good, 3 * g + 1) = D(good, 1) * 4 + D(good, 2) \div 16
             /\ Octet(text, good, 3 * g + 2) = (D(good, 2) % 16) * 16 + D(good, 3) \div 4
             /\ Octet(text, good, 3 * g + 3) = (D(good, 3) % 4) * 64 + D(good, 4)
  <2>1. good \in Nat /\ \A i \in 1..good : table[text[i]] \in 0..63
    OBVIOUS
  <2> QED BY <1>1, <2>1, OctetDigits
<1>3. \A i \in 1..m : DigitAt(text, m, i) = DigitAt(text, m + 1, i)
  BY DEF DigitAt
<1>4. m \in {m, m + 1} /\ m + 1 \in {m, m + 1}
  OBVIOUS
<1> HIDE DEF D
<1>5. CASE k = 3 * g + 1
  <2>1. 4 * g + 1 \in 1..m /\ 4 * g + 2 \in 1..m
    BY <1>1, <1>5
  <2>2. D(m, 1) = D(m + 1, 1) /\ D(m, 2) = D(m + 1, 2)
    BY <1>3, <2>1 DEF D
  <2>3. Octet(text, m + 1, k) = Octet(text, m, k)
    BY <1>2, <1>4, <1>5, <2>2
  <2>4. D(m, 1) * 4 + D(m, 2) \div 16 \in 0..255
    BY <1>2, <1>4
  <2> QED BY <1>2, <1>4, <1>5, <2>3, <2>4 DEF Byte
<1>6. CASE k = 3 * g + 2
  <2>1. 4 * g + 2 \in 1..m /\ 4 * g + 3 \in 1..m
    BY <1>1, <1>6
  <2>2. D(m, 2) = D(m + 1, 2) /\ D(m, 3) = D(m + 1, 3)
    BY <1>3, <2>1 DEF D
  <2>3. Octet(text, m + 1, k) = Octet(text, m, k)
    BY <1>2, <1>4, <1>6, <2>2
  <2>4. (D(m, 2) % 16) * 16 + D(m, 3) \div 4 \in 0..255
    BY <1>2, <1>4
  <2> QED BY <1>2, <1>4, <1>6, <2>3, <2>4 DEF Byte
<1>7. CASE k = 3 * g + 3
  <2>1. 4 * g + 3 \in 1..m /\ 4 * g + 4 \in 1..m
    BY <1>1, <1>7
  <2>2. D(m, 3) = D(m + 1, 3) /\ D(m, 4) = D(m + 1, 4)
    BY <1>3, <2>1 DEF D
  <2>3. Octet(text, m + 1, k) = Octet(text, m, k)
    BY <1>2, <1>4, <1>7, <2>2
  <2>4. (D(m, 3) % 4) * 64 + D(m, 4) \in 0..255
    BY <1>2, <1>4
  <2> QED BY <1>2, <1>4, <1>7, <2>3, <2>4 DEF Byte
<1> QED BY <1>1, <1>5, <1>6, <1>7

(* One more character completes no byte, *)
LEMMA NoOctet ==
  ASSUME NEW text, NEW m \in Nat, \A i \in 1..m + 1 : table[text[i]] \in 0..63,
         (6 * (m + 1)) \div 8 = (6 * m) \div 8
  PROVE  Octets(text, m + 1) = Octets(text, m)
BY OctetsGrow DEF Octets

(* or one. *)
LEMMA OctetOut ==
  ASSUME NEW text, NEW m \in Nat, \A i \in 1..m + 1 : table[text[i]] \in 0..63,
         (6 * (m + 1)) \div 8 = (6 * m) \div 8 + 1,
         NEW x, x = Octet(text, m + 1, (6 * m) \div 8 + 1), x \in Byte
  PROVE  Octets(text, m + 1) = Append(Octets(text, m), x) /\ Octets(text, m + 1) \in Seq(Byte)
<1> DEFINE n == (6 * m) \div 8
           o == Octets(text, m)
           p == Octets(text, m + 1)
           q == Append(o, x)
<1>1. n \in Nat
  OBVIOUS
<1>2. (6 * (m + 1)) \div 8 = n + 1 /\ x = Octet(text, m + 1, n + 1)
  OBVIOUS
<1>3. \A k \in 1..n : Octet(text, m + 1, k) = Octet(text, m, k) /\ Octet(text, m, k) \in Byte
  BY OctetsGrow
<1>4. o = [ k \in 1..n |-> Octet(text, m, k) ] /\ p = [ k \in 1..n + 1 |-> Octet(text, m + 1, k) ]
  BY <1>2 DEF Octets
<1> HIDE DEF n, o, p
<1>5. o \in Seq(Byte) /\ Len(o) = n
  <2>1. \A k \in 1..n : Octet(text, m, k) \in Byte
    BY <1>3
  <2> QED BY <1>1, <1>4, <2>1
<1>6. p \in Seq(Byte) /\ Len(p) = n + 1
  <2>1. \A k \in 1..n + 1 : Octet(text, m + 1, k) \in Byte
    <3> TAKE k \in 1..n + 1
    <3>1. k \in 1..n \/ k = n + 1
      BY <1>1
    <3> QED BY <1>2, <1>3, <3>1
  <2> QED BY <1>1, <1>4, <2>1
<1>7. /\ q \in Seq(Byte) /\ Len(q) = n + 1
      /\ \A k \in 1..n : q[k] = o[k]
      /\ q[n + 1] = x
  BY <1>5, OneMore
<1> HIDE DEF q
<1>8. \A k \in 1..Len(p) : p[k] = q[k]
  <2> TAKE k \in 1..Len(p)
  <2>1. CASE k \in 1..n
    BY <1>1, <1>3, <1>4, <1>7, <2>1
  <2>2. CASE k = n + 1
    BY <1>1, <1>2, <1>4, <1>7, <2>2
  <2> QED BY <1>1, <1>6, <2>1, <2>2
<1>9. p = q
  BY <1>6, <1>7, <1>8, SeqEqual
<1> QED BY <1>6, <1>9 DEF o, p, q

LEMMA NothingDecoded ==
  ASSUME NEW text, NEW s, s = [val |-> 0, valb |-> -8, output |-> <<>>]
  PROVE  HasDecoded(text, 0, s)
<1>1. <<>> \in Seq(Byte)
  OBVIOUS
<1>2. s \in Loop /\ s.valb = -8 /\ s.output = <<>>
  BY <1>1 DEF Loop
<1>3. Octets(text, 0) = <<>>
  <2>1. (6 * 0) \div 8 = 0
    OBVIOUS
  <2>2. Octets(text, 0) = [ k \in 1..0 |-> Octet(text, 0, k) ]
    BY <2>1 DEF Octets
  <2> QED BY <2>2
<1>4. 0 % 4 = 0
  OBVIOUS
<1> QED BY <1>2, <1>3, <1>4 DEF HasDecoded

(* One more character. *)
LEMMA CharDecoded ==
  ASSUME NEW text, NEW m \in Nat, NEW s, HasDecoded(text, m, s), table[text[m + 1]] \in 0..63
  PROVE  HasDecoded(text, m + 1, WithChar(s, text[m + 1]))
<1> DEFINE d == table[text[m + 1]]
           v == ToInt(s.val * 64 + d)
           t == WithChar(s, text[m + 1])
           g == m \div 4
           o == s.output
           D(j) == DigitAt(text, m + 1, 4 * g + j)
           x1 == (v \div 16) % 256
           x2 == (v \div 4) % 256
           x3 == v % 256
           p == Octets(text, m + 1)
<1> SUFFICES HasDecoded(text, m + 1, t)
  OBVIOUS
<1>1. /\ s.val \in Nat /\ o \in Seq(Byte) /\ o = Octets(text, m)
      /\ s.valb = IF m % 4 = 0 THEN -8 ELSE -2 * (m % 4)
      /\ m % 4 = 1 => s.val % 64 = table[text[m]]
      /\ m % 4 = 2 => s.val % 16 = table[text[m]] % 16
      /\ m % 4 = 3 => s.val % 4 = table[text[m]] % 4
  BY DEF HasDecoded, Loop
<1>2. \A i \in 1..m + 1 : table[text[i]] \in 0..63
  BY DEF HasDecoded
<1>3. /\ v \in Nat
      /\ x1 = (s.val % 64) * 4 + d \div 16
      /\ x2 = (s.val % 16) * 16 + d \div 4
      /\ x3 = (s.val % 4) * 64 + d
      /\ v % 64 = d /\ v % 16 = d % 16 /\ v % 4 = d % 4
  BY ZenonT(60), <1>1, DigitIn
<1>4. /\ g \in Nat
      /\ Octet(text, m + 1, 3 * g + 1) = D(1) * 4 + D(2) \div 16
      /\ Octet(text, m + 1, 3 * g + 2) = (D(2) % 16) * 16 + D(3) \div 4
      /\ Octet(text, m + 1, 3 * g + 3) = (D(3) % 4) * 64 + D(4)
  <2>1. g \in Nat /\ m + 1 \in Nat
    OBVIOUS
  <2> HIDE DEF g
  <2> QED BY ZenonT(60), <1>2, <2>1, OctetDigits
<1>5. \A i \in 1..m + 1 : DigitAt(text, m + 1, i) = table[text[i]]
  BY DEF DigitAt
<1>6. /\ s.valb = -8 => t = [val |-> v, valb |-> -2, output |-> o]
      /\ s.valb = -2 => t = [val |-> v, valb |-> -4, output |-> Append(o, x1)]
      /\ s.valb = -4 => t = [val |-> v, valb |-> -6, output |-> Append(o, x2)]
      /\ s.valb = -6 => t = [val |-> v, valb |-> -8, output |-> Append(o, x3)]
  <2>1. Shifted(v, 0) % 256 = x3
    BY <1>3, NoShift
  <2> DEFINE c == text[m + 1]
  <2>2. v = ToInt(s.val * 64 + table[c]) /\ t = WithChar(s, c)
    OBVIOUS
  <2> HIDE DEF v, d, c, t
  <2>3. /\ s.valb = -8 => t = [val |-> v, valb |-> -2, output |-> o]
        /\ s.valb = -2 => t = [val |-> v, valb |-> -4, output |-> Append(o, x1)]
        /\ s.valb = -4 => t = [val |-> v, valb |-> -6, output |-> Append(o, x2)]
        /\ s.valb = -6 => t = [val |-> v, valb |-> -8, output |-> Append(o, Shifted(v, 0) % 256)]
    BY <2>2, WithCharIs
  <2> HIDE DEF x3, t, o, x1, x2
  <2> QED BY <2>1, <2>3
<1>7. d \in 0..63 /\ x1 \in Byte /\ x2 \in Byte /\ x3 \in Byte
  <2>1. d \in 0..63
    OBVIOUS
  <2>2. \A k \in Nat : k % 256 \in Byte
    BY DEF Byte
  <2> HIDE DEF v
  <2>3. v \in Nat
    BY <1>3
  <2>4. v \div 16 \in Nat /\ v \div 4 \in Nat
    BY <2>3
  <2> QED BY <2>1, <2>2, <2>3, <2>4
<1>8. m % 4 \in {0, 1, 2, 3} /\ m = 4 * g + (m % 4)
  OBVIOUS
<1> DEFINE n == m + 1
<1>9. n \in Nat /\ n = m + 1 /\ table[text[n]] = d
  OBVIOUS
<1> SUFFICES HasDecoded(text, n, t)
  OBVIOUS
<1>10. \A i \in 1..n : table[text[i]] \in 0..63
  BY <1>2
<1>11. p = Octets(text, n)
  OBVIOUS
<1> HIDE DEF d, v, t, o, g, x1, x2, x3, p, n
<1>12. CASE m % 4 = 0
  <2>1. m = 4 * g
    BY <1>4, <1>8, <1>12
  <2>2. s.valb = -8
    BY <1>1, <1>12
  <2>3. n % 4 = 1
    BY <1>4, <1>9, <2>1
  <2>4. p = o
    <3>1. (6 * (m + 1)) \div 8 = (6 * m) \div 8
      BY <1>4, <2>1
    <3> QED BY <1>1, <1>2, <3>1, NoOctet DEF p
  <2>5. t = [val |-> v, valb |-> -2, output |-> p]
    BY <1>6, <2>2, <2>4
  <2>6. t \in Loop /\ t.val = v /\ t.valb = -2 /\ t.output = p
    BY <1>1, <1>3, <2>4, <2>5 DEF Loop
  <2> QED BY <1>3, <1>9, <1>10, <1>11, <2>3, <2>6 DEF HasDecoded
<1>13. CASE m % 4 = 1
  <2>1. m = 4 * g + 1
    BY <1>4, <1>8, <1>13
  <2>2. s.valb = -2
    BY <1>1, <1>13
  <2>3. n % 4 = 2
    BY <1>4, <1>9, <2>1
  <2>4. x1 = Octet(text, m + 1, (6 * m) \div 8 + 1)
    <3>1. (6 * m) \div 8 + 1 = 3 * g + 1
      BY <1>4, <2>1
    <3>2. D(1) = table[text[m]] /\ D(2) = d
      BY <1>4, <1>5, <2>1 DEF d
    <3> QED BY <1>1, <1>3, <1>4, <1>13, <3>1, <3>2
  <2>5. p = Append(o, x1) /\ p \in Seq(Byte)
    <3>1. (6 * (m + 1)) \div 8 = (6 * m) \div 8 + 1
      BY <1>4, <2>1
    <3> QED BY <1>1, <1>2, <1>7, <2>4, <3>1, OctetOut DEF p
  <2>6. t = [val |-> v, valb |-> -4, output |-> p]
    BY <1>6, <2>2, <2>5
  <2>7. t \in Loop /\ t.val = v /\ t.valb = -4 /\ t.output = p
    BY <1>3, <2>5, <2>6 DEF Loop
  <2> QED BY <1>3, <1>9, <1>10, <1>11, <2>3, <2>7 DEF HasDecoded
<1>14. CASE m % 4 = 2
  <2>1. m = 4 * g + 2
    BY <1>4, <1>8, <1>14
  <2>2. s.valb = -4
    BY <1>1, <1>14
  <2>3. n % 4 = 3
    BY <1>4, <1>9, <2>1
  <2>4. x2 = Octet(text, m + 1, (6 * m) \div 8 + 1)
    <3>1. (6 * m) \div 8 + 1 = 3 * g + 2
      BY <1>4, <2>1
    <3>2. D(2) = table[text[m]] /\ D(3) = d
      BY <1>4, <1>5, <2>1 DEF d
    <3> QED BY <1>1, <1>3, <1>4, <1>14, <3>1, <3>2
  <2>5. p = Append(o, x2) /\ p \in Seq(Byte)
    <3>1. (6 * (m + 1)) \div 8 = (6 * m) \div 8 + 1
      BY <1>4, <2>1
    <3> QED BY <1>1, <1>2, <1>7, <2>4, <3>1, OctetOut DEF p
  <2>6. t = [val |-> v, valb |-> -6, output |-> p]
    BY <1>6, <2>2, <2>5
  <2>7. t \in Loop /\ t.val = v /\ t.valb = -6 /\ t.output = p
    BY <1>3, <2>5, <2>6 DEF Loop
  <2> QED BY <1>3, <1>9, <1>10, <1>11, <2>3, <2>7 DEF HasDecoded
<1>15. CASE m % 4 = 3
  <2>1. m = 4 * g + 3
    BY <1>4, <1>8, <1>15
  <2>2. s.valb = -6
    BY <1>1, <1>15
  <2>3. n % 4 = 0
    BY <1>4, <1>9, <2>1
  <2>4. x3 = Octet(text, m + 1, (6 * m) \div 8 + 1)
    <3>1. (6 * m) \div 8 + 1 = 3 * g + 3
      BY <1>4, <2>1
    <3>2. D(3) = table[text[m]] /\ D(4) = d
      BY <1>4, <1>5, <2>1 DEF d
    <3> QED BY <1>1, <1>3, <1>4, <1>15, <3>1, <3>2
  <2>5. p = Append(o, x3) /\ p \in Seq(Byte)
    <3>1. (6 * (m + 1)) \div 8 = (6 * m) \div 8 + 1
      BY <1>4, <2>1
    <3> QED BY <1>1, <1>2, <1>7, <2>4, <3>1, OctetOut DEF p
  <2>6. t = [val |-> v, valb |-> -8, output |-> p]
    BY <1>6, <2>2, <2>5
  <2>7. t \in Loop /\ t.val = v /\ t.valb = -8 /\ t.output = p
    BY <1>3, <2>5, <2>6 DEF Loop
  <2> QED BY <1>3, <1>9, <1>10, <1>11, <2>3, <2>7 DEF HasDecoded
<1> QED BY <1>8, <1>12, <1>13, <1>14, <1>15

(* The digits of an encoding are the groups of six bits, *)
LEMMA SextetRange ==
  ASSUME NEW bytes \in Seq(Byte), NEW k \in Nat \ {0}
  PROVE  Sextet(bytes, k) \in 0..63
<1> DEFINE g == (k - 1) \div 4
           a == ByteAt(bytes, 3 * g + 1)
           b == ByteAt(bytes, 3 * g + 2)
           c == ByteAt(bytes, 3 * g + 3)
<1>1. g \in Nat /\ (k = 4 * g + 1 \/ k = 4 * g + 2 \/ k = 4 * g + 3 \/ k = 4 * g + 4)
  OBVIOUS
<1> HIDE DEF g
<1>2. /\ a \in Byte /\ b \in Byte /\ c \in Byte
      /\ Sextet(bytes, 4 * g + 1) = a \div 4
      /\ Sextet(bytes, 4 * g + 2) = (a % 4) * 16 + b \div 16
      /\ Sextet(bytes, 4 * g + 3) = (b % 16) * 4 + c \div 64
      /\ Sextet(bytes, 4 * g + 4) = c % 64
  BY <1>1, SextetBytes
<1> HIDE DEF a, b, c
<1>3. /\ a \div 4 \in 0..63 /\ (a % 4) * 16 + b \div 16 \in 0..63
      /\ (b % 16) * 4 + c \div 64 \in 0..63 /\ c % 64 \in 0..63
  BY SMTT(40), <1>2 DEF Byte
<1> QED BY <1>1, <1>2, <1>3

LEMMA BytesAgain ==
  ASSUME NEW x \in Byte, NEW y \in Byte, NEW z \in Byte
  PROVE  /\ (x \div 4) * 4 + ((x % 4) * 16 + y \div 16) \div 16 = x
         /\ (((x % 4) * 16 + y \div 16) % 16) * 16 + ((y % 16) * 4 + z \div 64) \div 4 = y
         /\ (((y % 16) * 4 + z \div 64) % 4) * 64 + (z % 64) = z
<1> DEFINE e == y \div 16
           f == z \div 64
<1>1. x \in 0..255 /\ y \in 0..255 /\ z \in 0..255 /\ e \in 0..15 /\ f \in 0..3
  BY DEF Byte
<1>2. y = 16 * e + (y % 16) /\ z = 64 * f + (z % 64)
  BY <1>1
<1> HIDE DEF e, f
<1>3. ((x % 4) * 16 + e) \div 16 = x % 4 /\ ((x % 4) * 16 + e) % 16 = e
  BY <1>1
<1>4. ((y % 16) * 4 + f) \div 4 = y % 16 /\ ((y % 16) * 4 + f) % 4 = f
  BY <1>1
<1>5. (x \div 4) * 4 + (x % 4) = x
  BY <1>1
<1>6. (x \div 4) * 4 + ((x % 4) * 16 + e) \div 16 = x
  BY <1>3, <1>5
<1>7. (((x % 4) * 16 + e) % 16) * 16 + ((y % 16) * 4 + f) \div 4 = y
  BY <1>1, <1>2, <1>3, <1>4
<1>8. (((y % 16) * 4 + f) % 4) * 64 + (z % 64) = z
  BY <1>1, <1>2, <1>4
<1> QED BY <1>6, <1>7, <1>8 DEF e, f

(* of which decoding makes the bytes again. *)
LEMMA Decoded ==
  ASSUME NEW bytes \in Seq(Byte), NEW text \in Seq(Byte), IsBase64(text, bytes),
         NEW m \in 0..Len(text), \A i \in 1..m : table[text[i]] \in 0..63,
         m < Len(text) => table[text[m + 1]] = -1
  PROVE  Octets(text, m) = bytes
<1> DEFINE n == Len(bytes)
           len == Len(text)
           c == Sextets(n)
           o == Octets(text, m)
<1>1. n \in Nat /\ len = 4 * ((n + 2) \div 3) /\ c = (8 * n + 5) \div 6 /\ m \in 0..len
  BY LenProperties DEF IsBase64, Sextets
<1>2. c \in Nat /\ c <= len /\ (6 * c) \div 8 = n
  BY <1>1
<1>3. \A k \in 1..len : text[k] = IF k <= c THEN kBase64Chars[Sextet(bytes, k)] ELSE Pad64
  BY DEF IsBase64
<1>4. m < len => table[text[m + 1]] = -1
  OBVIOUS
<1> HIDE DEF n, len, c
<1>5. \A k \in 1..c : table[text[k]] = Sextet(bytes, k)
  <2> TAKE k \in 1..c
  <2>1. Sextet(bytes, k) \in 0..63
    <3>1. k \in Nat \ {0}
      BY <1>2
    <3> QED BY <3>1, SextetRange
  <2>2. text[k] = kBase64Chars[Sextet(bytes, k)]
    BY <1>1, <1>2, <1>3
  <2> QED BY <2>1, <2>2, Table
<1>6. m = c
  <2>1. CASE m > c
    <3>1. c + 1 \in 1..m /\ c + 1 \in 1..len /\ ~ (c + 1 <= c)
      BY <1>1, <1>2, <2>1
    <3>2. table[text[c + 1]] = -1
      BY <1>3, <3>1, Table
    <3>3. table[text[c + 1]] \in 0..63
      BY <3>1
    <3> QED BY <3>2, <3>3
  <2>2. CASE m < c
    <3>1. m + 1 \in 1..c /\ m < len
      BY <1>1, <1>2, <2>2
    <3>2. table[text[m + 1]] = -1
      BY <1>4, <3>1
    <3>3. table[text[m + 1]] = Sextet(bytes, m + 1)
      BY <1>5, <3>1
    <3>4. Sextet(bytes, m + 1) \in 0..63
      <4>1. m + 1 \in Nat \ {0}
        BY <1>2, <3>1
      <4> QED BY <4>1, SextetRange
    <3>5. -1 \in 0..63
      BY <3>2, <3>3, <3>4
    <3> QED BY <3>5
  <2> QED BY <1>1, <1>2, <2>1, <2>2
<1>7. ASSUME NEW k \in 1..n PROVE Octet(text, m, k) = bytes[k]
  <2> DEFINE g == (k - 1) \div 3
             D(j) == DigitAt(text, m, 4 * g + j)
             x == ByteAt(bytes, 3 * g + 1)
             y == ByteAt(bytes, 3 * g + 2)
             z == ByteAt(bytes, 3 * g + 3)
  <2>1. g \in Nat /\ (k = 3 * g + 1 \/ k = 3 * g + 2 \/ k = 3 * g + 3)
    BY <1>1
  <2> HIDE DEF g
  <2>2. /\ Octet(text, m, 3 * g + 1) = D(1) * 4 + D(2) \div 16
        /\ Octet(text, m, 3 * g + 2) = (D(2) % 16) * 16 + D(3) \div 4
        /\ Octet(text, m, 3 * g + 3) = (D(3) % 4) * 64 + D(4)
    <3>1. m \in Nat /\ \A i \in 1..m : table[text[i]] \in 0..63
      BY <1>1
    <3> QED BY <2>1, <3>1, OctetDigits
  <2>3. /\ x \in Byte /\ y \in Byte /\ z \in Byte
        /\ Sextet(bytes, 4 * g + 1) = x \div 4
        /\ Sextet(bytes, 4 * g + 2) = (x % 4) * 16 + y \div 16
        /\ Sextet(bytes, 4 * g + 3) = (y % 16) * 4 + z \div 64
        /\ Sextet(bytes, 4 * g + 4) = z % 64
    BY <2>1, SextetBytes
  <2>4. \A i \in 1..m : DigitAt(text, m, i) = Sextet(bytes, i)
    BY <1>5, <1>6 DEF DigitAt
  <2>5. ByteAt(bytes, k) = bytes[k]
    BY <1>1 DEF ByteAt, n
  <2> HIDE DEF x, y, z, D
  <2>6. CASE k = 3 * g + 1
    <3>1. 4 * g + 1 \in 1..m /\ 4 * g + 2 \in 1..m
      BY <1>1, <1>6, <2>1, <2>6
    <3>2. D(1) = x \div 4 /\ D(2) = (x % 4) * 16 + y \div 16
      BY <2>3, <2>4, <3>1 DEF D
    <3>3. (x \div 4) * 4 + ((x % 4) * 16 + y \div 16) \div 16 = x
      BY <2>3, BytesAgain
    <3> QED BY <2>2, <2>5, <2>6, <3>2, <3>3 DEF x
  <2>7. CASE k = 3 * g + 2
    <3>1. 4 * g + 2 \in 1..m /\ 4 * g + 3 \in 1..m
      BY <1>1, <1>6, <2>1, <2>7
    <3>2. D(2) = (x % 4) * 16 + y \div 16 /\ D(3) = (y % 16) * 4 + z \div 64
      BY <2>3, <2>4, <3>1 DEF D
    <3>3. (((x % 4) * 16 + y \div 16) % 16) * 16 + ((y % 16) * 4 + z \div 64) \div 4 = y
      BY <2>3, BytesAgain
    <3> QED BY <2>2, <2>5, <2>7, <3>2, <3>3 DEF y
  <2>8. CASE k = 3 * g + 3
    <3>1. 4 * g + 3 \in 1..m /\ 4 * g + 4 \in 1..m
      BY <1>1, <1>6, <2>1, <2>8
    <3>2. D(3) = (y % 16) * 4 + z \div 64 /\ D(4) = z % 64
      BY <2>3, <2>4, <3>1 DEF D
    <3>3. (((y % 16) * 4 + z \div 64) % 4) * 64 + (z % 64) = z
      BY <2>3, BytesAgain
    <3> QED BY <2>2, <2>5, <2>8, <3>2, <3>3 DEF z
  <2> QED BY <2>1, <2>6, <2>7, <2>8
<1>8. o = [ k \in 1..n |-> Octet(text, m, k) ]
  BY <1>2, <1>6 DEF Octets
<1> HIDE DEF o
<1>9. o \in Seq(Byte) /\ Len(o) = n
  <2>1. \A k \in 1..n : Octet(text, m, k) \in Byte
    BY <1>7, <1>1 DEF n
  <2> QED BY <1>1, <1>8, <2>1
<1>10. \A k \in 1..Len(o) : o[k] = bytes[k]
  BY <1>7, <1>8, <1>9
<1>11. o = bytes
  BY <1>9, <1>10, SeqEqual DEF n
<1> QED BY <1>11 DEF o

-----------------------------------------------------------------------------
(* The padding. *)

LEMMA ZerosFew ==
  ASSUME NEW size \in Nat
  PROVE  Zeros(size) \in 0..63 /\ (size + 1 + Zeros(size)) % 64 = 56
<1> DEFINE z == IF (size + 1) % 64 <= 56 THEN 56 - ((size + 1) % 64) ELSE 120 - ((size + 1) % 64)
<1>1. z \in 0..63 /\ (size + 1 + z) % 64 = 56
  OBVIOUS
<1> HIDE DEF z
<1>2. \E k \in 0..63 : (size + 1 + k) % 64 = 56
  BY <1>1
<1> QED BY <1>2 DEF Zeros

(* The four bytes are the number's low 32 bits. *)
LEMMA WordDigits ==
  ASSUME NEW n \in Nat
  PROVE  LET w == Word(n)
         IN /\ w \in Seq(Nat) /\ Len(w) = 4
            /\ ((w[1] * 256 + w[2]) * 256 + w[3]) * 256 + w[4] = n % Words
<1> DEFINE a == (n \div 16777216) % 256
           b == (n \div 65536) % 256
           c == (n \div 256) % 256
           d == n % 256
           r == n % Words
<1>1. Word(n) = <<a, b, c, d>>
  BY Shifts DEF Word
<1>2. a \in Nat /\ b \in Nat /\ c \in Nat /\ d \in Nat
  OBVIOUS
<1>3. ((a * 256 + b) * 256 + c) * 256 + d = r
  <2>1. r \in Nat /\ r < Words
    BY SMTT(20) DEF Words
  <2>2. n \div 16777216 = 256 * (n \div Words) + r \div 16777216
    BY SMTT(20) DEF Words
  <2>3. a = r \div 16777216
    <3> HIDE DEF r
    <3> QED BY <2>1, <2>2, SMTT(20) DEF Words
  <2>4. n \div 65536 = 256 * (n \div 16777216) + b
    BY SMTT(20)
  <2>5. n \div 256 = 256 * (n \div 65536) + c
    BY SMTT(20)
  <2>6. n = 256 * (n \div 256) + d
    BY SMTT(20)
  <2>7. n = Words * (n \div Words) + r
    BY SMTT(20) DEF Words
  <2>8. n \div 16777216 = 256 * (n \div Words) + a
    BY <2>2, <2>3
  <2> HIDE DEF a, b, c, d, r
  <2> QED BY <1>2, <2>1, <2>4, <2>5, <2>6, <2>7, <2>8, SMTT(20) DEF Words
<1> HIDE DEF a, b, c, d, r
<1> QED BY <1>1, <1>2, <1>3 DEF r

LEMMA TwoParts ==
  ASSUME NEW a \in Seq(Nat), NEW b \in Seq(Nat)
  PROVE  /\ a \o b \in Seq(Nat) /\ Len(a \o b) = Len(a) + Len(b)
         /\ \A i \in 1..Len(a) : (a \o b)[i] = a[i]
         /\ \A i \in 1..Len(b) : (a \o b)[Len(a) + i] = b[i]
<1> DEFINE c == a \o b
           m == Len(a)
           n == Len(b)
<1>1. m \in Nat /\ n \in Nat
  BY LenProperties
<1>2. /\ c \in Seq(Nat) /\ Len(c) = m + n
      /\ \A i \in 1..m + n : c[i] = IF i <= m THEN a[i] ELSE b[i - m]
  BY ConcatProperties
<1> HIDE DEF c, m, n
<1>3. \A i \in 1..m : c[i] = a[i]
  BY <1>1, <1>2
<1>4. ASSUME NEW i \in 1..n PROVE c[m + i] = b[i]
  <2> DEFINE k == m + i
  <2>1. k \in 1..m + n /\ ~ (k <= m) /\ k - m = i
    BY <1>1
  <2> HIDE DEF k
  <2>2. c[k] = b[i]
    BY <1>2, <2>1
  <2> QED BY <2>2 DEF k
<1> QED BY <1>2, <1>3, <1>4 DEF c, m, n

(* For fewer than 2^61 bytes. *)
LEMMA Padded ==
  ASSUME NEW size \in Sizes
  PROVE  LET output == Appended(size)
             n == Len(output)
             Digits(a) == ((output[a] * 256 + output[a + 1]) * 256 + output[a + 2]) * 256 + output[a + 3]
         IN /\ (size + n) % 64 = 0 /\ n \in 9..72
            /\ output[1] = 128
            /\ \A i \in 2..(n - 8) : output[i] = 0
            /\ Digits(n - 7) = size \div 2^29 /\ Digits(n - 3) = 8 * (size % 2^29)
<1> DEFINE z == Zeros(size)
           low == size * 8
           high == Shifted(Shifted(low, 16), 16)
           h == Word(high)
           l == Word(low)
           zeros == [ i \in 1..z |-> 0 ]
           mark == <<128>>
           front == mark \o zeros
           back == h \o l
           all == front \o back
           n == Len(all)
<1>1. size \in Nat /\ ((size \div 2^30) \div 2^30) \div 2 = 0
  BY SizeAssumption
<1>2. z \in 0..63 /\ (size + 1 + z) % 64 = 56
  BY <1>1, ZerosFew
<1>3. /\ low \in Nat /\ low \div Words = size \div (Words \div 8)
      /\ low % Words = 8 * (size % (Words \div 8))
  BY <1>1, SMTT(20) DEF Words
<1>4. high = size \div (Words \div 8)
  <2>1. Shifted(low, 16) = low \div 65536
    BY Shifts
  <2>2. Shifted(low \div 65536, 16) = (low \div 65536) \div 65536
    BY Shifts
  <2>3. (low \div 65536) \div 65536 = low \div Words
    BY <1>3, SMTT(20) DEF Words
  <2> QED BY <1>3, <2>1, <2>2, <2>3
<1>5. high \in Nat /\ high < Words
  <2>1. 2^30 = 1073741824
    BY SMTT(20)
  <2>2. ((size \div 1073741824) \div 1073741824) \div 2 = 0
    BY <1>1, <2>1, SMTT(20)
  <2>3. size \div (Words \div 8) \in Nat /\ size \div (Words \div 8) < Words
    BY <1>1, <2>2, SMTT(20) DEF Words
  <2> QED BY <1>4, <2>3
<1>6. /\ h \in Seq(Nat) /\ Len(h) = 4
      /\ ((h[1] * 256 + h[2]) * 256 + h[3]) * 256 + h[4] = high
      /\ l \in Seq(Nat) /\ Len(l) = 4
      /\ ((l[1] * 256 + l[2]) * 256 + l[3]) * 256 + l[4] = low % Words
  <2>1. high % Words = high
    BY <1>5, SMTT(20) DEF Words
  <2> HIDE DEF high, low
  <2> QED BY <1>3, <1>5, <2>1, WordDigits
<1>7. zeros \in Seq(Nat) /\ Len(zeros) = z /\ \A i \in 1..z : zeros[i] = 0
  <2>1. z \in Nat
    BY <1>2
  <2> HIDE DEF z
  <2> QED BY <2>1
<1>8. mark \in Seq(Nat) /\ Len(mark) = 1 /\ mark[1] = 128
  OBVIOUS
<1> HIDE DEF z, low, high, h, l, zeros, mark
<1>9. /\ front \in Seq(Nat) /\ Len(front) = 1 + z
      /\ (\A i \in 1..1 : front[i] = mark[i]) /\ (\A i \in 1..z : front[1 + i] = zeros[i])
  <2>1. /\ front \in Seq(Nat) /\ Len(front) = Len(mark) + Len(zeros)
        /\ (\A i \in 1..Len(mark) : front[i] = mark[i]) /\ (\A i \in 1..Len(zeros) : front[Len(mark) + i] = zeros[i])
    <3>1. mark \in Seq(Nat) /\ zeros \in Seq(Nat)
      BY <1>7, <1>8
    <3> QED BY <3>1, TwoParts
  <2>2. Len(mark) = 1 /\ Len(zeros) = z
    BY <1>7, <1>8
  <2> HIDE DEF front
  <2> QED BY <2>1, <2>2
<1>10. /\ back \in Seq(Nat) /\ Len(back) = 4 + 4
      /\ (\A i \in 1..4 : back[i] = h[i]) /\ (\A i \in 1..4 : back[4 + i] = l[i])
  <2>1. /\ back \in Seq(Nat) /\ Len(back) = Len(h) + Len(l)
        /\ (\A i \in 1..Len(h) : back[i] = h[i]) /\ (\A i \in 1..Len(l) : back[Len(h) + i] = l[i])
    BY <1>6, TwoParts
  <2>2. Len(h) = 4 /\ Len(l) = 4
    BY <1>6
  <2> HIDE DEF back
  <2> QED BY <2>1, <2>2
<1> HIDE DEF front, back
<1>11. /\ all \in Seq(Nat) /\ Len(all) = (1 + z) + (4 + 4)
      /\ (\A i \in 1..(1 + z) : all[i] = front[i]) /\ (\A i \in 1..(4 + 4) : all[(1 + z) + i] = back[i])
  <2>1. /\ all \in Seq(Nat) /\ Len(all) = Len(front) + Len(back)
        /\ (\A i \in 1..Len(front) : all[i] = front[i]) /\ (\A i \in 1..Len(back) : all[Len(front) + i] = back[i])
    BY <1>9, <1>10, TwoParts
  <2>2. Len(front) = (1 + z) /\ Len(back) = (4 + 4)
    BY <1>9, <1>10
  <2> HIDE DEF all
  <2> QED BY <2>1, <2>2
<1>12. Appended(size) = all
  BY DEF Appended, BigEndian, front, back, mark, zeros, h, l, z, high, low
<1> HIDE DEF all
<1>13. n = 9 + z /\ n - 8 = 1 + z
  <2>1. n = (1 + z) + (4 + 4)
    BY <1>11
  <2> HIDE DEF n
  <2> QED BY <1>2, <2>1
<1>14. (size + n) % 64 = 0 /\ n \in 9..72
  <2>1. n = 9 + z
    BY <1>13
  <2> HIDE DEF n
  <2> QED BY <1>1, <1>2, <2>1
<1>15. all[1] = 128 /\ \A i \in 2..(n - 8) : all[i] = 0
  <2>1. 1 \in 1..1 + z /\ 1 \in 1..1
    BY <1>2
  <2>2. all[1] = 128
    BY <1>8, <1>9, <1>11, <2>1
  <2>3. ASSUME NEW i \in 2..1 + z PROVE all[i] = 0
    <3>1. i \in 1..1 + z /\ i - 1 \in 1..z /\ 1 + (i - 1) = i
      BY <1>2
    <3>2. front[1 + (i - 1)] = zeros[i - 1]
      BY <1>9, <3>1
    <3> QED BY <1>7, <1>11, <3>1, <3>2
  <2> QED BY <1>13, <2>2, <2>3
<1>16. \A j \in 1..8 : all[z + 1 + j] = back[j]
  <2> TAKE j \in 1..8
  <2>1. j \in 1..4 + 4 /\ z + 1 + j = (1 + z) + j
    BY <1>2
  <2> QED BY <1>11, <2>1
<1>17. /\ all[n - 7] = h[1] /\ all[n - 7 + 1] = h[2] /\ all[n - 7 + 2] = h[3] /\ all[n - 7 + 3] = h[4]
       /\ all[n - 3] = l[1] /\ all[n - 3 + 1] = l[2] /\ all[n - 3 + 2] = l[3] /\ all[n - 3 + 3] = l[4]
  <2>1. /\ n - 7 = z + 1 + 1 /\ n - 7 + 1 = z + 1 + 2 /\ n - 7 + 2 = z + 1 + 3 /\ n - 7 + 3 = z + 1 + 4
        /\ n - 3 = z + 1 + 5 /\ n - 3 + 1 = z + 1 + 6 /\ n - 3 + 2 = z + 1 + 7 /\ n - 3 + 3 = z + 1 + 8
    BY <1>2, <1>13
  <2> HIDE DEF n
  <2>2. /\ back[1] = h[1] /\ back[2] = h[2] /\ back[3] = h[3] /\ back[4] = h[4]
        /\ back[5] = l[1] /\ back[6] = l[2] /\ back[7] = l[3] /\ back[8] = l[4]
    <3>1. 4 + 1 = 5 /\ 4 + 2 = 6 /\ 4 + 3 = 7 /\ 4 + 4 = 8
      OBVIOUS
    <3> QED BY <1>10, <3>1
  <2>3. /\ all[z + 1 + 1] = back[1] /\ all[z + 1 + 2] = back[2] /\ all[z + 1 + 3] = back[3]
        /\ all[z + 1 + 4] = back[4] /\ all[z + 1 + 5] = back[5] /\ all[z + 1 + 6] = back[6]
        /\ all[z + 1 + 7] = back[7] /\ all[z + 1 + 8] = back[8]
    BY <1>16
  <2> QED BY <2>1, <2>2, <2>3
<1> DEFINE Digits(a) == ((all[a] * 256 + all[a + 1]) * 256 + all[a + 2]) * 256 + all[a + 3]
<1>18. Digits(n - 7) = size \div 2^29 /\ Digits(n - 3) = 8 * (size % 2^29)
  <2>1. 2^29 = (Words \div 8)
    BY SMTT(20) DEF Words
  <2>2. Digits(n - 7) = high
    BY <1>6, <1>17
  <2>3. Digits(n - 3) = low % Words
    BY <1>6, <1>17
  <2> HIDE DEF Digits, n
  <2> QED BY <1>3, <1>4, <2>1, <2>2, <2>3
<1> QED BY <1>12, <1>14, <1>15, <1>18

-----------------------------------------------------------------------------
(* The invariant. *)

LEMMA InitHolds == Init => IInv
<1> SUFFICES ASSUME Init PROVE IInv
  OBVIOUS
<1>1. <<>> \in Seq(Byte) /\ Len(<<>>) = 0
  OBVIOUS
<1>2. input = given /\ at = 0
  BY DEF Init
<1>3. CASE call = "Encode" /\ given \in Inputs /\ loop = [val |-> 0, valb |-> -6, output |-> <<>>]
  <2>1. given \in Seq(Byte) /\ 0 \in 0..Len(given)
    BY <1>3, InputAssumption, LenProperties DEF Byte
  <2>2. loop \in Loop /\ loop.valb = -6 /\ loop.output = <<>>
    BY <1>1, <1>3 DEF Loop
  <2>3. Begins(<<>>, input)
    BY <1>1 DEF Begins
  <2>4. 0 % 3 = 0 /\ (4 * 0) \div 3 = 0 /\ 2 * 0 - 6 = -6
    OBVIOUS
  <2>5. HasEncoded(input, 0, loop)
    BY <1>1, <2>2, <2>3, <2>4 DEF HasEncoded
  <2> QED BY <1>2, <1>3, <2>1, <2>5 DEF IInv, Calls, EncodeInv, DecodeInv, PadInv
<1>4. CASE call = "Decode" /\ given \in Texts /\ loop = [val |-> 0, valb |-> -8, output |-> <<>>]
  <2>1. given \in Seq(Byte) /\ 0 \in 0..Len(given)
    BY <1>4, InputAssumption, LenProperties DEF Byte
  <2>2. HasDecoded(input, 0, loop)
    BY <1>4, NothingDecoded
  <2> QED BY <1>2, <1>4, <2>1, <2>2 DEF IInv, Calls, EncodeInv, DecodeInv, PadInv
<1>5. CASE /\ call = "Pad" /\ \E size \in Sizes : given = <<size>>
           /\ loop = [val |-> 0, valb |-> 0, output |-> <<>>]
  <2>1. loop \in Loop
    BY <1>1, <1>5 DEF Loop
  <2> QED BY <1>2, <1>5, <2>1 DEF IInv, Calls, EncodeInv, DecodeInv, PadInv
<1> QED BY <1>3, <1>4, <1>5 DEF Init

LEMMA EncodeByteHolds == ASSUME IInv, EncodeByte PROVE IInv'
<1>1. /\ call = "Encode" /\ at < Len(input) /\ at' = at + 1 /\ loop' = WithByte(loop, input[at + 1])
      /\ call' = call /\ given' = given /\ input' = input
  BY DEF EncodeByte
<1>2. given \in Seq(Byte) /\ input = given /\ at \in 0..Len(input) /\ HasEncoded(input, at, loop)
  BY <1>1 DEF IInv, EncodeInv
<1>3. at \in Nat /\ at + 1 \in 0..Len(input)
  BY <1>1, <1>2, LenProperties
<1>4. HasEncoded(input, at + 1, WithByte(loop, input[at + 1]))
  BY <1>1, <1>2, <1>3, ByteEncoded
<1>5. EncodeInv'
  BY <1>1, <1>2, <1>3, <1>4 DEF EncodeInv
<1> QED BY <1>1, <1>5 DEF IInv, Calls, DecodeInv, PadInv

LEMMA EncodeEndHolds == ASSUME IInv, EncodeEnd PROVE IInv'
<1>1. /\ call = "Encode" /\ at = Len(input) /\ call' = "Encoded"
      /\ loop' = [loop EXCEPT !.output = Filled(WithRest(loop))]
      /\ given' = given /\ input' = input
  BY DEF EncodeEnd
<1>2. given \in Seq(Byte) /\ input = given /\ HasEncoded(input, at, loop)
  BY <1>1 DEF IInv, EncodeInv
<1>3. Filled(WithRest(loop)) \in Seq(Byte) /\ IsBase64(Filled(WithRest(loop)), given)
  BY <1>1, <1>2, AllEncoded
<1>4. loop'.output = Filled(WithRest(loop))
  <2>1. loop \in Loop
    BY <1>2 DEF HasEncoded
  <2> QED BY <1>1, <2>1 DEF Loop
<1>5. EncodeInv'
  BY <1>1, <1>2, <1>3, <1>4 DEF EncodeInv
<1> QED BY <1>1, <1>5 DEF IInv, Calls, DecodeInv, PadInv

LEMMA DecodeBackHolds == ASSUME IInv, DecodeBack PROVE IInv'
<1>1. /\ call = "Encoded" /\ call' = "DecodeBack" /\ input' = loop.output /\ at' = 0
      /\ loop' = [val |-> 0, valb |-> -8, output |-> <<>>] /\ given' = given
  BY DEF DecodeBack
<1>2. given \in Seq(Byte) /\ loop.output \in Seq(Byte) /\ IsBase64(loop.output, given)
  BY <1>1 DEF IInv, EncodeInv
<1>3. HasDecoded(input', 0, loop')
  BY <1>1, NothingDecoded
<1>4. 0 \in 0..Len(loop.output)
  BY <1>2, LenProperties
<1>5. DecodeInv'
  BY <1>1, <1>2, <1>3, <1>4 DEF DecodeInv
<1> QED BY <1>1, <1>5 DEF IInv, Calls, EncodeInv, PadInv

LEMMA DecodeCharHolds == ASSUME IInv, DecodeChar PROVE IInv'
<1>1. /\ call \in {"Decode", "DecodeBack"} /\ at < Len(input) /\ table[input[at + 1]] # -1
      /\ at' = at + 1 /\ loop' = WithChar(loop, input[at + 1])
      /\ call' = call /\ given' = given /\ input' = input
  BY DEF DecodeChar, Stops
<1>2. input \in Seq(Byte) /\ at \in 0..Len(input) /\ HasDecoded(input, at, loop)
  BY <1>1 DEF IInv, DecodeInv
<1>3. at \in Nat /\ at + 1 \in 0..Len(input) /\ at + 1 \in 1..Len(input)
  BY <1>1, <1>2, LenProperties
<1>4. table[input[at + 1]] \in 0..63
  <2>1. input[at + 1] \in Byte
    BY <1>2, <1>3
  <2> QED BY <1>1, <2>1, Table
<1>5. HasDecoded(input, at + 1, WithChar(loop, input[at + 1]))
  BY <1>2, <1>3, <1>4, CharDecoded
<1>6. DecodeInv'
  BY <1>1, <1>2, <1>3, <1>5 DEF DecodeInv, IInv
<1> QED BY <1>1, <1>6 DEF IInv, Calls, EncodeInv, PadInv

LEMMA DecodeEndHolds == ASSUME IInv, DecodeEnd PROVE IInv'
<1>1. /\ call \in {"Decode", "DecodeBack"} /\ Stops
      /\ call' = IF call = "Decode" THEN "Decoded" ELSE "DecodedBack"
      /\ given' = given /\ input' = input /\ at' = at /\ loop' = loop
  BY DEF DecodeEnd
<1>2. Stops'
  BY <1>1 DEF Stops
<1>3. DecodeInv'
  BY <1>1, <1>2 DEF DecodeInv, IInv
<1> QED BY <1>1, <1>3 DEF IInv, Calls, EncodeInv, PadInv

LEMMA PadHolds == ASSUME IInv, Pad PROVE IInv'
<1>1. /\ call = "Pad" /\ call' = "Padded" /\ loop' = [loop EXCEPT !.output = Appended(input[1])]
      /\ given' = given /\ input' = input
  BY DEF Pad
<1>2. loop \in Loop /\ input = given /\ \E size \in Sizes : given = <<size>>
  BY <1>1 DEF IInv, PadInv
<1>3. loop'.output = Appended(given[1])
  BY <1>1, <1>2 DEF Loop
<1>4. PadInv'
  BY <1>1, <1>2, <1>3 DEF PadInv
<1> QED BY <1>1, <1>4 DEF IInv, Calls, EncodeInv, DecodeInv

(* The loops stay where their standards want them (encoding.cc:23-63).       *)
THEOREM EncodingInvariant == Spec => []IInv
<1>1. Init => IInv
  BY InitHolds
<1>2. IInv /\ [Next]_vars => IInv'
  <2> SUFFICES ASSUME IInv, [Next]_vars PROVE IInv'
    OBVIOUS
  <2>1. CASE UNCHANGED vars
    BY <2>1 DEF vars, IInv, EncodeInv, DecodeInv, PadInv, Stops
  <2>2. CASE EncodeByte
    BY <2>2, EncodeByteHolds
  <2>3. CASE EncodeEnd
    BY <2>3, EncodeEndHolds
  <2>4. CASE DecodeBack
    BY <2>4, DecodeBackHolds
  <2>5. CASE DecodeChar
    BY <2>5, DecodeCharHolds
  <2>6. CASE DecodeEnd
    BY <2>6, DecodeEndHolds
  <2>7. CASE Pad
    BY <2>7, PadHolds
  <2> QED BY <2>1, <2>2, <2>3, <2>4, <2>5, <2>6, <2>7 DEF Next
<1> QED BY <1>1, <1>2, PTL DEF Spec

-----------------------------------------------------------------------------
(* What Encode returns is the Base64 of any input (encoding.cc:23-42).       *)
THEOREM AlwaysEncodesRfc4648 == Spec => []EncodesRfc4648
<1>1. IInv => EncodesRfc4648
  BY DEF IInv, EncodeInv, EncodesRfc4648
<1> QED BY <1>1, EncodingInvariant, PTL

(* Decoding gives back what was encoded (encoding.cc:23-63).                *)
THEOREM AlwaysRoundTrip == Spec => []RoundTrip
<1>1. IInv => RoundTrip
  <2> SUFFICES ASSUME IInv, call = "DecodedBack" PROVE loop.output = given
    BY DEF RoundTrip
  <2>1. /\ input \in Seq(Byte) /\ at \in 0..Len(input) /\ HasDecoded(input, at, loop)
        /\ given \in Seq(Byte) /\ IsBase64(input, given) /\ Stops
    BY DEF IInv, DecodeInv
  <2>2. /\ \A i \in 1..at : table[input[i]] \in 0..63
        /\ loop.output = Octets(input, at)
        /\ at < Len(input) => table[input[at + 1]] = -1
    BY <2>1 DEF HasDecoded, Stops
  <2> QED BY <2>1, <2>2, Decoded
<1> QED BY <1>1, EncodingInvariant, PTL

(* Of any text, the whole bytes of the characters before the first that is   *)
(* not Base64 are decoded (encoding.cc:44-63).                               *)
THEOREM AlwaysDecodesWholeBytes == Spec => []DecodesWholeBytes
<1>1. IInv => DecodesWholeBytes
  <2> SUFFICES ASSUME IInv, call = "Decoded" PROVE DecodesWholeBytes
    BY DEF DecodesWholeBytes
  <2> DEFINE IsGood(g) == /\ \A i \in 1..g : table[given[i]] # -1
                          /\ g < Len(given) => table[given[g + 1]] = -1
             good == CHOOSE g \in 0..Len(given) : IsGood(g)
  <2>1. /\ given \in Seq(Byte) /\ at \in 0..Len(given) /\ input = given
        /\ HasDecoded(given, at, loop) /\ Stops
    BY DEF IInv, DecodeInv
  <2>2. /\ \A i \in 1..at : table[given[i]] \in 0..63
        /\ loop.output = Octets(given, at)
        /\ at < Len(given) => table[given[at + 1]] = -1
    BY <2>1 DEF HasDecoded, Stops
  <2>3. \A x \in 0..63 : x # -1
    OBVIOUS
  <2>4. IsGood(at)
    BY <2>2, <2>3
  <2>5. Len(given) \in Nat
    BY <2>1, LenProperties
  <2>6. ASSUME NEW g \in 0..Len(given), IsGood(g) PROVE g = at
    <3>1. ~ (g < at)
      <4> SUFFICES ASSUME g < at PROVE FALSE
        OBVIOUS
      <4>1. g + 1 \in 1..at /\ g < Len(given)
        BY <2>1, <2>5
      <4>2. table[given[g + 1]] = -1
        BY <2>6, <4>1
      <4> QED BY <2>2, <2>3, <4>1, <4>2
    <3>2. ~ (at < g)
      <4> SUFFICES ASSUME at < g PROVE FALSE
        OBVIOUS
      <4>1. at + 1 \in 1..g /\ at < Len(given)
        BY <2>1, <2>5
      <4>2. table[given[at + 1]] # -1
        BY <2>6, <4>1
      <4> QED BY <2>2, <4>1, <4>2
    <3> QED BY <2>1, <2>5, <3>1, <3>2
  <2> HIDE DEF IsGood
  <2>7. good = at
    BY <2>1, <2>4, <2>6
  <2>8. loop.output = Octets(given, good)
    BY <2>2, <2>7
  <2> QED BY <2>8 DEF DecodesWholeBytes, IsGood
<1> QED BY <1>1, EncodingInvariant, PTL

(* A message of fewer than 2^61 bytes is padded as FIPS 180-4 says           *)
(* (sha256.cc:47-64).                                                        *)
THEOREM AlwaysPadsFips180 == Spec => []PadsFips180
<1>1. IInv => PadsFips180
  <2> SUFFICES ASSUME IInv, call = "Padded" PROVE PadsFips180
    BY DEF PadsFips180
  <2> DEFINE size == given[1]
             Meets(output) ==
               LET n == Len(output)
                   Digits(a) == ((output[a] * 256 + output[a + 1]) * 256 + output[a + 2]) * 256 + output[a + 3]
               IN /\ (size + n) % 64 = 0 /\ n \in 9..72
                  /\ output[1] = 128
                  /\ \A i \in 2..(n - 8) : output[i] = 0
                  /\ Digits(n - 7) = size \div 2^29 /\ Digits(n - 3) = 8 * (size % 2^29)
  <2>1. loop.output = Appended(size) /\ size \in Sizes
    BY DEF IInv, PadInv
  <2>2. Meets(Appended(size))
    <3> HIDE DEF size
    <3> QED BY <2>1, Padded
  <2>3. Meets(loop.output)
    <3> HIDE DEF Meets
    <3> QED BY <2>1, <2>2
  <2> QED BY <2>3 DEF PadsFips180
<1> QED BY <1>1, EncodingInvariant, PTL
=============================================================================
