--------------------------- MODULE CountingLemmas ---------------------------
(***************************************************************************)
(* Facts about counting that the proofs share: the least of some numbers,   *)
(* and what SizeOf is for sets put together, taken apart or renamed.        *)
(***************************************************************************)
EXTENDS Sizes, FiniteSetTheorems, TLAPS

(* Some number is the least of any set of numbers: what stands in for       *)
(* induction where a loop ends after its first turn of a kind.              *)
LEMMA LeastNatural ==
  ASSUME NEW T, T \subseteq Nat, T # {}
  PROVE  \E m \in T : \A k \in T : m <= k
<1> DEFINE R == {ss \in Nat \X Nat : ss[1] < ss[2]}
<1>1. IsWellFoundedOn(R, Nat)
  BY NatLessThanWellFounded DEF OpToRel
<1>2. \A x, y \in Nat : x < y => <<x, y>> \in R
  OBVIOUS
<1> HIDE DEF R
<1>3. PICK m \in T : \A y \in T : ~ (<<y, m>> \in R)
  BY <1>1, WFMin
<1>4. ASSUME NEW k \in T PROVE m <= k
  <2>1. k \in Nat /\ m \in Nat
    OBVIOUS
  <2>2. ~ (k < m)
    BY <1>2, <1>3, <2>1
  <2> QED BY <2>1, <2>2
<1> QED BY <1>4

-----------------------------------------------------------------------------
(* Nobody holds nothing. *)
LEMMA NoBytes ==
  ASSUME NEW size
  PROVE  IsFiniteSet(BytesOf({}, size)) /\ SizeOf({}, size) = 0
BY FS_EmptySet DEF SizeOf, BytesOf

(* One owner holds its size. *)
LEMMA OneBytes ==
  ASSUME NEW x, NEW size, size[x] \in Nat
  PROVE  IsFiniteSet(BytesOf({x}, size)) /\ SizeOf({x}, size) = size[x]
<1> DEFINE f == [k \in 1..size[x] |-> <<x, k>>]
           B == BytesOf({x}, size)
<1>1. B = {x} \X (1..size[x])
  BY DEF BytesOf
<1> HIDE DEF B
<1>2. f \in Bijection(1..size[x], B)
  BY <1>1 DEF Bijection, Injection, Surjection, IsInjective
<1>3. IsFiniteSet(1..size[x]) /\ Cardinality(1..size[x]) = size[x]
  BY FS_Interval, SMTT(30)
<1> HIDE DEF f
<1>4. IsFiniteSet(B) /\ Cardinality(B) = size[x]
  BY <1>2, <1>3, FS_Bijection DEF ExistsBijection
<1> QED BY <1>4 DEF B, SizeOf

(* Owners put together hold the sum. *)
LEMMA MoreBytes ==
  ASSUME NEW S, NEW T, NEW U, NEW size, U = S \cup T, S \cap T = {},
         IsFiniteSet(BytesOf(S, size)), IsFiniteSet(BytesOf(T, size))
  PROVE  /\ IsFiniteSet(BytesOf(U, size))
         /\ SizeOf(U, size) = SizeOf(S, size) + SizeOf(T, size)
         /\ SizeOf(S, size) \in Nat /\ SizeOf(T, size) \in Nat
<1>1. BytesOf(U, size) = BytesOf(S, size) \cup BytesOf(T, size)
  BY DEF BytesOf
<1>2. BytesOf(S, size) \cap BytesOf(T, size) = {}
  BY DEF BytesOf
<1>3. Cardinality({}) = 0 /\ Cardinality(BytesOf(S, size)) \in Nat /\ Cardinality(BytesOf(T, size)) \in Nat
  BY FS_EmptySet, FS_CardinalityType
<1>4. /\ IsFiniteSet(BytesOf(S, size) \cup BytesOf(T, size))
      /\ Cardinality(BytesOf(S, size) \cup BytesOf(T, size))
           = Cardinality(BytesOf(S, size)) + Cardinality(BytesOf(T, size)) - Cardinality({})
  BY <1>2, FS_Union
<1>5. Cardinality(BytesOf(S, size) \cup BytesOf(T, size))
        = Cardinality(BytesOf(S, size)) + Cardinality(BytesOf(T, size))
  BY <1>3, <1>4
<1> QED BY <1>1, <1>3, <1>4, <1>5 DEF SizeOf

(* Some of them hold the rest less. *)
LEMMA FewerBytes ==
  ASSUME NEW S, NEW T, NEW U, NEW size, U = S \cup T, S \cap T = {},
         IsFiniteSet(BytesOf(U, size))
  PROVE  /\ IsFiniteSet(BytesOf(S, size)) /\ IsFiniteSet(BytesOf(T, size))
         /\ SizeOf(S, size) \in Nat /\ SizeOf(T, size) \in Nat
         /\ SizeOf(U, size) = SizeOf(S, size) + SizeOf(T, size)
<1>1. BytesOf(S, size) \subseteq BytesOf(U, size) /\ BytesOf(T, size) \subseteq BytesOf(U, size)
  BY DEF BytesOf
<1>2. IsFiniteSet(BytesOf(S, size)) /\ IsFiniteSet(BytesOf(T, size))
  BY <1>1, FS_Subset
<1> QED BY <1>2, MoreBytes

(* Only the sizes of the owners count. *)
LEMMA SameBytes ==
  ASSUME NEW S, NEW size, NEW other, \A o \in S : size[o] = other[o]
  PROVE  BytesOf(S, size) = BytesOf(S, other) /\ SizeOf(S, size) = SizeOf(S, other)
<1>1. BytesOf(S, size) \subseteq BytesOf(S, other)
  BY DEF BytesOf
<1>2. BytesOf(S, other) \subseteq BytesOf(S, size)
  BY DEF BytesOf
<1> QED BY <1>1, <1>2 DEF SizeOf

(* Owners under other names hold the same. *)
LEMMA RenamedBytes ==
  ASSUME NEW S, NEW size, NEW name, NEW other, IsFiniteSet(BytesOf(S, size)),
         \A o, p \in S : name[o] = name[p] => o = p,
         \A o \in S : size[o] = other[name[o]]
  PROVE  SizeOf({ name[o] : o \in S }, other) = SizeOf(S, size)
<1> DEFINE A == BytesOf(S, size)
           B == BytesOf({ name[o] : o \in S }, other)
           f == [ b \in A |-> <<name[b[1]], b[2]>> ]
<1>1. \A b : b \in A <=> \E o \in S : \E k \in 1..size[o] : b = <<o, k>>
  BY DEF BytesOf
<1>2. \A b : b \in B <=> \E o \in S : \E k \in 1..size[o] : b = <<name[o], k>>
  BY DEF BytesOf
<1> HIDE DEF A, B
<1>3. f \in [A -> B]
  BY <1>1, <1>2
<1>4. ASSUME NEW b \in A, NEW c \in A, f[b] = f[c] PROVE b = c
  <2>1. PICK o \in S : \E k \in 1..size[o] : b = <<o, k>>
    BY <1>1
  <2>2. PICK p \in S : \E j \in 1..size[p] : c = <<p, j>>
    BY <1>1
  <2>3. PICK k \in 1..size[o] : b = <<o, k>>
    BY <2>1
  <2>4. PICK j \in 1..size[p] : c = <<p, j>>
    BY <2>2
  <2>5. name[o] = name[p] /\ k = j
    BY <1>4, <2>3, <2>4
  <2> QED BY <2>3, <2>4, <2>5
<1>5. ASSUME NEW c \in B PROVE \E b \in A : f[b] = c
  <2>1. PICK o \in S : \E k \in 1..size[o] : c = <<name[o], k>>
    BY <1>2
  <2>2. PICK k \in 1..size[o] : c = <<name[o], k>>
    BY <2>1
  <2>3. <<o, k>> \in A
    BY <1>1
  <2>4. f[<<o, k>>] = c
    BY <2>2, <2>3
  <2> QED BY <2>3, <2>4
<1> HIDE DEF f
<1>6. f \in Bijection(A, B)
  BY <1>3, <1>4, <1>5 DEF Bijection, Injection, Surjection, IsInjective
<1>7. IsFiniteSet(A)
  BY DEF A
<1>8. Cardinality(A) = Cardinality(B)
  BY <1>6, <1>7, FS_Bijection DEF ExistsBijection
<1> QED BY <1>8 DEF A, B, SizeOf
=============================================================================
