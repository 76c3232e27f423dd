------------------------------ MODULE FifoProofs ------------------------------
(***************************************************************************)
(* The event loop implements Tunnels: the proof, for any descriptors,       *)
(* streams, batch size and failures.                                        *)
(***************************************************************************)
EXTENDS TunnelProofs, ProxyServerTunnels

-----------------------------------------------------------------------------
(* Sequences of pieces. *)

LEMMA AppendBehind ==
  ASSUME NEW s \in Seq(Piece), NEW t \in Seq(Piece), NEW e \in Piece
  PROVE  s \o Append(t, e) = Append(s \o t, e)
<1>1. Append(t, e) = t \o <<e>> /\ Append(s \o t, e) = (s \o t) \o <<e>>
  BY AppendIsConcat, ConcatProperties
<1>2. <<e>> \in Seq(Piece)
  OBVIOUS
<1>3. (s \o t) \o <<e>> = s \o (t \o <<e>>)
  BY <1>2, ConcatAssociative
<1> QED BY <1>1, <1>3

(* What two sequences are made of, found again in the two behind each other. *)
LEMMA Behind ==
  ASSUME NEW a \in Seq(Piece), NEW rest \in Seq(Piece)
  PROVE  /\ SubSeq(a \o rest, 1, Len(a)) = a
         /\ SubSeq(a \o rest, Len(a) + 1, Len(a \o rest)) = rest
         /\ Len(a) # 0 => Len(a) \in 1..Len(a \o rest)
<1> DEFINE both == a \o rest
<1>1. /\ both \in Seq(Piece) /\ Len(both) = Len(a) + Len(rest)
      /\ \A k \in 1..Len(a) + Len(rest) : both[k] = IF k <= Len(a) THEN a[k] ELSE rest[k - Len(a)]
  BY ConcatProperties
<1> HIDE DEF both
<1>2. Len(a) \in Nat /\ Len(rest) \in Nat
  OBVIOUS
<1>3. SubSeq(both, 1, Len(a)) = a
  <2> DEFINE n == Len(a)
             front == SubSeq(both, 1, n)
  <2>1. n \in Int /\ \A k \in 1..n : both[k] \in Piece
    BY <1>1, <1>2
  <2>2. /\ front \in Seq(Piece) /\ Len(front) = (IF 1 <= n THEN n - 1 + 1 ELSE 0)
        /\ \A k \in 1..n - 1 + 1 : front[k] = both[1 + k - 1]
    <3> HIDE DEF n
    <3> QED BY <2>1, SubSeqProperties
  <2> HIDE DEF front
  <2>3. Len(front) = Len(a)
    BY <1>2, <2>2
  <2>4. ASSUME NEW k \in 1..Len(a) PROVE front[k] = a[k]
    <3>1. k \in 1..n - 1 + 1 /\ 1 + k - 1 = k /\ k \in 1..Len(a) + Len(rest) /\ k <= Len(a)
      BY <1>2
    <3>2. front[k] = both[k] /\ both[k] = a[k]
      BY <1>1, <2>2, <3>1
    <3> QED BY <3>2
  <2>5. front = a
    BY <2>2, <2>3, <2>4, SeqEqual
  <2> QED BY <2>5 DEF front
<1>4. SubSeq(both, Len(a) + 1, Len(both)) = rest
  <2> DEFINE m == Len(a) + 1
             n == Len(both)
             back == SubSeq(both, m, n)
  <2>1. m \in Int /\ n \in Int /\ \A k \in m..n : both[k] \in Piece
    BY <1>1, <1>2
  <2>2. /\ back \in Seq(Piece) /\ Len(back) = (IF m <= n THEN n - m + 1 ELSE 0)
        /\ \A k \in 1..n - m + 1 : back[k] = both[m + k - 1]
    <3> HIDE DEF m, n
    <3> QED BY <2>1, SubSeqProperties
  <2> HIDE DEF back
  <2>3. Len(back) = Len(rest)
    BY <1>1, <1>2, <2>2
  <2>4. ASSUME NEW k \in 1..Len(rest) PROVE back[k] = rest[k]
    <3> DEFINE j == m + k - 1
    <3>1. k \in 1..n - m + 1 /\ j \in 1..Len(a) + Len(rest) /\ ~ (j <= Len(a)) /\ j - Len(a) = k
      BY <1>1, <1>2
    <3>2. back[k] = both[j]
      BY <2>2, <3>1
    <3> HIDE DEF j
    <3>3. both[j] = rest[j - Len(a)]
      BY <1>1, <3>1
    <3> QED BY <3>1, <3>2, <3>3
  <2>5. back = rest
    BY <2>2, <2>3, <2>4, SeqEqual
  <2> QED BY <2>5 DEF back
<1>5. Len(a) # 0 => Len(a) \in 1..Len(both)
  BY <1>1, <1>2
<1> QED BY <1>3, <1>4, <1>5 DEF both

(* The first n pieces and the others. *)
LEMMA Cut ==
  ASSUME NEW out \in Seq(Piece), NEW n \in 0..Len(out)
  PROVE  /\ SubSeq(out, 1, n) \in Seq(Piece) /\ Len(SubSeq(out, 1, n)) = n
         /\ SubSeq(out, n + 1, Len(out)) \in Seq(Piece)
         /\ SubSeq(out, 1, n) \o SubSeq(out, n + 1, Len(out)) = out
<1>1. Len(out) \in Nat /\ n \in Nat /\ \A k \in 1..Len(out) : out[k] \in Piece
  OBVIOUS
<1>2. \A k \in 1..n : out[k] \in Piece
  BY <1>1
<1>3. SubSeq(out, 1, n) \in Seq(Piece) /\ Len(SubSeq(out, 1, n)) = n
  <2>1. SubSeq(out, 1, n) \in Seq(Piece) /\ Len(SubSeq(out, 1, n)) = (IF 1 <= n THEN n - 1 + 1 ELSE 0)
    BY <1>1, <1>2, SubSeqProperties
  <2> QED BY <1>1, <2>1
<1>4. SubSeq(out, n + 1, Len(out)) \in Seq(Piece)
  <2> DEFINE m == n + 1
             L == Len(out)
  <2>1. m \in Int /\ L \in Int /\ \A k \in m..L : out[k] \in Piece
    BY <1>1
  <2> HIDE DEF m, L
  <2>2. SubSeq(out, m, L) \in Seq(Piece)
    BY <2>1, SubSeqProperties
  <2> QED BY <2>2 DEF m, L
<1>5. SubSeq(out, 1, n) \o SubSeq(out, n + 1, Len(out)) = SubSeq(out, 1, Len(out))
  <2>1. 1 \in 1..Len(out) + 1 /\ n \in 1 - 1..Len(out) /\ Len(out) \in n..Len(out)
    BY <1>1
  <2> QED BY <2>1, ConcatAdjacentSubSeq
<1>6. SubSeq(out, 1, Len(out)) = out
  BY SubSeqFull
<1> QED BY <1>3, <1>4, <1>5, <1>6

Joins(a, b, c) == (a \o b) \o c = a \o (b \o c)

LEMMA Associative ==
  ASSUME NEW a \in Seq(Piece), NEW b \in Seq(Piece), NEW c \in Seq(Piece)
  PROVE  Joins(a, b, c) /\ b \o c \in Seq(Piece)
BY ConcatAssociative, ConcatProperties DEF Joins

(* What stands behind the first of four. *)
Regroups(a, b, r, i) == ((a \o b) \o r) \o i = a \o ((b \o r) \o i)

LEMMA Regrouped ==
  ASSUME NEW a \in Seq(Piece), NEW b \in Seq(Piece), NEW r \in Seq(Piece), NEW i \in Seq(Piece)
  PROVE  Regroups(a, b, r, i)
<1> DEFINE br == b \o r
<1>1. (a \o b) \o r = a \o br /\ br \in Seq(Piece)
  <2>1. Joins(a, b, r) /\ br \in Seq(Piece)
    BY Associative
  <2> QED BY <2>1 DEF Joins
<1> HIDE DEF br
<1>2. Joins(a, br, i)
  BY <1>1, Associative
<1>3. (a \o br) \o i = a \o (br \o i)
  BY <1>2 DEF Joins
<1> QED BY <1>1, <1>3 DEF Regroups, br

LEMMA ThreeTyped ==
  ASSUME NEW b \in Seq(Piece), NEW r \in Seq(Piece), NEW i \in Seq(Piece)
  PROVE  (b \o r) \o i \in Seq(Piece)
BY ConcatProperties

(* What comes in behind the front is found there again. *)
LEMMA Inserted ==
  ASSUME NEW a \in Seq(Piece), NEW b \in Seq(Piece), NEW rest \in Seq(Piece)
  PROVE  /\ SubSeq(a \o (b \o rest), Len(a) + 1,
                   Len(a) + Len(a \o (b \o rest)) - Len(a \o rest)) = b
         /\ Len(a) \in 0..Len(a \o rest)
<1> DEFINE back == b \o rest
<1>1. /\ back \in Seq(Piece) /\ Len(back) = Len(b) + Len(rest)
      /\ \A k \in 1..Len(b) + Len(rest) : back[k] = IF k <= Len(b) THEN b[k] ELSE rest[k - Len(b)]
  BY ConcatProperties
<1> HIDE DEF back
<1> DEFINE new == a \o back
<1>2. /\ new \in Seq(Piece) /\ Len(new) = Len(a) + Len(back)
      /\ \A k \in 1..Len(a) + Len(back) : new[k] = IF k <= Len(a) THEN a[k] ELSE back[k - Len(a)]
  <2>1. back \in Seq(Piece)
    BY <1>1
  <2> QED BY <2>1, ConcatProperties
<1> HIDE DEF new
<1>3. Len(a \o rest) = Len(a) + Len(rest)
  BY ConcatProperties
<1>4. Len(a) \in Nat /\ Len(b) \in Nat /\ Len(rest) \in Nat
  OBVIOUS
<1> DEFINE m == Len(a) + 1
           n == Len(a) + Len(new) - Len(a \o rest)
           mid == SubSeq(new, m, n)
<1>5. m \in Int /\ n \in Int /\ n = Len(a) + Len(b)
  BY <1>1, <1>2, <1>3, <1>4
<1> HIDE DEF n
<1>6. \A k \in m..n : new[k] \in Piece
  BY <1>1, <1>2, <1>4, <1>5
<1>7. /\ mid \in Seq(Piece) /\ Len(mid) = (IF m <= n THEN n - m + 1 ELSE 0)
      /\ \A k \in 1..n - m + 1 : mid[k] = new[m + k - 1]
  <2> HIDE DEF m
  <2> QED BY <1>5, <1>6, SubSeqProperties
<1> HIDE DEF mid
<1>8. Len(mid) = Len(b)
  BY <1>4, <1>5, <1>7
<1>9. ASSUME NEW k \in 1..Len(b) PROVE mid[k] = b[k]
  <2> DEFINE j == m + k - 1
  <2>1. /\ k \in 1..n - m + 1 /\ j \in 1..Len(a) + Len(back) /\ ~ (j <= Len(a)) /\ j - Len(a) = k
        /\ k \in 1..Len(b) + Len(rest) /\ k <= Len(b)
    BY <1>1, <1>4, <1>5
  <2>2. mid[k] = new[j]
    BY <1>7, <2>1
  <2> HIDE DEF j
  <2>3. new[j] = back[j - Len(a)]
    BY <1>2, <2>1
  <2> QED BY <1>1, <2>1, <2>2, <2>3
<1>10. mid = b
  BY <1>7, <1>8, <1>9, SeqEqual
<1> QED BY <1>3, <1>4, <1>10 DEF mid, n, new, back

-----------------------------------------------------------------------------
(* Where pieces come from. *)

From(buf, gens) == \A i \in 1..Len(buf) : buf[i].src \in gens

LEMMA FromConcat ==
  ASSUME NEW s \in Seq(Piece), NEW t \in Seq(Piece), NEW gens, From(s, gens), From(t, gens)
  PROVE  s \o t \in Seq(Piece) /\ From(s \o t, gens)
<1> DEFINE st == s \o t
<1>1. /\ st \in Seq(Piece) /\ Len(st) = Len(s) + Len(t)
      /\ \A i \in 1..Len(s) + Len(t) : st[i] = IF i <= Len(s) THEN s[i] ELSE t[i - Len(s)]
  BY ConcatProperties
<1>2. Len(s) \in Nat /\ Len(t) \in Nat
  OBVIOUS
<1> HIDE DEF st
<1>3. ASSUME NEW i \in 1..Len(st) PROVE st[i].src \in gens
  <2>1. i \in 1..Len(s) + Len(t)
    BY <1>1
  <2>2. CASE i <= Len(s)
    <3>1. i \in 1..Len(s) /\ st[i] = s[i]
      BY <1>1, <1>2, <2>1, <2>2
    <3> QED BY <3>1 DEF From
  <2>3. CASE ~ (i <= Len(s))
    <3>1. i - Len(s) \in 1..Len(t) /\ st[i] = t[i - Len(s)]
      BY <1>1, <1>2, <2>1, <2>3
    <3> QED BY <3>1 DEF From
  <2> QED BY <2>2, <2>3
<1> QED BY <1>1, <1>3 DEF From, st

LEMMA FromAppended ==
  ASSUME NEW s \in Seq(Piece), NEW e \in Piece, NEW gens, From(s, gens), e.src \in gens
  PROVE  Append(s, e) \in Seq(Piece) /\ From(Append(s, e), gens)
<1>1. <<e>> \in Seq(Piece) /\ From(<<e>>, gens) /\ Append(s, e) = s \o <<e>>
  BY AppendIsConcat DEF From
<1> QED BY <1>1, FromConcat

LEMMA FromWider ==
  ASSUME NEW buf, NEW gens, NEW more, From(buf, gens), gens \subseteq more PROVE From(buf, more)
BY DEF From

(* The two parts of a buffer. *)
LEMMA FromParts ==
  ASSUME NEW s \in Seq(Piece), NEW gens, From(s, gens), NEW n \in 0..Len(s)
  PROVE  From(SubSeq(s, 1, n), gens) /\ From(SubSeq(s, n + 1, Len(s)), gens)
<1> DEFINE front == SubSeq(s, 1, n)
           rest == SubSeq(s, n + 1, Len(s))
<1>1. front \in Seq(Piece) /\ Len(front) = n /\ rest \in Seq(Piece) /\ front \o rest = s
  BY Cut
<1> HIDE DEF front, rest
<1>2. /\ Len(s) = Len(front) + Len(rest)
      /\ \A i \in 1..Len(front) + Len(rest) : s[i] = IF i <= Len(front) THEN front[i] ELSE rest[i - Len(front)]
  BY <1>1, ConcatProperties
<1>3. Len(front) \in Nat /\ Len(rest) \in Nat
  BY <1>1
<1>4. ASSUME NEW i \in 1..Len(front) PROVE front[i].src \in gens
  <2>1. i \in 1..Len(s) /\ i \in 1..Len(front) + Len(rest) /\ i <= Len(front)
    BY <1>2, <1>3
  <2> QED BY <1>2, <2>1 DEF From
<1>5. ASSUME NEW i \in 1..Len(rest) PROVE rest[i].src \in gens
  <2> DEFINE j == Len(front) + i
  <2>1. j \in 1..Len(s) /\ j \in 1..Len(front) + Len(rest) /\ ~ (j <= Len(front)) /\ j - Len(front) = i
    BY <1>2, <1>3
  <2> HIDE DEF j
  <2>2. s[j] = rest[i] /\ s[j].src \in gens
    BY <1>2, <2>1 DEF From
  <2> QED BY <2>2
<1> QED BY <1>4, <1>5 DEF From, front, rest

LEMMA FromOrigins ==
  ASSUME NEW buf \in Seq(Piece), NEW gens, From(buf, gens) PROVE T!Origins(buf) \subseteq gens
<1>1. DOMAIN buf = 1..Len(buf)
  OBVIOUS
<1> QED BY <1>1 DEF From, T!Origins

(* The sources of which `f' may hold something to write, or may have written *)
(* it: the proxy itself, connections that are gone, and those whose link     *)
(* leads to f.                                                               *)
Linking(table, open, f, n) ==
  { g \in 0..n : \A x \in DOMAIN table : open[x].gen = g => table[x].peer = f }

(* What waits to be relayed was read from the connection's own socket; what  *)
(* waits to be written, or was, came by a link that is still there if its    *)
(* sender is.                                                                *)
SourcesOf(table, open, f, n) ==
  /\ open[f].gen # 0
  /\ From(table[f].recv, {open[f].gen}) /\ From(open[f].inq, {open[f].gen})
  /\ From(table[f].send, Linking(table, open, f, n))
  /\ From(open[f].given, Linking(table, open, f, n))

Sources(table, open, n) == \A f \in DOMAIN table : SourcesOf(table, open, f, n)

FifoInv == Sources(connections, sockets, made)

(* What the proofs below need of the tables besides. *)
Typed(table, open) ==
  /\ DOMAIN table = DOMAIN open /\ DOMAIN table \subseteq Fd
  /\ \A f \in DOMAIN table : table[f] \in ConnectionType /\ open[f] \in SocketType

LEMMA TablesTyped == ASSUME IInv PROVE Typed(connections, sockets)
BY DEF IInv, TypeOK, TablesAgree, Typed

(* What a connection and its socket hold, as pieces. *)
LEMMA Pieces ==
  ASSUME NEW table, NEW open, Typed(table, open), NEW f \in DOMAIN table
  PROVE  /\ table[f].send \in Seq(Piece) /\ table[f].recv \in Seq(Piece) /\ open[f].inq \in Seq(Piece)
         /\ table[f].recv \in Seq(Input) /\ open[f].inq \in Seq(Input)
         /\ open[f].todo \in Seq(InputKinds) /\ open[f].gen \in Nat /\ open[f].given \in Seq(Piece)
         /\ f \in Fd /\ f \in DOMAIN open
BY InputIsPiece DEF Typed, ConnectionType, SocketType

(* No link to f is lost while its owner lives: connections go, or new ones   *)
(* come.                                                                     *)
LinksStay(table, open, table2, open2, f, n) ==
  \A x \in DOMAIN table2 :
    \/ open2[x].gen = n + 1
    \/ /\ x \in DOMAIN table /\ open2[x].gen = open[x].gen
       /\ table[x].peer = f => table2[x].peer = f

LEMMA LinkingStays ==
  ASSUME NEW table, NEW open, NEW table2, NEW open2, NEW f, NEW n \in Nat, NEW m \in Nat, n <= m,
         LinksStay(table, open, table2, open2, f, n)
  PROVE  Linking(table, open, f, n) \subseteq Linking(table2, open2, f, m)
<1> SUFFICES ASSUME NEW g \in Linking(table, open, f, n), NEW x \in DOMAIN table2, open2[x].gen = g
             PROVE  g \in 0..m /\ table2[x].peer = f
  BY DEF Linking
<1>1. g \in 0..n /\ g # n + 1
  BY DEF Linking
<1>2. x \in DOMAIN table /\ open[x].gen = g /\ (table[x].peer = f => table2[x].peer = f)
  BY <1>1 DEF LinksStay
<1> QED BY <1>1, <1>2 DEF Linking

-----------------------------------------------------------------------------
(* The ways of the tunnels, by tables. *)

Linked(table, f, p) ==
  /\ f \in DOMAIN table /\ p \in DOMAIN table
  /\ table[f].peer = p /\ table[p].peer = f
  /\ "Established" \in {table[f].proto, table[p].proto}

(* What goes from the connection f to the connection p. *)
Flowing(table, open, f, p) ==
  [ sender |-> open[f].gen,
    unsent |-> [ i \in DOMAIN open[f].todo |-> [kind |-> open[f].todo[i], src |-> open[f].gen] ],
    transit |-> table[p].send \o table[f].recv \o open[f].inq,
    given |-> open[p].given ]

LinkedWays(table) == { way \in Fd \X Fd : Linked(table, way[1], way[2]) }

Ways(table, open) == [ way \in LinkedWays(table) |-> Flowing(table, open, way[1], way[2]) ]

LEMMA FlowsAreWays == IInv => Flows = Ways(connections, sockets)
<1> SUFFICES ASSUME IInv PROVE Flows = Ways(connections, sockets)
  OBVIOUS
<1> DEFINE Ends == { g \in DOMAIN connections : Tunnelled(g) }
           D == { <<f, PeerOf(f)>> : f \in Ends }
<1>1. DOMAIN connections \subseteq Fd /\ NoFd \notin DOMAIN connections
  BY Descriptors DEF IInv, TypeOK
<1>2. \A f, p : Linked(connections, f, p) <=> f \in Ends /\ p = PeerOf(f)
  BY <1>1 DEF Linked, Tunnelled, PeerOf
<1>3. D \subseteq LinkedWays(connections)
  <2> SUFFICES ASSUME NEW f \in Ends PROVE <<f, PeerOf(f)>> \in LinkedWays(connections)
    OBVIOUS
  <2>1. Linked(connections, f, PeerOf(f))
    BY <1>2
  <2>2. f \in Fd /\ PeerOf(f) \in Fd
    BY <1>1, <2>1 DEF Linked
  <2> QED BY <2>1, <2>2 DEF LinkedWays
<1>4. LinkedWays(connections) \subseteq D
  <2> SUFFICES ASSUME NEW f \in Fd, NEW p \in Fd, Linked(connections, f, p) PROVE <<f, p>> \in D
    BY DEF LinkedWays
  <2> QED BY <1>2
<1> DEFINE Carried(way) ==
             [ sender |-> sockets[way[1]].gen, unsent |-> Unsent(way[1]),
               transit |-> connections[way[2]].send \o connections[way[1]].recv \o sockets[way[1]].inq,
               given |-> sockets[way[2]].given ]
<1>5. \A way \in D : Carried(way) = Flowing(connections, sockets, way[1], way[2])
  BY DEF Flowing, Unsent
<1>6. Flows = [ way \in D |-> Carried(way) ]
  BY DEF Flows, Unsent, Tunnelled, PeerOf
<1>7. D = LinkedWays(connections)
  BY <1>3, <1>4
<1> HIDE DEF D, Carried
<1> QED BY <1>5, <1>6, <1>7 DEF Ways

LEMMA FlowsAreWaysNext == IInv' => Flows' = Ways(connections', sockets')
<1>1. (IInv => Flows = Ways(connections, sockets))'
  BY FlowsAreWays, PTL
<1> QED BY <1>1

(* A step that changes no way. *)
LEMMA QuietWays ==
  ASSUME NEW table, NEW open, NEW table2, NEW open2,
         \A f, p \in Fd : Linked(table2, f, p) <=> Linked(table, f, p),
         \A f, p \in Fd : Linked(table, f, p) =>
           Flowing(table2, open2, f, p) = Flowing(table, open, f, p)
  PROVE  Ways(table2, open2) = Ways(table, open)
<1>1. LinkedWays(table2) = LinkedWays(table)
  BY DEF LinkedWays
<1>2. \A way \in LinkedWays(table) :
        Flowing(table2, open2, way[1], way[2])
        = Flowing(table, open, way[1], way[2])
  BY DEF LinkedWays
<1> QED BY <1>1, <1>2 DEF Ways

(* A step on one way. *)
LEMMA OneWay ==
  ASSUME NEW table, NEW open, NEW table2, NEW open2, NEW a \in Fd, NEW b \in Fd,
         Linked(table, a, b),
         \A f, p \in Fd : Linked(table2, f, p) <=> Linked(table, f, p),
         \A f, p \in Fd : Linked(table, f, p) /\ f # a =>
           Flowing(table2, open2, f, p) = Flowing(table, open, f, p)
  PROVE  /\ <<a, b>> \in DOMAIN Ways(table, open)
         /\ Ways(table, open)[<<a, b>>] = Flowing(table, open, a, b)
         /\ Ways(table2, open2) =
              [Ways(table, open) EXCEPT ![<<a, b>>] = Flowing(table2, open2, a, b)]
<1> DEFINE D == LinkedWays(table)
<1>1. LinkedWays(table2) = D
  BY DEF LinkedWays
<1>2. \A way \in D :
        Flowing(table2, open2, way[1], way[2])
        = IF way = <<a, b>> THEN Flowing(table2, open2, a, b)
          ELSE Flowing(table, open, way[1], way[2])
  <2> SUFFICES ASSUME NEW f \in Fd, NEW p \in Fd, Linked(table, f, p)
               PROVE  Flowing(table2, open2, f, p)
                      = IF <<f, p>> = <<a, b>> THEN Flowing(table2, open2, a, b)
                        ELSE Flowing(table, open, f, p)
    BY DEF LinkedWays
  <2>1. f = a => p = b
    BY DEF Linked
  <2> QED BY <2>1
<1>3. <<a, b>> \in D
  BY DEF LinkedWays
<1> HIDE DEF D
<1>4. Ways(table, open) = [ way \in D |-> Flowing(table, open, way[1], way[2]) ]
  BY DEF Ways, D
<1>5. Ways(table2, open2) = [ way \in D |-> Flowing(table2, open2, way[1], way[2]) ]
  BY <1>1 DEF Ways
<1> QED BY <1>2, <1>3, <1>4, <1>5

(* A step that is about the connections X, outside tunnels. *)
Apart(table, open, table2, open2, X) ==
  /\ \A f \in X : \A p : ~Linked(table, f, p) /\ ~Linked(table2, f, p)
  /\ DOMAIN table2 \ X = DOMAIN table \ X
  /\ \A f \in DOMAIN table \ X : /\ table2[f] = table[f]
                                 /\ open2[f].gen = open[f].gen /\ open2[f].todo = open[f].todo
                                 /\ open2[f].inq = open[f].inq /\ open2[f].given = open[f].given

LEMMA ApartWays ==
  ASSUME NEW table, NEW open, NEW table2, NEW open2, NEW X, Apart(table, open, table2, open2, X)
  PROVE  Ways(table2, open2) = Ways(table, open)
<1>1. \A f, p : Linked(table, f, p) => Linked(table, p, f)
  BY DEF Linked
<1>2. \A f, p : Linked(table2, f, p) => Linked(table2, p, f)
  BY DEF Linked
<1>3. ASSUME NEW f, NEW p PROVE Linked(table2, f, p) <=> Linked(table, f, p)
  <2>1. CASE f \in X \/ p \in X
    BY <1>1, <1>2, <2>1 DEF Apart
  <2>2. CASE f \notin X /\ p \notin X
    BY <2>2 DEF Linked, Apart
  <2> QED BY <2>1, <2>2
<1>4. ASSUME NEW f, NEW p, Linked(table, f, p)
      PROVE  Flowing(table2, open2, f, p) = Flowing(table, open, f, p)
  <2>1. f \in DOMAIN table \ X /\ p \in DOMAIN table \ X
    BY <1>1, <1>4 DEF Linked, Apart
  <2> QED BY <2>1 DEF Flowing, Apart
<1> QED BY <1>3, <1>4, QuietWays

(* What one end sends is on no way but its own: elsewhere it would have come *)
(* by a link, and its link leads to its own peer.                            *)
LEMMA WaysUnmixed ==
  ASSUME NEW table, NEW open, NEW n, Typed(table, open), Sources(table, open, n),
         \A f, g \in DOMAIN open : open[f].gen = open[g].gen => f = g,
         NEW f, NEW p, Linked(table, f, p), NEW h, NEW q, Linked(table, h, q), <<f, p>> # <<h, q>>
  PROVE  /\ Flowing(table, open, f, p).sender # Flowing(table, open, h, q).sender
         /\ Flowing(table, open, f, p).sender \notin
              T!Origins(Flowing(table, open, h, q).transit) \cup T!Origins(Flowing(table, open, h, q).given)
<1>1. /\ f \in DOMAIN table /\ p \in DOMAIN table /\ h \in DOMAIN table /\ q \in DOMAIN table
      /\ f # h /\ p # q /\ table[f].peer = p
  BY DEF Linked
<1>2. open[f].gen # open[h].gen
  BY <1>1 DEF Typed
<1> DEFINE g == open[f].gen
           gens == Linking(table, open, q, n)
           more == gens \cup {open[h].gen}
           send == table[q].send
           recv == table[h].recv
           inq == open[h].inq
           given == open[q].given
<1>3. g \notin more
  <2>1. g \notin gens
    BY <1>1 DEF Linking
  <2> QED BY <1>2, <2>1
<1>4. /\ send \in Seq(Piece) /\ recv \in Seq(Piece) /\ inq \in Seq(Piece) /\ given \in Seq(Piece)
      /\ From(send, more) /\ From(recv, more) /\ From(inq, more) /\ From(given, more)
  <2>1. send \in Seq(Piece) /\ recv \in Seq(Piece) /\ inq \in Seq(Piece) /\ given \in Seq(Piece)
    BY <1>1, Pieces
  <2>2. From(send, gens) /\ From(given, gens)
    BY <1>1 DEF Sources, SourcesOf
  <2>3. From(recv, {open[h].gen}) /\ From(inq, {open[h].gen})
    BY <1>1 DEF Sources, SourcesOf
  <2> HIDE DEF send, recv, inq, given, gens
  <2>4. gens \subseteq more /\ {open[h].gen} \subseteq more
    OBVIOUS
  <2> HIDE DEF more
  <2> QED BY <2>1, <2>2, <2>3, <2>4, FromWider
<1>5. /\ Flowing(table, open, f, p).sender = g /\ Flowing(table, open, h, q).sender = open[h].gen
      /\ Flowing(table, open, h, q).transit = send \o recv \o inq
      /\ Flowing(table, open, h, q).given = given
  BY DEF Flowing
<1> HIDE DEF send, recv, inq, given, more, g
<1>6. send \o recv \in Seq(Piece) /\ From(send \o recv, more)
  BY <1>4, FromConcat
<1>7. (send \o recv) \o inq \in Seq(Piece) /\ From((send \o recv) \o inq, more)
  <2> DEFINE sr == send \o recv
  <2>1. sr \in Seq(Piece) /\ From(sr, more)
    BY <1>6
  <2> HIDE DEF sr
  <2>2. sr \o inq \in Seq(Piece) /\ From(sr \o inq, more)
    BY <1>4, <2>1, FromConcat
  <2> QED BY <2>2 DEF sr
<1>8. T!Origins((send \o recv) \o inq) \subseteq more /\ T!Origins(given) \subseteq more
  <2> DEFINE all == (send \o recv) \o inq
  <2>1. all \in Seq(Piece) /\ From(all, more)
    BY <1>7
  <2> HIDE DEF all
  <2>2. T!Origins(all) \subseteq more /\ T!Origins(given) \subseteq more
    BY <1>4, <2>1, FromOrigins
  <2> QED BY <2>2 DEF all
<1> QED BY <1>2, <1>3, <1>5, <1>8 DEF g

LEMMA NeverMixed == IInv /\ Genuine /\ FifoInv => T!Unmixed
<1> SUFFICES ASSUME IInv, Genuine, FifoInv PROVE T!Unmixed
  OBVIOUS
<1> DEFINE W == Ways(connections, sockets)
<1>1. Flows = W /\ DOMAIN W = LinkedWays(connections)
  BY FlowsAreWays DEF Ways
<1>2. /\ Typed(connections, sockets) /\ Sources(connections, sockets, made)
      /\ \A f, g \in DOMAIN sockets : sockets[f].gen = sockets[g].gen => f = g
  BY TablesTyped DEF FifoInv, Genuine, LinksInv
<1>3. ASSUME NEW way \in DOMAIN W, NEW other \in DOMAIN W, way # other
      PROVE  /\ W[way].sender # W[other].sender
             /\ W[way].sender \notin T!Origins(W[other].transit) \cup T!Origins(W[other].given)
  <2>1. PICK f \in Fd, p \in Fd : way = <<f, p>> /\ Linked(connections, f, p)
    BY <1>1 DEF LinkedWays
  <2>2. PICK h \in Fd, q \in Fd : other = <<h, q>> /\ Linked(connections, h, q)
    BY <1>1 DEF LinkedWays
  <2>3. /\ W[way] = Flowing(connections, sockets, f, p)
        /\ W[other] = Flowing(connections, sockets, h, q)
    BY <1>1, <2>1, <2>2 DEF Ways
  <2>4. <<f, p>> # <<h, q>>
    BY <1>3, <2>1, <2>2
  <2> HIDE DEF W
  <2> QED BY <1>2, <2>1, <2>2, <2>3, <2>4, WaysUnmixed
<1> HIDE DEF W
<1> QED BY <1>1, <1>3 DEF T!Unmixed

LEMMA NeverMixedNext == IInv' /\ Genuine' /\ FifoInv' => T!Unmixed'
<1>1. (IInv /\ Genuine /\ FifoInv => T!Unmixed)'
  BY NeverMixed, PTL
<1> QED BY <1>1

-----------------------------------------------------------------------------
(* The steps outside the readable half. *)

(* What a step owes: the invariant, and a step of Tunnels or none. *)
Fifo == FifoInv' /\ (Flows' = Flows \/ T!Next)

LEMMA QuietStep ==
  ASSUME IInv, IInv', Ways(connections', sockets') = Ways(connections, sockets)
  PROVE  Flows' = Flows
BY FlowsAreWays, FlowsAreWaysNext

(* Connections go. *)
LEMMA ShutStep ==
  ASSUME IInv, IInv', DOMAIN connections' \subseteq DOMAIN connections,
         \A f \in DOMAIN connections' : connections'[f] = connections[f] /\ sockets'[f] = sockets[f]
  PROVE  T!Next
<1> DEFINE W == Ways(connections, sockets)
           W2 == Ways(connections', sockets')
<1>1. Flows = W /\ Flows' = W2
  BY FlowsAreWays, FlowsAreWaysNext
<1>2. \A f, p : Linked(connections', f, p) <=>
        Linked(connections, f, p) /\ f \in DOMAIN connections' /\ p \in DOMAIN connections'
  BY DEF Linked
<1>3. \A f, p : Linked(connections, f, p) => Linked(connections, p, f)
  BY DEF Linked
<1>4. DOMAIN W = LinkedWays(connections) /\ DOMAIN W2 = LinkedWays(connections')
  BY DEF Ways
<1>5. DOMAIN W2 \subseteq DOMAIN W
  BY <1>2, <1>4 DEF LinkedWays
<1>6. \A way \in DOMAIN W \ DOMAIN W2 : <<way[2], way[1]>> \notin DOMAIN W2
  BY <1>2, <1>3, <1>4 DEF LinkedWays
<1>7. \A way \in DOMAIN W2 : W2[way] = W[way]
  <2>1. ASSUME NEW f, NEW p, Linked(connections', f, p)
        PROVE  Flowing(connections', sockets', f, p) = Flowing(connections, sockets, f, p)
    <3>1. f \in DOMAIN connections' /\ p \in DOMAIN connections'
      BY <2>1 DEF Linked
    <3> QED BY <3>1 DEF Flowing
  <2>2. ASSUME NEW way \in DOMAIN W2 PROVE W2[way] = W[way]
    <3>1. Linked(connections', way[1], way[2]) /\ way \in DOMAIN W
      BY <1>4, <1>5, <2>2 DEF LinkedWays
    <3>2. /\ W2[way] = Flowing(connections', sockets', way[1], way[2])
          /\ W[way] = Flowing(connections, sockets, way[1], way[2])
      BY <1>4, <2>2, <3>1 DEF Ways
    <3> QED BY <2>1, <3>1, <3>2
  <2> QED BY <2>2
<1> HIDE DEF W, W2
<1>8. T!Shut
  BY <1>1, <1>5, <1>6, <1>7 DEF T!Shut, T!Kept
<1> QED BY <1>8 DEF T!Next

(* A connection that keeps what it holds, and to which no link is lost. *)
LEMMA SourcesStay ==
  ASSUME NEW table, NEW open, NEW table2, NEW open2, NEW f, NEW n \in Nat, NEW m \in Nat, n <= m,
         SourcesOf(table, open, f, n), LinksStay(table, open, table2, open2, f, n),
         table2[f].send = table[f].send, table2[f].recv = table[f].recv,
         open2[f].gen = open[f].gen, open2[f].inq = open[f].inq, open2[f].given = open[f].given
  PROVE  SourcesOf(table2, open2, f, m)
<1> DEFINE gens == Linking(table, open, f, n)
           more == Linking(table2, open2, f, m)
<1>1. gens \subseteq more
  BY LinkingStays
<1>2. From(table[f].send, gens) /\ From(open[f].given, gens)
  BY DEF SourcesOf
<1> HIDE DEF gens, more
<1>3. From(table2[f].send, more) /\ From(open2[f].given, more)
  BY <1>1, <1>2, FromWider
<1> QED BY <1>3 DEF SourcesOf, more

LEMMA HaltFifo == ASSUME IInv, IInv', NEW how, Halt(how) PROVE Fifo
<1>1. DOMAIN connections' = {}
  BY NothingThere DEF Halt
<1>2. FifoInv'
  BY <1>1 DEF FifoInv, Sources
<1> QED BY <1>1, <1>2, ShutStep DEF Fifo

LEMMA EraseFifo ==
  ASSUME IInv, IInv', FifoInv, NEW fd \in Fd, EraseConnection(fd) PROVE Fifo
<1>1. /\ DOMAIN connections' = DOMAIN connections \ {fd} /\ DOMAIN sockets = DOMAIN connections
      /\ \A f \in DOMAIN connections' : connections'[f] = connections[f] /\ sockets'[f] = sockets[f]
      /\ made' = made
  BY DEF EraseConnection, Erased, Restrict, IInv, TablesAgree
<1>2. made \in Nat /\ made <= made
  BY DEF IInv, TypeOK
<1>3. ASSUME NEW f \in DOMAIN connections' PROVE SourcesOf(connections', sockets', f, made)
  <2> DEFINE table2 == connections'
             open2 == sockets'
  <2>1. LinksStay(connections, sockets, table2, open2, f, made)
    BY <1>1 DEF LinksStay
  <2>2. table2[f] = connections[f] /\ open2[f] = sockets[f] /\ SourcesOf(connections, sockets, f, made)
    BY <1>1 DEF FifoInv, Sources
  <2> HIDE DEF table2, open2
  <2>3. SourcesOf(table2, open2, f, made)
    BY <1>2, <2>1, <2>2, SourcesStay
  <2> QED BY <2>3 DEF table2, open2
<1>4. FifoInv'
  BY <1>1, <1>3 DEF FifoInv, Sources
<1> QED BY <1>1, <1>4, ShutStep DEF Fifo

(* A connection is accepted: it belongs to no tunnel. *)
LEMMA AcceptFifo ==
  ASSUME IInv, IInv', FifoInv, AcceptOne PROVE Fifo
<1>1. PICK fd \in Fd \ DOMAIN sockets : \E stream \in ClientStreams : Accepted(fd, stream)
  BY DEF AcceptOne, Lowest
<1>2. PICK stream \in ClientStreams : Accepted(fd, stream)
  BY <1>1
<1>3. DOMAIN sockets = DOMAIN connections /\ NoFd \notin DOMAIN connections /\ made \in Nat
  BY Descriptors DEF IInv, TablesAgree, TypeOK
<1>4. /\ DOMAIN connections' = DOMAIN connections \cup {fd} /\ fd \notin DOMAIN connections /\ fd \in Fd
      /\ connections'[fd] = NewConnection("Client", NoFd)
      /\ sockets'[fd] = NewSocket(made + 1, stream, TRUE, {})
      /\ \A f \in DOMAIN connections : connections'[f] = connections[f] /\ sockets'[f] = sockets[f]
      /\ made' = made + 1
  BY <1>2, <1>3 DEF Accepted, Put
<1>5. connections'[fd].peer = NoFd /\ connections'[fd].recv = <<>> /\ connections'[fd].send = <<>>
  BY <1>4 DEF NewConnection
<1>6. sockets'[fd].inq = <<>> /\ sockets'[fd].given = <<>> /\ sockets'[fd].gen = made + 1
  BY <1>4 DEF NewSocket
<1> DEFINE table2 == connections'
           open2 == sockets'
<1>7. ASSUME NEW f \in DOMAIN connections PROVE SourcesOf(connections', sockets', f, made')
  <2>1. LinksStay(connections, sockets, table2, open2, f, made)
    BY <1>4, <1>6 DEF LinksStay
  <2>2. table2[f] = connections[f] /\ open2[f] = sockets[f] /\ SourcesOf(connections, sockets, f, made)
    BY <1>4 DEF FifoInv, Sources
  <2>3. made + 1 \in Nat /\ made <= made + 1 /\ made \in Nat
    BY <1>3
  <2> HIDE DEF table2, open2
  <2>4. SourcesOf(table2, open2, f, made + 1)
    BY <2>1, <2>2, <2>3, SourcesStay
  <2> QED BY <1>4, <2>4 DEF table2, open2
<1>8. SourcesOf(connections', sockets', fd, made')
  <2>1. sockets'[fd].gen # 0
    BY <1>3, <1>6
  <2> QED BY <1>5, <1>6, <2>1 DEF SourcesOf, From
<1>9. FifoInv'
  BY <1>4, <1>7, <1>8 DEF FifoInv, Sources
<1>10. \A f \in {fd} : \A p : ~Linked(connections, f, p) /\ ~Linked(connections', f, p)
  BY <1>3, <1>4, <1>5, Descriptors DEF Linked
<1>11. Ways(connections', sockets') = Ways(connections, sockets)
  <2> DEFINE X == {fd}
  <2>1. DOMAIN table2 \ X = DOMAIN connections \ X
    BY <1>4
  <2>2. \A f \in X : \A p : ~Linked(connections, f, p) /\ ~Linked(table2, f, p)
    BY <1>10
  <2>3. \A f \in DOMAIN connections \ X :
          /\ table2[f] = connections[f]
          /\ open2[f].gen = sockets[f].gen /\ open2[f].todo = sockets[f].todo
          /\ open2[f].inq = sockets[f].inq /\ open2[f].given = sockets[f].given
    BY <1>4
  <2> HIDE DEF X, table2, open2
  <2>4. Apart(connections, sockets, table2, open2, X)
    BY <2>1, <2>2, <2>3 DEF Apart
  <2> QED BY <2>4, ApartWays DEF table2, open2
<1> QED BY <1>9, <1>11, QuietStep DEF Fifo

(* A remote end acts. *)
LEMMA RemoteLinks ==
  ASSUME IInv, NEW fd, NEW s, Remote(fd, s), s.given = sockets[fd].given
  PROVE  /\ connections' = connections /\ made' = made
         /\ \A f, p \in Fd : Linked(connections', f, p) <=> Linked(connections, f, p)
         /\ \A f, p \in Fd : Linked(connections, f, p) /\ f # fd =>
              Flowing(connections', sockets', f, p)
              = Flowing(connections, sockets, f, p)
<1>1. connections' = connections /\ made' = made /\ sockets' = [sockets EXCEPT ![fd] = s]
  BY DEF Remote
<1>2. \A f \in DOMAIN connections \ {fd} : sockets'[f] = sockets[f]
  BY <1>1 DEF IInv, TablesAgree
<1>3. \A f, p : Linked(connections, f, p) => f \in DOMAIN connections /\ p \in DOMAIN connections
  BY DEF Linked
<1>4. \A f \in DOMAIN connections : sockets'[f].given = sockets[f].given
  BY <1>1 DEF IInv, TablesAgree
<1> QED BY <1>1, <1>2, <1>3, <1>4 DEF Flowing

(* A step of the remote end of fd is a step on the way from fd, if there is *)
(* one, and otherwise of no tunnel.                                          *)
LEMMA RemoteFifo ==
  ASSUME IInv, IInv', NEW fd \in DOMAIN connections, NEW s, Remote(fd, s),
         s.given = sockets[fd].given
  PROVE  \/ Flows' = Flows
         \/ \E p \in Fd : /\ Linked(connections, fd, p)
                          /\ <<fd, p>> \in DOMAIN Flows
                          /\ Flows[<<fd, p>>] = Flowing(connections, sockets, fd, p)
                          /\ Flows' = [Flows EXCEPT ![<<fd, p>>] =
                                         Flowing(connections, [sockets EXCEPT ![fd] = s], fd, p)]
<1>1. fd \in Fd /\ fd \in DOMAIN sockets
  BY DEF IInv, TypeOK, TablesAgree
<1>2. sockets' = [sockets EXCEPT ![fd] = s] /\ connections' = connections
  BY DEF Remote
<1>3. Flows = Ways(connections, sockets) /\ Flows' = Ways(connections', sockets')
  BY FlowsAreWays, FlowsAreWaysNext
<1>4. /\ \A f, p \in Fd : Linked(connections', f, p) <=> Linked(connections, f, p)
      /\ \A f, p \in Fd : Linked(connections, f, p) /\ f # fd =>
           Flowing(connections', sockets', f, p)
           = Flowing(connections, sockets, f, p)
  BY RemoteLinks
<1>5. CASE \E p \in Fd : Linked(connections, fd, p)
  <2>1. PICK p \in Fd : Linked(connections, fd, p)
    BY <1>5
  <2>2. /\ <<fd, p>> \in DOMAIN Ways(connections, sockets)
        /\ Ways(connections, sockets)[<<fd, p>>] = Flowing(connections, sockets, fd, p)
        /\ Ways(connections', sockets') =
             [Ways(connections, sockets) EXCEPT ![<<fd, p>>] =
                Flowing(connections', sockets', fd, p)]
    <3> DEFINE table2 == connections'
               open2 == sockets'
    <3>1. /\ \A f, q \in Fd : Linked(table2, f, q) <=> Linked(connections, f, q)
          /\ \A f, q \in Fd : Linked(connections, f, q) /\ f # fd =>
               Flowing(table2, open2, f, q) = Flowing(connections, sockets, f, q)
      BY <1>4
    <3> HIDE DEF table2, open2
    <3>2. /\ <<fd, p>> \in DOMAIN Ways(connections, sockets)
          /\ Ways(connections, sockets)[<<fd, p>>] = Flowing(connections, sockets, fd, p)
          /\ Ways(table2, open2) =
               [Ways(connections, sockets) EXCEPT ![<<fd, p>>] = Flowing(table2, open2, fd, p)]
      BY <1>1, <2>1, <3>1, OneWay, SMTT(30)
    <3> QED BY <3>2 DEF table2, open2
  <2> QED BY <1>2, <1>3, <2>1, <2>2
<1>6. CASE ~ \E p \in Fd : Linked(connections, fd, p)
  <2>1. \A f, p \in Fd : Linked(connections, f, p) => f # fd
    BY <1>6
  <2>2. Ways(connections', sockets') = Ways(connections, sockets)
    BY <1>4, <2>1, QuietWays
  <2> QED BY <1>3, <2>2
<1> QED BY <1>5, <1>6

(* What `from' has still to send, piece by piece. *)
LEMMA UnsentPieces ==
  ASSUME NEW todo \in Seq(InputKinds), NEW gen \in Nat
  PROVE  LET unsent == [ i \in DOMAIN todo |-> [kind |-> todo[i], src |-> gen] ]
         IN /\ unsent \in Seq(Input) /\ Len(unsent) = Len(todo)
            /\ todo # <<>> =>
                 /\ unsent # <<>> /\ Head(unsent) = [kind |-> Head(todo), src |-> gen]
                 /\ Tail(unsent) = [ i \in DOMAIN Tail(todo) |-> [kind |-> Tail(todo)[i], src |-> gen] ]
<1> DEFINE L == Len(todo)
           unsent == [ i \in DOMAIN todo |-> [kind |-> todo[i], src |-> gen] ]
<1>1. DOMAIN todo = 1..L /\ L \in Nat /\ \A i \in 1..L : todo[i] \in InputKinds
  OBVIOUS
<1> HIDE DEF L
<1>2. unsent \in [1..L -> Input]
  BY <1>1 DEF Input
<1>3. unsent \in Seq(Input) /\ Len(unsent) = L
  <2> HIDE DEF unsent
  <2>1. unsent \in Seq(Input)
    BY <1>1, <1>2, SeqDef
  <2> QED BY <1>1, <1>2, <2>1, LenProperties
<1>4. ASSUME todo # <<>>
      PROVE  /\ unsent # <<>> /\ Head(unsent) = [kind |-> Head(todo), src |-> gen]
             /\ Tail(unsent) = [ i \in DOMAIN Tail(todo) |-> [kind |-> Tail(todo)[i], src |-> gen] ]
  <2>1. L # 0 /\ 1 \in 1..L /\ Head(todo) = todo[1]
    BY <1>1, <1>4, EmptySeq DEF L
  <2>2. unsent[1] = [kind |-> Head(todo), src |-> gen]
    BY <1>1, <2>1
  <2>3. unsent # <<>> /\ Head(unsent) = unsent[1]
    <3> HIDE DEF unsent
    <3> QED BY <1>3, <2>1
  <2>4. Tail(todo) \in Seq(InputKinds) /\ Len(Tail(todo)) = L - 1
        /\ \A i \in 1..L - 1 : Tail(todo)[i] = todo[i + 1]
    BY <1>4, HeadTailProperties DEF L
  <2>5. Tail(unsent) \in Seq(Input) /\ Len(Tail(unsent)) = L - 1
        /\ \A i \in 1..L - 1 : Tail(unsent)[i] = unsent[i + 1]
    <3> HIDE DEF unsent
    <3> QED BY <1>3, <2>3, HeadTailProperties
  <2>6. DOMAIN Tail(todo) = 1..L - 1 /\ DOMAIN Tail(unsent) = 1..L - 1
    BY <2>4, <2>5, LenProperties
  <2>7. \A i \in 1..L - 1 : Tail(unsent)[i] = [kind |-> Tail(todo)[i], src |-> gen]
    <3> TAKE i \in 1..L - 1
    <3>1. i + 1 \in 1..L
      BY <1>1
    <3>2. unsent[i + 1] = [kind |-> todo[i + 1], src |-> gen]
      BY <1>1, <3>1
    <3> QED BY <2>4, <2>5, <3>2
  <2>8. Tail(unsent) = [ i \in DOMAIN Tail(unsent) |-> Tail(unsent)[i] ]
    BY <2>5
  <2> HIDE DEF unsent
  <2>9. Tail(unsent) = [ i \in DOMAIN Tail(todo) |-> [kind |-> Tail(todo)[i], src |-> gen] ]
    BY <2>6, <2>7, <2>8
  <2> QED BY <2>2, <2>3, <2>9
<1> QED BY <1>3, <1>4 DEF L

(* The links stay, but for those to nobody that is there. *)
PeersStay(table, table2) ==
  /\ DOMAIN table2 = DOMAIN table
  /\ \A x \in DOMAIN table : table2[x].peer = table[x].peer \/ table[x].peer \notin DOMAIN table

LEMMA PeersKeepLinks ==
  ASSUME NEW table, NEW open, NEW table2, NEW open2, PeersStay(table, table2),
         \A x \in DOMAIN table : open2[x].gen = open[x].gen,
         NEW f \in DOMAIN table, NEW n
  PROVE  LinksStay(table, open, table2, open2, f, n)
BY DEF PeersStay, LinksStay

(* A remote end that changes nothing of where pieces come from. *)
LEMMA RemoteSources ==
  ASSUME IInv, FifoInv, NEW fd \in DOMAIN connections, NEW s, Remote(fd, s),
         s.gen = sockets[fd].gen, s.given = sockets[fd].given, From(s.inq, {s.gen})
  PROVE  FifoInv'
<1>1. /\ connections' = connections /\ made' = made /\ sockets' = [sockets EXCEPT ![fd] = s]
      /\ DOMAIN sockets = DOMAIN connections /\ made \in Nat
  BY DEF Remote, IInv, TablesAgree, TypeOK
<1> DEFINE open2 == [sockets EXCEPT ![fd] = s]
           last == made
<1>2. /\ open2[fd] = s
      /\ \A f \in DOMAIN connections \ {fd} : open2[f] = sockets[f]
      /\ \A f \in DOMAIN connections : open2[f].gen = sockets[f].gen /\ open2[f].given = sockets[f].given
  BY <1>1
<1>3. last \in Nat /\ last <= last /\ PeersStay(connections, connections)
  BY <1>1 DEF PeersStay
<1> HIDE DEF open2, last
<1>4. ASSUME NEW f \in DOMAIN connections PROVE SourcesOf(connections, open2, f, last)
  <2>1. SourcesOf(connections, sockets, f, last)
    BY DEF FifoInv, Sources, last
  <2>2. LinksStay(connections, sockets, connections, open2, f, last)
    BY <1>2, <1>3, PeersKeepLinks
  <2>3. CASE f = fd
    <3> DEFINE gens == Linking(connections, sockets, f, last)
               more == Linking(connections, open2, f, last)
    <3>1. gens \subseteq more
      BY <1>3, <2>2, LinkingStays
    <3>2. From(connections[f].send, gens) /\ From(sockets[f].given, gens)
      BY <2>1 DEF SourcesOf
    <3> HIDE DEF gens, more
    <3>3. From(connections[f].send, more) /\ From(open2[f].given, more)
      BY <1>2, <3>1, <3>2, FromWider
    <3>4. From(connections[f].recv, {open2[f].gen}) /\ open2[f].gen # 0
      BY <1>2, <2>1 DEF SourcesOf
    <3>5. From(open2[f].inq, {open2[f].gen})
      BY <1>2, <2>3
    <3> QED BY <3>3, <3>4, <3>5 DEF SourcesOf, more
  <2>4. CASE f # fd
    <3>1. open2[f] = sockets[f]
      BY <1>2, <2>4
    <3> QED BY <1>3, <2>1, <2>2, <3>1, SourcesStay
  <2> QED BY <2>3, <2>4
<1> QED BY <1>1, <1>4 DEF FifoInv, Sources, open2, last

LEMMA ArriveFifo ==
  ASSUME IInv, IInv', FifoInv, NEW fd \in DOMAIN connections, Arrive(fd) PROVE Fifo
<1> DEFINE s == sockets[fd]
           piece == [kind |-> Head(s.todo), src |-> s.gen]
           s2 == [s EXCEPT !.todo = Tail(s.todo), !.inq = Append(s.inq, piece)]
<1>1. Remote(fd, s2) /\ s.todo # <<>>
  BY DEF Arrive
<1>2. /\ s \in SocketType /\ s.todo \in Seq(InputKinds) /\ s.gen \in Nat /\ s.inq \in Seq(Piece)
      /\ fd \in DOMAIN sockets
  BY TablesTyped, Pieces DEF Typed
<1>3. /\ s2.todo = Tail(s.todo) /\ s2.inq = Append(s.inq, piece) /\ s2.gen = s.gen
      /\ s2.given = s.given
  BY <1>2 DEF SocketType
<1>4. piece \in Piece /\ piece.src = s.gen
  BY <1>1, <1>2 DEF Piece, Kinds
<1> HIDE DEF s2
<1>5. FifoInv'
  <2>1. From(s.inq, {s.gen})
    BY DEF FifoInv, Sources, SourcesOf
  <2>2. From(s2.inq, {s2.gen})
    <3> HIDE DEF piece, s
    <3> QED BY <1>2, <1>3, <1>4, <2>1, FromAppended
  <2> QED BY <1>1, <1>3, <2>2, RemoteSources
<1> DEFINE open2 == [sockets EXCEPT ![fd] = s2]
<1>6. ASSUME NEW p \in Fd, Linked(connections, fd, p), <<fd, p>> \in DOMAIN Flows,
             Flows[<<fd, p>>] = Flowing(connections, sockets, fd, p),
             Flows' = [Flows EXCEPT ![<<fd, p>>] = Flowing(connections, open2, fd, p)]
      PROVE  T!Next
  <2> DEFINE old == Flowing(connections, sockets, fd, p)
             new == Flowing(connections, open2, fd, p)
             a == connections[p].send
             r == connections[fd].recv
             unsent == [ i \in DOMAIN s.todo |-> [kind |-> s.todo[i], src |-> s.gen] ]
             less == [ i \in DOMAIN Tail(s.todo) |-> [kind |-> Tail(s.todo)[i], src |-> s.gen] ]
             given == sockets[p].given
             gen == s.gen
             before == a \o r \o s.inq
             after == a \o r \o s2.inq
  <2>1. unsent # <<>> /\ Head(unsent) = piece /\ Tail(unsent) = less
    BY <1>1, <1>2, UnsentPieces
  <2>2. old = [ sender |-> gen, unsent |-> unsent, transit |-> before, given |-> given ]
    BY DEF Flowing
  <2>3. new = [ sender |-> gen, unsent |-> less, transit |-> after, given |-> given ]
    <3>1. open2[fd] = s2 /\ open2[p].given = given
      BY <1>2, <1>3
    <3> HIDE DEF open2
    <3> QED BY <1>3, <3>1 DEF Flowing
  <2>4. a \in Seq(Piece) /\ r \in Seq(Piece)
    BY <1>6, TablesTyped, Pieces DEF Linked
  <2>5. after = Append(before, piece)
    <3> DEFINE ar == a \o r
               inq == s.inq
    <3> HIDE DEF a, r, s, piece
    <3>1. ar \in Seq(Piece) /\ inq \in Seq(Piece) /\ s2.inq = Append(inq, piece)
      BY <1>2, <1>3, <2>4, ConcatProperties
    <3> HIDE DEF ar, inq
    <3>2. ar \o Append(inq, piece) = Append(ar \o inq, piece)
      BY <1>4, <3>1, AppendBehind
    <3> QED BY <3>1, <3>2 DEF ar, inq
  <2>6. /\ <<fd, p>> \in DOMAIN Flows /\ Flows[<<fd, p>>] = old
        /\ Flows' = [Flows EXCEPT ![<<fd, p>>] = new]
    BY <1>6
  <2> HIDE DEF old, new, unsent, less, before, after, given, gen, s, piece
  <2>7. /\ old.unsent = unsent
        /\ [old EXCEPT !.unsent = Tail(@), !.transit = Append(@, Head(old.unsent))] = new
    <3>1. old.unsent = unsent /\ old.transit = before
      BY <2>2
    <3>2. [old EXCEPT !.unsent = less, !.transit = after] = new
      <4> DEFINE mid == [old EXCEPT !.unsent = less]
      <4>1. mid = [ sender |-> gen, unsent |-> less, transit |-> before, given |-> given ]
        BY <2>2
      <4> HIDE DEF mid
      <4>2. [mid EXCEPT !.transit = after] = new
        BY <2>3, <4>1
      <4> QED BY <4>2 DEF mid
    <3>3. Tail(old.unsent) = less /\ Append(old.transit, Head(old.unsent)) = after
      BY <2>1, <2>5, <3>1
    <3> QED BY <3>1, <3>2, <3>3
  <2>8. T!Send(<<fd, p>>)
    BY <2>1, <2>6, <2>7 DEF T!Send, T!OnWay
  <2> QED BY <2>6, <2>8 DEF T!Next
<1> QED BY <1>1, <1>3, <1>5, <1>6, RemoteFifo DEF Fifo

(* The end of a stream, a reset, and the end of a handshake. *)
LEMMA CeaseFifo ==
  ASSUME IInv, IInv', FifoInv, NEW fd \in DOMAIN connections,
         FinArrives(fd) \/ ResetArrives(fd) \/ ConnectCompletes(fd)
  PROVE  Fifo
<1> DEFINE s == sockets[fd]
<1>1. /\ s \in SocketType /\ s.todo \in Seq(InputKinds) /\ s.gen \in Nat /\ s.inq \in Seq(Piece)
      /\ fd \in DOMAIN sockets
  BY TablesTyped, Pieces DEF Typed
<1>2. PICK s2 : /\ Remote(fd, s2)
                /\ s2.gen = s.gen /\ s2.inq = s.inq /\ s2.given = s.given
                /\ (s2.todo = s.todo \/ s2.todo = <<>>)
  <2>1. CASE FinArrives(fd)
    <3> DEFINE t == [s EXCEPT !.fin = TRUE, !.todo = <<>>]
    <3>1. Remote(fd, t)
      BY <2>1 DEF FinArrives
    <3>2. t.gen = s.gen /\ t.inq = s.inq /\ t.given = s.given /\ t.todo = <<>>
      BY <1>1 DEF SocketType
    <3> HIDE DEF t
    <3> QED BY <3>1, <3>2
  <2>2. CASE ResetArrives(fd)
    <3> DEFINE t == [s EXCEPT !.err = "reset", !.todo = <<>>]
    <3>1. Remote(fd, t)
      BY <2>2 DEF ResetArrives
    <3>2. t.gen = s.gen /\ t.inq = s.inq /\ t.given = s.given /\ t.todo = <<>>
      BY <1>1 DEF SocketType
    <3> HIDE DEF t
    <3> QED BY <3>1, <3>2
  <2>3. CASE ConnectCompletes(fd)
    <3> DEFINE t == [s EXCEPT !.up = TRUE]
    <3>1. Remote(fd, t)
      BY <2>3 DEF ConnectCompletes
    <3>2. t.gen = s.gen /\ t.inq = s.inq /\ t.given = s.given /\ t.todo = s.todo
      BY <1>1 DEF SocketType
    <3> HIDE DEF t
    <3> QED BY <3>1, <3>2
  <2> QED BY <2>1, <2>2, <2>3
<1>3. FifoInv'
  <2>1. From(s.inq, {s.gen})
    BY DEF FifoInv, Sources, SourcesOf
  <2>2. From(s2.inq, {s2.gen})
    BY <1>2, <2>1
  <2> QED BY <1>2, <2>2, RemoteSources
<1> DEFINE open2 == [sockets EXCEPT ![fd] = s2]
<1>4. ASSUME NEW p \in Fd, <<fd, p>> \in DOMAIN Flows,
             Flows[<<fd, p>>] = Flowing(connections, sockets, fd, p),
             Flows' = [Flows EXCEPT ![<<fd, p>>] = Flowing(connections, open2, fd, p)]
      PROVE  Flows' = Flows \/ T!Next
  <2> DEFINE old == Flowing(connections, sockets, fd, p)
             new == Flowing(connections, open2, fd, p)
             transit == connections[p].send \o connections[fd].recv \o s.inq
             unsent == [ i \in DOMAIN s.todo |-> [kind |-> s.todo[i], src |-> s.gen] ]
             left == [ i \in DOMAIN s2.todo |-> [kind |-> s2.todo[i], src |-> s.gen] ]
             given == sockets[p].given
             gen == s.gen
  <2>1. old = [ sender |-> gen, unsent |-> unsent, transit |-> transit, given |-> given ]
    BY DEF Flowing
  <2>2. new = [ sender |-> gen, unsent |-> left, transit |-> transit, given |-> given ]
    <3>1. open2[fd] = s2 /\ open2[p].given = given
      BY <1>1, <1>2
    <3> HIDE DEF open2
    <3> QED BY <1>2, <3>1 DEF Flowing
  <2>3. left = unsent \/ left = <<>>
    <3>1. CASE s2.todo = s.todo
      BY <3>1
    <3>2. CASE s2.todo = <<>>
      BY <3>2
    <3> QED BY <1>2, <3>1, <3>2
  <2>4. /\ <<fd, p>> \in DOMAIN Flows /\ Flows[<<fd, p>>] = old
        /\ Flows' = [Flows EXCEPT ![<<fd, p>>] = new]
    BY <1>4
  <2>5. Flows = [ way \in DOMAIN Flows |-> Flows[way] ]
    <3>1. Flows = Ways(connections, sockets)
      BY FlowsAreWays
    <3> QED BY <3>1 DEF Ways
  <2> HIDE DEF old, new, transit, unsent, left, given, gen, s, open2
  <2>6. CASE left = unsent
    BY <2>1, <2>2, <2>4, <2>5, <2>6
  <2>7. CASE left = <<>>
    <3>1. [old EXCEPT !.unsent = <<>>] = new
      BY <2>1, <2>2, <2>7
    <3>2. T!Cease(<<fd, p>>)
      BY <2>4, <3>1 DEF T!Cease, T!OnWay
    <3> QED BY <2>4, <3>2 DEF T!Next
  <2> QED BY <2>3, <2>6, <2>7
<1> QED BY <1>2, <1>3, <1>4, RemoteFifo DEF Fifo

LEMMA EnvironmentFifo == ASSUME IInv, IInv', FifoInv, Environment PROVE Fifo
<1>1. DOMAIN sockets = DOMAIN connections
  BY DEF IInv, TablesAgree
<1>2. CASE ClientCalls
  <2>1. connections' = connections /\ sockets' = sockets /\ made' = made
    BY <1>2 DEF ClientCalls
  <2>2. FifoInv'
    BY <2>1 DEF FifoInv
  <2> QED BY <2>1, <2>2, QuietStep DEF Fifo
<1> QED BY <1>1, <1>2, ArriveFifo, CeaseFifo DEF Environment

-----------------------------------------------------------------------------
(* The writable half. *)

(* The links of the tunnels stay; a link to nobody may go. *)
SameTies(table, table2) ==
  /\ DOMAIN table2 = DOMAIN table /\ NoFd \notin DOMAIN table
  /\ \A f \in DOMAIN table :
       /\ table2[f].peer = table[f].peer \/ (table2[f].peer = NoFd /\ table[f].peer \notin DOMAIN table)
       /\ table2[f].proto = "Established" <=> table[f].proto = "Established"

LEMMA SameLinked ==
  ASSUME NEW table, NEW table2, SameTies(table, table2)
  PROVE  \A f, p : Linked(table2, f, p) <=> Linked(table, f, p)
<1> SUFFICES ASSUME NEW f, NEW p PROVE Linked(table2, f, p) <=> Linked(table, f, p)
  OBVIOUS
<1>1. CASE ~ (f \in DOMAIN table /\ p \in DOMAIN table)
  BY <1>1 DEF SameTies, Linked
<1>2. CASE f \in DOMAIN table /\ p \in DOMAIN table
  <2>1. /\ table2[f].peer = p <=> table[f].peer = p
        /\ table2[p].peer = f <=> table[p].peer = f
        /\ table2[f].proto = "Established" <=> table[f].proto = "Established"
        /\ table2[p].proto = "Established" <=> table[p].proto = "Established"
        /\ DOMAIN table2 = DOMAIN table
    BY <1>2 DEF SameTies
  <2> QED BY <1>2, <2>1 DEF Linked
<1> QED BY <1>1, <1>2

LEMMA WriteFifo == ASSUME IInv, IInv', FifoInv, NEW fd \in Fd, WriteEvent(fd) PROVE Fifo
<1> DEFINE c == connections[fd]
           out == c.send
           last == made
<1>1. fd \in DOMAIN connections /\ fd \in DOMAIN sockets /\ DOMAIN sockets = DOMAIN connections
  BY EventOpen DEF WriteEvent, Writing, IInv, TablesAgree
<1>2. PICK n \in 0..Len(out) : Written(fd, n) /\ sockets' = Sent(fd, n)
  BY DEF WriteEvent
<1> DEFINE front == SubSeq(out, 1, n)
           rest == SubSeq(out, n + 1, Len(out))
           left == [c EXCEPT !.peer = PeerOf(fd), !.send = rest, !.want = rest # <<>>]
           all == sockets[fd].given \o front
<1>3. connections' = [connections EXCEPT ![fd] = left] /\ made' = made
  BY <1>2 DEF WriteEvent, Written
<1>4. c \in ConnectionType /\ last \in Nat /\ out \in Seq(Piece)
  BY <1>1 DEF IInv, TypeOK, ConnectionType
<1>5. left.peer = PeerOf(fd) /\ left.send = rest /\ left.recv = c.recv /\ left.proto = c.proto
  <2> HIDE DEF rest
  <2> QED BY <1>4 DEF ConnectionType
<1> HIDE DEF left
<1> DEFINE table2 == connections'
           open2 == sockets'
<1>6. /\ DOMAIN open2 = DOMAIN sockets
      /\ \A f \in DOMAIN sockets : /\ open2[f].gen = sockets[f].gen
                                   /\ open2[f].inq = sockets[f].inq
                                   /\ open2[f].todo = sockets[f].todo
      /\ \A f \in DOMAIN sockets \ {fd} : open2[f].given = sockets[f].given
      /\ open2[fd].given = all
  <2> HIDE DEF all, front
  <2> DEFINE sent == Sent(fd, n)
  <2>1. DOMAIN sent = DOMAIN sockets
    BY <1>1, <1>2, SentGood
  <2>2. \A f \in DOMAIN sockets : sent[f].gen = sockets[f].gen
    BY <1>1, <1>2, SentGood
  <2>3. \A f \in DOMAIN sockets : sent[f].inq = sockets[f].inq
    BY <1>1, <1>2, SentGood
  <2>4. \A f \in DOMAIN sockets : sent[f].todo = sockets[f].todo
    BY <1>1, <1>2, SentGood
  <2>5. \A f \in DOMAIN sockets \ {fd} : sent[f].given = sockets[f].given
    BY <1>1, <1>2, SentGood
  <2>6. sent[fd].given = all
    BY <1>1, <1>2, SentGood DEF all, front
  <2> HIDE DEF sent
  <2> QED BY <1>2, <2>1, <2>2, <2>3, <2>4, <2>5, <2>6 DEF sent
<1>7. /\ DOMAIN table2 = DOMAIN connections /\ table2[fd] = left
      /\ \A f \in DOMAIN connections \ {fd} : table2[f] = connections[f]
  BY <1>1, <1>3
<1>8. /\ front \in Seq(Piece) /\ Len(front) = n /\ rest \in Seq(Piece) /\ front \o rest = out
      /\ n \in Nat
  <2> HIDE DEF out
  <2>1. n \in Nat
    BY <1>2
  <2> QED BY <1>2, <1>4, <2>1, Cut
<1> HIDE DEF table2, open2, front, rest, all
<1>9. PeersStay(connections, table2)
  <2>1. left.peer = c.peer \/ c.peer \notin DOMAIN connections
    BY <1>5 DEF PeerOf
  <2> QED BY <1>7, <2>1 DEF PeersStay
<1>10. FifoInv'
  <2>1. ASSUME NEW f \in DOMAIN connections PROVE SourcesOf(table2, open2, f, last)
    <3>1. SourcesOf(connections, sockets, f, last) /\ f \in DOMAIN sockets
      BY <1>1 DEF FifoInv, Sources
    <3>2. LinksStay(connections, sockets, table2, open2, f, last)
      BY <1>1, <1>6, <1>9, PeersKeepLinks
    <3>3. CASE f # fd
      <4>1. /\ table2[f] = connections[f] /\ open2[f].gen = sockets[f].gen
            /\ open2[f].inq = sockets[f].inq /\ open2[f].given = sockets[f].given
            /\ last <= last
        BY <1>4, <1>6, <1>7, <3>1, <3>3
      <4> QED BY <1>4, <3>1, <3>2, <4>1, SourcesStay
    <3>4. CASE f = fd
      <4> DEFINE gens == Linking(connections, sockets, fd, last)
                 more == Linking(table2, open2, fd, last)
                 given == sockets[fd].given
      <4>1. gens \subseteq more
        <5>1. last <= last
          BY <1>4
        <5> QED BY <1>4, <3>2, <3>4, <5>1, LinkingStays
      <4>2. From(out, gens) /\ From(given, gens) /\ given \in Seq(Piece)
        BY <1>1, <3>1, <3>4, TablesTyped, Pieces DEF SourcesOf
      <4> HIDE DEF gens, more, given, out
      <4>3. From(front, gens) /\ From(rest, gens)
        BY <1>2, <1>4, <4>2, FromParts DEF front, rest
      <4>4. From(given \o front, gens)
        BY <1>8, <4>2, <4>3, FromConcat
      <4> DEFINE both == given \o front
      <4>5. all = both /\ From(both, gens)
        BY <4>4 DEF all, given
      <4> HIDE DEF both
      <4>6. From(rest, more) /\ From(all, more)
        BY <4>1, <4>3, <4>5, FromWider
      <4>7. /\ From(c.recv, {sockets[fd].gen}) /\ From(sockets[fd].inq, {sockets[fd].gen})
            /\ sockets[fd].gen # 0
        BY <3>1, <3>4 DEF SourcesOf
      <4>8. /\ table2[fd].send = rest /\ table2[fd].recv = c.recv
            /\ open2[fd].gen = sockets[fd].gen /\ open2[fd].inq = sockets[fd].inq /\ open2[fd].given = all
        BY <1>1, <1>5, <1>6, <1>7
      <4>9. SourcesOf(table2, open2, fd, last)
        BY <4>6, <4>7, <4>8 DEF SourcesOf, more
      <4> QED BY <3>4, <4>9
    <3> QED BY <3>3, <3>4
  <2> QED BY <1>3, <1>7, <2>1 DEF FifoInv, Sources, table2, open2, last
<1>11. \A f, p : Linked(table2, f, p) <=> Linked(connections, f, p)
  <2>1. NoFd \notin DOMAIN connections
    BY Descriptors DEF IInv, TypeOK
  <2>2. left.peer = c.peer \/ (left.peer = NoFd /\ c.peer \notin DOMAIN connections)
    BY <1>5 DEF PeerOf
  <2>3. SameTies(connections, table2)
    BY <1>5, <1>7, <2>1, <2>2 DEF SameTies
  <2> QED BY <2>3, SameLinked
<1> DEFINE q == c.peer
<1>12. ASSUME NEW f, NEW p, Linked(connections, f, p), p # fd
       PROVE  Flowing(table2, open2, f, p) = Flowing(connections, sockets, f, p)
  <2>1. f \in DOMAIN sockets /\ p \in DOMAIN sockets
    BY <1>1, <1>12 DEF Linked
  <2>2. /\ table2[p] = connections[p] /\ table2[f].recv = connections[f].recv
        /\ open2[p].given = sockets[p].given
    BY <1>1, <1>5, <1>6, <1>7, <1>12, <2>1
  <2> QED BY <1>6, <2>1, <2>2 DEF Flowing
<1>13. CASE Linked(connections, q, fd)
  <2> DEFINE r == connections[q].recv
             i == sockets[q].inq
             todo == sockets[q].todo
             gen == sockets[q].gen
             given == sockets[fd].given
             unsent == [ k \in DOMAIN todo |-> [kind |-> todo[k], src |-> gen] ]
             before == out \o r \o i
             after == rest \o r \o i
             old == Flowing(connections, sockets, q, fd)
             new == Flowing(table2, open2, q, fd)
  <2>1. q \in DOMAIN connections /\ q \in DOMAIN sockets /\ q # fd /\ q \in Fd
    <3>1. q # fd
      BY <1>1 DEF IInv, UpstreamAfterGrant
    <3> QED BY <1>13, <3>1 DEF Linked, IInv, TablesAgree, TypeOK
  <2>2. /\ <<q, fd>> \in DOMAIN Flows /\ Flows[<<q, fd>>] = old
        /\ Flows' = [Flows EXCEPT ![<<q, fd>>] = new]
    <3>1. \A f, p : Linked(connections, f, p) /\ f # q => p # fd
      BY DEF Linked
    <3>2. /\ \A f, p \in Fd : Linked(table2, f, p) <=> Linked(connections, f, p)
          /\ \A f, p \in Fd : Linked(connections, f, p) /\ f # q =>
               Flowing(table2, open2, f, p) = Flowing(connections, sockets, f, p)
      BY <1>11, <1>12, <3>1
    <3> HIDE DEF q
    <3>3. /\ <<q, fd>> \in DOMAIN Ways(connections, sockets)
          /\ Ways(connections, sockets)[<<q, fd>>] = Flowing(connections, sockets, q, fd)
          /\ Ways(table2, open2) =
               [Ways(connections, sockets) EXCEPT ![<<q, fd>>] = Flowing(table2, open2, q, fd)]
      BY <1>13, <2>1, <3>2, OneWay
    <3> QED BY <3>3, FlowsAreWays, FlowsAreWaysNext DEF table2, open2
  <2>3. old = [ sender |-> gen, unsent |-> unsent, transit |-> before, given |-> given ]
    BY DEF Flowing
  <2>4. new = [ sender |-> gen, unsent |-> unsent, transit |-> after, given |-> all ]
    <3>1. table2[q] = connections[q] /\ table2[fd].send = rest /\ open2[fd].given = all
      BY <1>5, <1>6, <1>7, <2>1
    <3>2. open2[q].gen = gen /\ open2[q].inq = i /\ open2[q].todo = todo
      BY <1>6, <2>1
    <3> HIDE DEF q
    <3> QED BY <3>1, <3>2 DEF Flowing
  <2>5. before = front \o after /\ front \in Seq(Piece) /\ after \in Seq(Piece)
    <3>1. r \in Seq(Piece) /\ i \in Seq(Piece)
      BY <2>1, TablesTyped, Pieces
    <3> HIDE DEF r, i, out
    <3>2. front \in Seq(Piece) /\ rest \in Seq(Piece)
      BY <1>8
    <3>3. Regroups(front, rest, r, i) /\ rest \o r \o i \in Seq(Piece)
      BY <3>1, <3>2, Regrouped, ThreeTyped
    <3>4. out = front \o rest
      BY <1>8
    <3> DEFINE whole == ((front \o rest) \o r) \o i
    <3>5. before = whole
      BY <3>4
    <3>6. whole = front \o after
      BY <3>3 DEF Regroups
    <3>7. after \in Seq(Piece)
      BY <3>3
    <3> HIDE DEF whole, before, after
    <3> QED BY <3>2, <3>5, <3>6, <3>7
  <2>6. given \in Seq(Piece) /\ all = given \o front
    BY <1>1, TablesTyped, Pieces DEF all
  <2> HIDE DEF r, i, todo, gen, given, unsent, before, after, old, new, out
  <2>7. /\ SubSeq(before, 1, n) = front /\ SubSeq(before, n + 1, Len(before)) = after
        /\ n # 0 => n \in 1..Len(before)
    <3>1. /\ SubSeq(front \o after, 1, Len(front)) = front
          /\ SubSeq(front \o after, Len(front) + 1, Len(front \o after)) = after
          /\ Len(front) # 0 => Len(front) \in 1..Len(front \o after)
      BY <2>5, Behind
    <3> QED BY <1>8, <2>5, <3>1
  <2>8. old.transit = before /\ old.given = given
    BY <2>3
  <2>9. CASE n = 0
    <3>1. front = <<>>
      BY <1>8, <2>9, EmptySeq
    <3>2. before = after /\ all = given
      <4>1. <<>> \o after = after /\ given \o <<>> = given
        BY <2>5, <2>6, ConcatEmptySeq
      <4> QED BY <2>5, <2>6, <3>1, <4>1
    <3>3. new = old
      BY <2>3, <2>4, <3>2
    <3>4. Flows = [ way \in DOMAIN Flows |-> Flows[way] ]
      <4>1. Flows = Ways(connections, sockets)
        BY FlowsAreWays
      <4> QED BY <4>1 DEF Ways
    <3>5. Flows' = Flows
      BY <2>2, <3>3, <3>4
    <3> QED BY <1>10, <3>5 DEF Fifo
  <2>10. CASE n # 0
    <3>1. [old EXCEPT !.transit = SubSeq(before, n + 1, Len(before)),
                      !.given = @ \o SubSeq(before, 1, n)] = new
      <4> DEFINE mid == [old EXCEPT !.transit = after]
      <4>1. mid = [ sender |-> gen, unsent |-> unsent, transit |-> after, given |-> given ]
        BY <2>3
      <4>2. [old EXCEPT !.transit = SubSeq(before, n + 1, Len(before)),
                        !.given = @ \o SubSeq(before, 1, n)]
            = [old EXCEPT !.transit = after, !.given = all]
        BY <2>6, <2>7, <2>8
      <4> HIDE DEF mid
      <4>3. [mid EXCEPT !.given = all] = new
        BY <2>4, <4>1
      <4> QED BY <4>2, <4>3 DEF mid
    <3>2. T!Deliver(<<q, fd>>, n)
      BY <2>2, <2>8, <3>1 DEF T!Deliver, T!OnWay
    <3>3. n \in 1..Len(Flows[<<q, fd>>].transit)
      BY <2>2, <2>7, <2>8, <2>10
    <3>4. T!Next
      BY <2>2, <3>2, <3>3 DEF T!Next
    <3> QED BY <1>10, <3>4 DEF Fifo
  <2> QED BY <2>9, <2>10
<1>14. CASE ~Linked(connections, q, fd)
  <2>1. \A f, p : Linked(connections, f, p) => p # fd
    BY <1>14 DEF Linked
  <2>2. /\ \A f, p \in Fd : Linked(table2, f, p) <=> Linked(connections, f, p)
        /\ \A f, p \in Fd : Linked(connections, f, p) =>
             Flowing(table2, open2, f, p) = Flowing(connections, sockets, f, p)
    BY <1>11, <1>12, <2>1
  <2>3. Ways(table2, open2) = Ways(connections, sockets)
    BY <2>2, QuietWays
  <2> QED BY <1>10, <2>3, QuietStep DEF Fifo, table2, open2
<1> QED BY <1>13, <1>14

-----------------------------------------------------------------------------
(* The readable half. *)

LEMMA DrainedData ==
  ASSUME IInv, NEW fd \in DOMAIN connections
  PROVE  /\ DOMAIN Drained(fd) = DOMAIN connections
         /\ \A f \in DOMAIN connections : /\ Drained(fd)[f] \in SocketType
                                          /\ Drained(fd)[f].gen = sockets[f].gen
                                          /\ Drained(fd)[f].todo = sockets[f].todo
                                          /\ Drained(fd)[f].given = sockets[f].given
         /\ Drained(fd)[fd].inq = <<>>
         /\ \A f \in DOMAIN connections \ {fd} : Drained(fd)[f].inq = sockets[f].inq
<1>1. DOMAIN sockets = DOMAIN connections /\ \A f \in DOMAIN sockets : sockets[f] \in SocketType
  BY DEF IInv, TablesAgree, TypeOK
<1>2. \A f \in DOMAIN sockets : /\ Drained(fd)[f].todo = sockets[f].todo
                                /\ Drained(fd)[f].given = sockets[f].given
  BY <1>1 DEF Drained, SocketType
<1>3. Drained(fd)[fd].inq = <<>>
  BY <1>1 DEF Drained, SocketType
<1>4. \A f \in DOMAIN sockets \ {fd} : Drained(fd)[f].inq = sockets[f].inq
  BY <1>1 DEF Drained, SocketType
<1> QED BY <1>1, <1>2, <1>3, <1>4, DrainedGood

(* A new connection, up, is linked with fd, and nothing else changes. *)
Opened(table, open, fd, up, n, table2, open2) ==
  /\ fd \in DOMAIN table /\ up \in Fd \ DOMAIN table /\ NoFd \notin DOMAIN table
  /\ table[fd].peer = NoFd /\ table[fd].proto = "Established"
  /\ DOMAIN table2 = DOMAIN table \cup {up}
  /\ \A f \in DOMAIN table \ {fd} : table2[f] = table[f]
  /\ table2[fd].peer = up /\ table2[fd].proto = table[fd].proto
  /\ table2[fd].recv = table[fd].recv /\ table2[fd].send = table[fd].send
  /\ table2[up].peer = fd /\ table2[up].recv = <<>> /\ table2[up].send = <<>>
  /\ \A f \in DOMAIN table : /\ open2[f].gen = open[f].gen /\ open2[f].todo = open[f].todo
                             /\ open2[f].inq = open[f].inq /\ open2[f].given = open[f].given
  /\ open2[up].gen = n + 1 /\ open2[up].inq = <<>> /\ open2[up].given = <<>>
  /\ open2[up].todo \in Seq(InputKinds)

LEMMA OpenedSources ==
  ASSUME NEW table, NEW open, NEW fd, NEW up, NEW n \in Nat, NEW table2, NEW open2,
         Opened(table, open, fd, up, n, table2, open2), Sources(table, open, n)
  PROVE  Sources(table2, open2, n + 1)
<1> SUFFICES ASSUME NEW f \in DOMAIN table2 PROVE SourcesOf(table2, open2, f, n + 1)
  BY DEF Sources
<1>1. CASE f = up
  <2>1. /\ table2[f].recv = <<>> /\ table2[f].send = <<>> /\ open2[f].inq = <<>>
        /\ open2[f].given = <<>> /\ open2[f].gen # 0
    BY <1>1 DEF Opened
  <2> QED BY <2>1 DEF SourcesOf, From
<1>2. CASE f # up
  <2>1. f \in DOMAIN table
    BY <1>2 DEF Opened
  <2>2. SourcesOf(table, open, f, n)
    BY <2>1 DEF Sources
  <2>3. /\ table2[f].recv = table[f].recv /\ table2[f].send = table[f].send
        /\ open2[f].inq = open[f].inq /\ open2[f].gen = open[f].gen /\ open2[f].given = open[f].given
    BY <2>1 DEF Opened
  <2>4. LinksStay(table, open, table2, open2, f, n)
    BY <2>1 DEF Opened, LinksStay
  <2>5. n + 1 \in Nat /\ n <= n + 1
    OBVIOUS
  <2> QED BY <2>2, <2>3, <2>4, <2>5, SourcesStay
<1> QED BY <1>1, <1>2

LEMMA OpenedLinks ==
  ASSUME NEW table, NEW open, NEW fd, NEW up, NEW n \in Nat, NEW table2, NEW open2,
         Opened(table, open, fd, up, n, table2, open2), NEW f, NEW p
  PROVE  /\ Linked(table, f, p) => f \notin {fd, up} /\ p \notin {fd, up}
         /\ Linked(table2, f, p) <=>
              Linked(table, f, p) \/ (f = fd /\ p = up) \/ (f = up /\ p = fd)
<1>1. Linked(table, f, p) => f \notin {fd, up} /\ p \notin {fd, up}
  BY DEF Opened, Linked
<1>2. up # fd
  BY DEF Opened
<1>3. CASE f \in {fd, up} \/ p \in {fd, up}
  <2>1. Linked(table2, f, p) => (f = fd /\ p = up) \/ (f = up /\ p = fd)
    BY <1>2, <1>3 DEF Opened, Linked
  <2>2. (f = fd /\ p = up) \/ (f = up /\ p = fd) => Linked(table2, f, p)
    BY <1>2 DEF Opened, Linked
  <2> QED BY <1>1, <1>3, <2>1, <2>2
<1>4. CASE f \notin {fd, up} /\ p \notin {fd, up}
  <2>1. Linked(table2, f, p) <=> Linked(table, f, p)
    BY <1>4 DEF Opened, Linked
  <2> QED BY <1>4, <2>1
<1> QED BY <1>1, <1>3, <1>4

(* The two ways of a tunnel that opens. *)
LEMMA OpenedFlows ==
  ASSUME NEW table, NEW open, Typed(table, open), NEW fd \in Fd, NEW up \in Fd, NEW n \in Nat,
         NEW table2, NEW open2, Opened(table, open, fd, up, n, table2, open2),
         Sources(table, open, n),
         NEW f \in {fd, up}, NEW p \in {fd, up} \ {f}
  PROVE  /\ Flowing(table2, open2, f, p) \in T!Flow
         /\ T!Origins(Flowing(table2, open2, f, p).unsent) \subseteq {Flowing(table2, open2, f, p).sender}
<1> DEFINE todo == open2[f].todo
           gen == open2[f].gen
           unsent == [ i \in DOMAIN todo |-> [kind |-> todo[i], src |-> gen] ]
           send == table2[p].send
           recv == table2[f].recv
           inq == open2[f].inq
           given == open2[p].given
           way == Flowing(table2, open2, f, p)
<1>1. /\ table[fd].send \in Seq(Piece) /\ table[fd].recv \in Seq(Piece) /\ open[fd].inq \in Seq(Piece)
      /\ open[fd].todo \in Seq(InputKinds) /\ open[fd].gen \in Nat /\ open[fd].given \in Seq(Piece)
      /\ open[fd].gen # 0
  BY Pieces DEF Opened, Sources, SourcesOf
<1>2. <<>> \in Seq(Piece)
  BY EmptySeq
<1>3. /\ todo \in Seq(InputKinds) /\ gen \in Nat \ {0} /\ recv \in Seq(Piece) /\ inq \in Seq(Piece)
  <2>1. CASE f = fd
    <3>1. /\ open2[fd].todo = open[fd].todo /\ open2[fd].gen = open[fd].gen
          /\ open2[fd].inq = open[fd].inq /\ table2[fd].recv = table[fd].recv
      BY DEF Opened
    <3> QED BY <1>1, <2>1, <3>1
  <2>2. CASE f = up
    <3>1. /\ open2[up].todo \in Seq(InputKinds) /\ open2[up].gen = n + 1
          /\ open2[up].inq = <<>> /\ table2[up].recv = <<>>
      BY DEF Opened
    <3>2. n + 1 \in Nat \ {0}
      OBVIOUS
    <3> QED BY <1>2, <2>2, <3>1, <3>2
  <2> QED BY <2>1, <2>2
<1>4. send \in Seq(Piece) /\ given \in Seq(Piece)
  <2>1. CASE p = fd
    BY <1>1, <2>1 DEF Opened
  <2>2. CASE p = up
    BY <1>2, <2>2 DEF Opened
  <2> QED BY <2>1, <2>2
<1>5. way = [ sender |-> gen, unsent |-> unsent, transit |-> send \o recv \o inq, given |-> given ]
  BY DEF Flowing
<1> HIDE DEF send, recv, inq, given, way, gen, todo
<1>6. send \o recv \o inq \in Seq(Piece)
  BY <1>3, <1>4, ThreeTyped
<1>7. unsent \in Seq(Piece) /\ T!Origins(unsent) \subseteq {gen}
  <2>1. unsent \in Seq(Input)
    BY <1>3, UnsentPieces
  <2>2. DOMAIN unsent = DOMAIN todo /\ \A i \in DOMAIN unsent : unsent[i].src = gen
    OBVIOUS
  <2> HIDE DEF unsent
  <2>3. unsent \in Seq(Piece)
    BY <2>1, InputIsPiece
  <2> QED BY <2>2, <2>3 DEF T!Origins
<1> HIDE DEF unsent
<1>8. way \in T!Flow
  BY <1>3, <1>4, <1>5, <1>6, <1>7 DEF T!Flow
<1>9. way.unsent = unsent /\ way.sender = gen
  BY <1>5
<1> QED BY <1>7, <1>8, <1>9 DEF way

(* Tunnels opens a tunnel between the two. *)
Opens(before, after, both) ==
  /\ both \cap DOMAIN before = {}
  /\ DOMAIN after = DOMAIN before \cup both
  /\ \A way \in both : /\ after[way] \in T!Flow
                        /\ T!Origins(after[way].unsent) \subseteq {after[way].sender}
  /\ \A way \in DOMAIN before : after[way] = before[way]

LEMMA OpenedStep ==
  ASSUME NEW table, NEW open, Typed(table, open), NEW fd \in Fd, NEW up \in Fd, NEW n \in Nat,
         NEW table2, NEW open2, Opened(table, open, fd, up, n, table2, open2),
         Sources(table, open, n)
  PROVE  Opens(Ways(table, open), Ways(table2, open2), T!Both(fd, up))
<1> DEFINE W == Ways(table, open)
           W2 == Ways(table2, open2)
           both == T!Both(fd, up)
<1>1. both = {<<fd, up>>, <<up, fd>>}
  BY DEF T!Both
<1>2. DOMAIN W = LinkedWays(table) /\ DOMAIN W2 = LinkedWays(table2)
  BY DEF Ways
<1>3. \A f, p : Linked(table, f, p) => f \notin {fd, up} /\ p \notin {fd, up}
  BY OpenedLinks
<1>4. \A f, p : Linked(table2, f, p) <=>
        Linked(table, f, p) \/ (f = fd /\ p = up) \/ (f = up /\ p = fd)
  BY OpenedLinks
<1>5. LinkedWays(table2) = LinkedWays(table) \cup both
  <2>1. \A way \in Fd \X Fd : Linked(table2, way[1], way[2]) <=>
          Linked(table, way[1], way[2]) \/ way \in {<<fd, up>>, <<up, fd>>}
    BY <1>4
  <2>2. {<<fd, up>>, <<up, fd>>} \subseteq Fd \X Fd
    OBVIOUS
  <2> QED BY <1>1, <2>1, <2>2 DEF LinkedWays
<1>6. both \cap LinkedWays(table) = {}
  BY <1>1, <1>3 DEF LinkedWays
<1>7. \A way \in both : /\ W2[way] \in T!Flow
                        /\ T!Origins(W2[way].unsent) \subseteq {W2[way].sender}
  <2>1. <<fd, up>> \in LinkedWays(table2) /\ <<up, fd>> \in LinkedWays(table2) /\ up # fd
    BY <1>1, <1>5 DEF Opened
  <2>2. /\ W2[<<fd, up>>] = Flowing(table2, open2, fd, up)
        /\ W2[<<up, fd>>] = Flowing(table2, open2, up, fd)
    BY <2>1 DEF Ways
  <2> DEFINE one == Flowing(table2, open2, fd, up)
             two == Flowing(table2, open2, up, fd)
  <2>3. /\ one \in T!Flow /\ T!Origins(one.unsent) \subseteq {one.sender}
        /\ two \in T!Flow /\ T!Origins(two.unsent) \subseteq {two.sender}
    BY <2>1, OpenedFlows
  <2> HIDE DEF one, two, W2
  <2> QED BY <1>1, <2>2, <2>3 DEF one, two
<1>8. \A way \in LinkedWays(table) : W2[way] = W[way]
  <2> SUFFICES ASSUME NEW f \in Fd, NEW p \in Fd, Linked(table, f, p)
               PROVE  W2[<<f, p>>] = W[<<f, p>>]
    BY DEF LinkedWays
  <2>1. <<f, p>> \in LinkedWays(table) /\ <<f, p>> \in LinkedWays(table2)
    BY <1>4 DEF LinkedWays
  <2>2. /\ W[<<f, p>>] = Flowing(table, open, f, p)
        /\ W2[<<f, p>>] = Flowing(table2, open2, f, p)
    BY <2>1 DEF Ways
  <2>3. f \in DOMAIN table \ {fd} /\ p \in DOMAIN table \ {fd}
    BY <1>3 DEF Linked
  <2>4. Flowing(table2, open2, f, p) = Flowing(table, open, f, p)
    BY <2>3 DEF Opened, Flowing
  <2> QED BY <2>2, <2>4
<1> HIDE DEF both, W, W2
<1>9. Opens(W, W2, both)
  BY <1>2, <1>5, <1>6, <1>7, <1>8 DEF Opens
<1> QED BY <1>9 DEF both, W, W2

(* What the rest of the readable half does with the table OnReadable left. *)
LEMMA FinishReadFifo ==
  ASSUME IInv, IInv', Genuine', NEW fd \in DOMAIN connections, NEW table, FinishRead(fd, table),
         Typed(table, Drained(fd)), Sources(table, Drained(fd), made),
         Ways(table, Drained(fd)) = Ways(connections, sockets)
  PROVE  Fifo
<1> DEFINE open == Drained(fd)
<1>1. CASE connections' = table /\ sockets' = open /\ made' = made
  <2>1. FifoInv'
    BY <1>1 DEF FifoInv
  <2> QED BY <1>1, <2>1, QuietStep DEF Fifo
<1>2. CASE NeedsUpstream(table[fd]) /\ Upstream(fd, table)
  <2>1. PICK up \in Fd \ DOMAIN sockets, stream \in ServerStreams :
          /\ connections' = Put([table EXCEPT ![fd].peer = up], up, NewConnection("Upstream", fd))
          /\ sockets' = Put([open EXCEPT ![fd].paired = @ \cup {made + 1}], up,
                            NewSocket(made + 1, stream, FALSE, {sockets[fd].gen}))
          /\ made' = made + 1
    BY <1>2 DEF Upstream, Lowest
  <2>2. /\ DOMAIN open = DOMAIN table /\ DOMAIN open = DOMAIN sockets /\ DOMAIN sockets = DOMAIN connections
        /\ made \in Nat /\ NoFd \notin DOMAIN table /\ fd \in Fd
        /\ open[fd] \in SocketType /\ table[fd] \in ConnectionType /\ stream \in Seq(InputKinds)
    <3>1. DOMAIN sockets = DOMAIN connections /\ made \in Nat /\ DOMAIN connections \subseteq Fd
      BY DEF IInv, TablesAgree, TypeOK
    <3>2. DOMAIN open = DOMAIN table /\ DOMAIN open = DOMAIN connections
      BY DrainedData DEF Typed
    <3>3. NoFd \notin DOMAIN table /\ open[fd] \in SocketType /\ table[fd] \in ConnectionType
      BY <3>1, <3>2, Descriptors DEF Typed
    <3> QED BY <3>1, <3>2, <3>3, StreamAssumption
  <2> HIDE DEF open
  <2> DEFINE linked == [table EXCEPT ![fd].peer = up]
             pairs == [open EXCEPT ![fd].paired = @ \cup {made + 1}]
             table2 == Put(linked, up, NewConnection("Upstream", fd))
             open2 == Put(pairs, up, NewSocket(made + 1, stream, FALSE, {sockets[fd].gen}))
             last == made
  <2>3. /\ DOMAIN linked = DOMAIN table /\ linked[fd].peer = up
        /\ linked[fd].proto = table[fd].proto
        /\ linked[fd].recv = table[fd].recv /\ linked[fd].send = table[fd].send
        /\ \A f \in DOMAIN table \ {fd} : linked[f] = table[f]
    BY <2>2 DEF ConnectionType
  <2>4. /\ DOMAIN pairs = DOMAIN open
        /\ pairs[fd].gen = open[fd].gen /\ pairs[fd].todo = open[fd].todo
        /\ pairs[fd].inq = open[fd].inq /\ pairs[fd].given = open[fd].given
        /\ \A f \in DOMAIN open \ {fd} : pairs[f] = open[f]
    BY <2>2 DEF SocketType
  <2> HIDE DEF linked, pairs
  <2>5. table[fd].peer = NoFd /\ table[fd].proto = "Established"
    BY <1>2 DEF NeedsUpstream
  <2>6. /\ DOMAIN table2 = DOMAIN table \cup {up}
        /\ \A f \in DOMAIN table : table2[f] = linked[f]
        /\ table2[up].peer = fd /\ table2[up].recv = <<>> /\ table2[up].send = <<>>
    BY <2>2, <2>3 DEF Put, NewConnection
  <2>7. /\ \A f \in DOMAIN table : open2[f] = pairs[f]
        /\ open2[up].gen = made + 1 /\ open2[up].inq = <<>> /\ open2[up].todo = stream
        /\ open2[up].given = <<>>
    BY <2>2, <2>4 DEF Put, NewSocket
  <2> HIDE DEF table2, open2
  <2>8. Opened(table, open, fd, up, made, table2, open2)
    <3>1. fd \in DOMAIN table /\ up \in Fd \ DOMAIN table
      BY <2>2
    <3>2. /\ \A f \in DOMAIN table \ {fd} : table2[f] = table[f]
          /\ table2[fd] = linked[fd]
      BY <2>3, <2>6, <3>1
    <3>3. \A f \in DOMAIN table : /\ open2[f].gen = open[f].gen /\ open2[f].todo = open[f].todo
                                  /\ open2[f].inq = open[f].inq /\ open2[f].given = open[f].given
      BY <2>2, <2>4, <2>7
    <3> QED BY <2>2, <2>3, <2>5, <2>6, <2>7, <3>1, <3>2, <3>3 DEF Opened
  <2>9. Sources(table, open, last) /\ Typed(table, open) /\ last \in Nat
        /\ Opened(table, open, fd, up, last, table2, open2)
    BY <2>2, <2>8 DEF open
  <2>10. connections' = table2 /\ sockets' = open2 /\ made' = last + 1
    BY <2>1 DEF table2, open2, linked, pairs
  <2> HIDE DEF last
  <2>11. FifoInv'
    <3>1. Sources(table2, open2, last + 1)
      BY <2>9, OpenedSources
    <3> QED BY <2>10, <3>1 DEF FifoInv
  <2> DEFINE W == Ways(table, open)
             W2 == Ways(table2, open2)
             both == T!Both(fd, up)
  <2>12. Opens(W, W2, both)
    BY <2>2, <2>9, OpenedStep
  <2>13. Flows = W /\ Flows' = W2
    BY <2>10, FlowsAreWays, FlowsAreWaysNext DEF open
  <2> HIDE DEF W, W2
  <2>14. T!Open(fd, up)
    <3>1. T!Unmixed'
      BY <2>11, NeverMixedNext
    <3> QED BY <2>12, <2>13, <3>1 DEF Opens, T!Open, T!Kept
  <2>15. <<fd, up>> \in DOMAIN Flows' \ DOMAIN Flows
    <3>1. <<fd, up>> \in both
      BY DEF T!Both
    <3> HIDE DEF both
    <3> QED BY <2>12, <2>13, <3>1 DEF Opens
  <2>16. T!Next
    <3> DEFINE way == <<fd, up>>
    <3>1. way \in Fd \X Fd /\ way[1] = fd /\ way[2] = up
      BY <2>2
    <3> QED BY <2>14, <2>15, <3>1 DEF T!Next
  <2> QED BY <2>11, <2>16 DEF Fifo
<1> QED BY <1>1, <1>2 DEF FinishRead

LEMMA ReceivedFrom ==
  ASSUME IInv, FifoInv, NEW fd \in DOMAIN connections
  PROVE  /\ Received(fd) \in Seq(Piece) /\ Received(fd) \in Seq(Input)
         /\ From(Received(fd), {sockets[fd].gen})
<1> DEFINE r == connections[fd].recv
           i == sockets[fd].inq
           gens == {sockets[fd].gen}
<1>1. r \in Seq(Piece) /\ i \in Seq(Piece) /\ From(r, gens) /\ From(i, gens)
  BY TablesTyped, Pieces DEF FifoInv, Sources, SourcesOf
<1>2. Received(fd) = r \o i
  BY DEF Received
<1> HIDE DEF r, i, gens
<1>3. r \o i \in Seq(Piece) /\ From(r \o i, gens)
  BY <1>1, FromConcat
<1> QED BY <1>2, <1>3, AfterReadGood DEF gens

(* The peer look-up leaves the links to what is there. *)
LEMMA LookedUp ==
  ASSUME IInv, NEW fd \in DOMAIN connections
  PROVE  /\ NoFd \notin DOMAIN connections
         /\ \/ PeerOf(fd) = connections[fd].peer
            \/ PeerOf(fd) = NoFd /\ connections[fd].peer \notin DOMAIN connections
<1>1. NoFd \notin DOMAIN connections
  BY Descriptors DEF IInv, TypeOK
<1> QED BY <1>1 DEF PeerOf

(* What OnReadable may leave: pieces only in the buffers where they belong. *)
Sorted(table, fd) ==
  /\ PeersStay(connections, table)
  /\ From(table[fd].recv, {sockets[fd].gen})
  /\ \A f \in DOMAIN connections \ {fd} : table[f].recv = connections[f].recv
  /\ \A f \in DOMAIN connections :
       \/ From(table[f].send, Linking(connections, sockets, f, made))
       \/ table[f].send = connections[f].send

LEMMA SortedSources ==
  ASSUME IInv, FifoInv, NEW fd \in DOMAIN connections, NEW table, Sorted(table, fd)
  PROVE  Sources(table, Drained(fd), made)
<1> DEFINE open == Drained(fd)
           last == made
<1>1. /\ \A f \in DOMAIN connections : open[f].gen = sockets[f].gen /\ open[f].given = sockets[f].given
      /\ open[fd].inq = <<>>
      /\ \A f \in DOMAIN connections \ {fd} : open[f].inq = sockets[f].inq
  BY DrainedData
<1> HIDE DEF open
<1>2. last \in Nat /\ last <= last
  BY DEF IInv, TypeOK
<1>3. ASSUME NEW f \in DOMAIN connections PROVE SourcesOf(table, open, f, made)
  <2> DEFINE gens == Linking(connections, sockets, f, last)
             more == Linking(table, open, f, last)
  <2>1. SourcesOf(connections, sockets, f, last)
    BY DEF FifoInv, Sources
  <2>2. LinksStay(connections, sockets, table, open, f, last)
    BY <1>1, PeersKeepLinks DEF Sorted
  <2>3. gens \subseteq more
    <3> HIDE DEF last
    <3> QED BY <1>2, <2>2, LinkingStays
  <2>4. From(table[f].send, gens) /\ From(open[f].given, gens)
    BY <1>1, <2>1 DEF Sorted, SourcesOf
  <2> HIDE DEF gens, more
  <2>5. From(table[f].send, more) /\ From(open[f].given, more)
    BY <2>3, <2>4, FromWider
  <2>6. open[f].gen # 0
    BY <1>1, <2>1 DEF SourcesOf
  <2>7. From(table[f].recv, {open[f].gen}) /\ From(open[f].inq, {open[f].gen})
    <3>1. CASE f = fd
      <4>1. From(open[f].inq, {open[f].gen})
        BY <1>1, <3>1 DEF From
      <4> QED BY <1>1, <3>1, <4>1 DEF Sorted
    <3>2. CASE f # fd
      BY <1>1, <2>1, <3>2 DEF Sorted, SourcesOf
    <3> QED BY <3>1, <3>2
  <2> QED BY <2>5, <2>6, <2>7 DEF SourcesOf, more, last
<1> QED BY <1>3 DEF Sorted, PeersStay, Sources, open

(* The proxy's own replies may go to every connection. *)
LEMMA OwnReplies ==
  ASSUME IInv, FifoInv, NEW f, NEW s \in Seq(Piece), From(s, Linking(connections, sockets, f, made)),
         NEW kind \in OutputKinds
  PROVE  From(Append(s, [kind |-> kind, src |-> 0]), Linking(connections, sockets, f, made))
<1> DEFINE reply == [kind |-> kind, src |-> 0]
           gens == Linking(connections, sockets, f, made)
<1>1. reply \in Piece
  BY DEF Piece, Kinds
<1>2. reply.src \in gens
  <2>1. made \in Nat
    BY DEF IInv, TypeOK
  <2>2. \A x \in DOMAIN connections : sockets[x].gen # 0
    BY DEF FifoInv, Sources, SourcesOf
  <2> QED BY <2>1, <2>2 DEF Linking
<1> HIDE DEF reply, gens
<1>3. From(Append(s, reply), gens)
  BY <1>1, <1>2, FromAppended DEF gens
<1> QED BY <1>3 DEF reply, gens

LEMMA ReadUnknownFifo ==
  ASSUME IInv, IInv', FifoInv, NEW fd \in Fd, ReadUnknown(fd) PROVE Fifo
<1> DEFINE c == AfterRead(fd)
           reply == [kind |-> "health", src |-> 0]
           d == [c EXCEPT !.send = Append(c.send, reply), !.want = TRUE]
           table == connections'
<1>1. /\ fd \in DOMAIN connections /\ connections' = [connections EXCEPT ![fd] = d]
      /\ sockets' = Drained(fd) /\ made' = made
  BY EventOpen DEF ReadUnknown, ReadOpen, NextEvent, HealthResponse
<1>2. connections[fd].proto # "Established" /\ connections[fd].role = "Client"
  BY DEF ReadUnknown, Protocol
<1>3. connections[fd].peer = NoFd /\ PeerOf(fd) = NoFd /\ NoFd \notin DOMAIN connections
  BY <1>1, <1>2, Descriptors DEF IInv, UpstreamAfterGrant, TypeOK, PeerOf
<1>4. /\ c \in ConnectionType /\ c.peer = NoFd /\ c.recv = Received(fd)
      /\ c.send = connections[fd].send
  BY <1>1, <1>3, AfterReadGood DEF GoodConnection
<1>5. d.peer = NoFd /\ d.recv = Received(fd) /\ d.send = Append(connections[fd].send, reply)
  <2> HIDE DEF c, reply
  <2> QED BY <1>4 DEF ConnectionType
<1> HIDE DEF d
<1>6. /\ DOMAIN table = DOMAIN connections
      /\ table[fd].peer = NoFd /\ table[fd].recv = Received(fd)
      /\ table[fd].send = Append(connections[fd].send, reply)
      /\ \A f \in DOMAIN connections \ {fd} : table[f] = connections[f]
  BY <1>1, <1>5
<1> HIDE DEF table
<1>7. From(Append(connections[fd].send, reply), Linking(connections, sockets, fd, made))
  <2> DEFINE send == connections[fd].send
             gens == Linking(connections, sockets, fd, made)
  <2>1. send \in Seq(Piece) /\ From(send, gens)
    BY <1>1, TablesTyped, Pieces DEF FifoInv, Sources, SourcesOf
  <2>2. "health" \in OutputKinds
    BY DEF OutputKinds
  <2> HIDE DEF send
  <2>3. From(Append(send, reply), gens)
    BY <2>1, <2>2, OwnReplies
  <2> QED BY <2>3 DEF send
<1>8. Sorted(table, fd)
  BY <1>1, <1>3, <1>6, <1>7, ReceivedFrom DEF Sorted, PeersStay
<1>9. FifoInv'
  <2>1. Sources(table, Drained(fd), made)
    BY <1>1, <1>8, SortedSources
  <2> QED BY <1>1, <2>1 DEF FifoInv, table
<1>10. Ways(connections', sockets') = Ways(connections, sockets)
  <2> DEFINE X == {fd}
             open2 == sockets'
  <2>1. \A f \in X : \A p : ~Linked(connections, f, p) /\ ~Linked(table, f, p)
    BY <1>3, <1>6 DEF Linked
  <2>2. \A f \in DOMAIN connections \ X :
          /\ table[f] = connections[f]
          /\ open2[f].gen = sockets[f].gen /\ open2[f].todo = sockets[f].todo
          /\ open2[f].inq = sockets[f].inq /\ open2[f].given = sockets[f].given
    BY <1>1, <1>6, DrainedData
  <2>3. DOMAIN table \ X = DOMAIN connections \ X
    BY <1>6
  <2> HIDE DEF X, open2
  <2>4. Apart(connections, sockets, table, open2, X)
    BY <2>1, <2>2, <2>3 DEF Apart
  <2> QED BY <2>4, ApartWays DEF table, open2
<1> QED BY <1>9, <1>10, QuietStep DEF Fifo

(* A request is answered to a connection that no tunnel has: a client that  *)
(* has not been granted one, or an upstream connection whose link is stale. *)
LEMMA ReadRequestFifo ==
  ASSUME IInv, IInv', Genuine', FifoInv, NEW fd \in Fd, ReadRequest(fd) PROVE Fifo
<1>1. fd \in DOMAIN connections
  BY EventOpen DEF ReadRequest, ReadOpen, NextEvent
<1> DEFINE c == AfterRead(fd)
           owner == IF connections[fd].role = "Client" THEN fd ELSE PeerOf(fd)
           verdict == Decided(Received(fd))
<1>2. PICK end \in RequestEnds(Received(fd)) :
        FinishRead(fd, [[connections EXCEPT ![fd] = Answered(c, end)]
                          EXCEPT ![owner].proto = verdict])
  BY DEF ReadRequest
<1> DEFINE d == Answered(c, end)
           table == [[connections EXCEPT ![fd] = d] EXCEPT ![owner].proto = verdict]
           rest == SubSeq(Received(fd), end + 1, Len(Received(fd)))
<1>3. /\ c \in ConnectionType /\ c.peer = PeerOf(fd) /\ c.recv = Received(fd)
      /\ c.send = connections[fd].send /\ PeerOf(fd) # fd
      /\ PeerOf(fd) \in DOMAIN connections \cup {NoFd}
  BY <1>1, AfterReadGood DEF GoodConnection
<1>4. d \in ConnectionType /\ d.peer = c.peer
  BY <1>1, AnsweredGood
<1>5. verdict \in {"Established", "Failed"} /\ end \in 1..Len(Received(fd))
  BY DEF Decided, RequestEnds
<1>6. \E kind \in OutputKinds :
        d.recv = rest /\ d.send = Append(connections[fd].send, [kind |-> kind, src |-> 0])
  <2> DEFINE granted == Granted(c.recv)
             kind == IF granted THEN "granted" ELSE "refused"
  <2>1. kind \in OutputKinds
    BY DEF OutputKinds
  <2>2. d = [c EXCEPT !.recv = SubSeq(c.recv, end + 1, Len(c.recv)),
                      !.send = Append(c.send, [kind |-> kind, src |-> 0]),
                      !.want = TRUE, !.closed = ~granted]
    BY DEF Answered
  <2> HIDE DEF kind, granted, c, d
  <2>3. d.recv = SubSeq(c.recv, end + 1, Len(c.recv)) /\ d.send = Append(c.send, [kind |-> kind, src |-> 0])
    BY <1>3, <2>2 DEF ConnectionType
  <2> QED BY <1>3, <2>1, <2>3
<1>7. \A f \in DOMAIN connections : connections[f] \in ConnectionType
  BY DEF IInv, TypeOK
<1>8. owner \in DOMAIN connections /\ (owner = fd \/ owner = PeerOf(fd))
      /\ (owner # fd => connections[fd].role = "Upstream")
  <2>1. CASE connections[fd].role = "Client"
    BY <1>1, <2>1
  <2>2. CASE connections[fd].role # "Client"
    <3>1. PeerOf(fd) # NoFd
      BY <2>2 DEF ReadRequest, Handler
    <3> QED BY <1>1, <1>3, <1>7, <2>2, <3>1 DEF ConnectionType
  <2> QED BY <2>1, <2>2
<1>9. /\ DOMAIN table = DOMAIN connections
      /\ \A f \in DOMAIN connections : table[f] \in ConnectionType
      /\ table[fd].recv = d.recv /\ table[fd].send = d.send
      /\ table[fd].peer = d.peer
      /\ \A f \in DOMAIN connections \ {fd} :
           /\ table[f].recv = connections[f].recv /\ table[f].send = connections[f].send
           /\ table[f].peer = connections[f].peer
      /\ \A f \in DOMAIN connections \ {fd, owner} : table[f] = connections[f]
  <2> HIDE DEF d, owner, verdict
  <2> QED BY <1>1, <1>4, <1>5, <1>7, <1>8 DEF ConnectionType
<1>10. FinishRead(fd, table)
  BY <1>2
<1>11. connections[owner].peer = NoFd /\ NoFd \notin DOMAIN connections
       /\ (owner = fd => PeerOf(fd) = NoFd)
  <2>1. NoFd \notin DOMAIN connections
    BY Descriptors DEF IInv, TypeOK
  <2>2. CASE connections[fd].role = "Client"
    <3>1. Protocol(fd) = "Init"
      BY <2>2 DEF ReadRequest, Handler
    <3>2. connections[fd].proto # "Established"
      BY <3>1 DEF Protocol
    <3>3. connections[fd].peer = NoFd
      BY <1>1, <2>2, <3>2 DEF IInv, UpstreamAfterGrant
    <3> QED BY <2>1, <2>2, <3>3 DEF PeerOf
  <2>3. CASE connections[fd].role # "Client"
    <3>1. owner = PeerOf(fd) /\ owner # fd /\ connections[owner].proto = "Init"
      BY <1>3, <1>8, <2>3 DEF ReadRequest, Handler
    <3>2. connections[owner].role = "Client"
      BY <1>7, <1>8, <3>1 DEF IInv, UpstreamAfterGrant, ConnectionType
    <3> HIDE DEF owner
    <3>3. connections[owner].peer = NoFd
      BY <1>8, <3>1, <3>2 DEF IInv, UpstreamAfterGrant
    <3> QED BY <2>1, <3>1, <3>3
  <2> QED BY <2>2, <2>3
<1> HIDE DEF c, d, owner, table, verdict
<1>12. Sorted(table, fd)
  <2> DEFINE got == Received(fd)
             send == connections[fd].send
             more == Linking(connections, sockets, fd, made)
             gens == {sockets[fd].gen}
  <2>1. got \in Seq(Piece) /\ From(got, gens) /\ send \in Seq(Piece) /\ From(send, more)
    BY <1>1, ReceivedFrom, TablesTyped, Pieces DEF FifoInv, Sources, SourcesOf
  <2>2. PICK kind \in OutputKinds :
          d.recv = rest /\ d.send = Append(send, [kind |-> kind, src |-> 0])
    BY <1>6
  <2>3. end \in 0..Len(got)
    BY <1>5
  <2>4. From(SubSeq(got, end + 1, Len(got)), gens)
    <3> HIDE DEF got, gens
    <3> QED BY <2>1, <2>3, FromParts
  <2>5. From(Append(send, [kind |-> kind, src |-> 0]), more)
    <3> HIDE DEF send
    <3> QED BY <2>1, <2>2, OwnReplies
  <2> HIDE DEF gens, more, send
  <2>6. From(table[fd].recv, gens) /\ From(table[fd].send, more)
    BY <1>9, <2>2, <2>4, <2>5 DEF got
  <2>7. PeersStay(connections, table)
    <3>1. table[fd].peer = PeerOf(fd)
      BY <1>3, <1>4, <1>9
    <3> QED BY <1>1, <1>9, <3>1, LookedUp DEF PeersStay
  <2> QED BY <1>9, <2>6, <2>7 DEF Sorted, gens, more
<1>13. Sources(table, Drained(fd), made)
  BY <1>1, <1>12, SortedSources
<1>14. Typed(table, Drained(fd))
  BY <1>1, <1>9, DrainedData, TablesTyped DEF Typed
<1>15. Ways(table, Drained(fd)) = Ways(connections, sockets)
  <2> DEFINE X == {fd, owner}
             open2 == Drained(fd)
  <2>1. \A f \in X : \A p : ~Linked(connections, f, p)
    BY <1>1, <1>3, <1>8, <1>11 DEF Linked, PeerOf
  <2>2. \A f \in X : \A p : ~Linked(table, f, p)
    <3>1. CASE owner = fd
      BY <1>3, <1>4, <1>9, <1>11, <3>1 DEF Linked
    <3>2. CASE owner # fd
      <4>1. table[owner].peer = NoFd /\ table[fd].peer = owner /\ NoFd \notin DOMAIN table
        BY <1>3, <1>4, <1>8, <1>9, <1>11, <3>2
      <4>2. fd # NoFd
        BY <1>1, <1>11
      <4> QED BY <4>1, <4>2 DEF Linked
    <3> QED BY <3>1, <3>2
  <2>3. \A f \in DOMAIN connections \ X :
          /\ table[f] = connections[f]
          /\ open2[f].gen = sockets[f].gen /\ open2[f].todo = sockets[f].todo
          /\ open2[f].inq = sockets[f].inq /\ open2[f].given = sockets[f].given
    BY <1>1, <1>9, DrainedData
  <2>4. DOMAIN table \ X = DOMAIN connections \ X
    BY <1>9
  <2> HIDE DEF X, open2
  <2>5. Apart(connections, sockets, table, open2, X)
    BY <2>1, <2>2, <2>3, <2>4 DEF Apart
  <2> QED BY <2>5, ApartWays DEF open2
<1> QED BY <1>1, <1>10, <1>13, <1>14, <1>15, FinishReadFifo

(* What was in the queue now waits in the receive buffer. *)
LEMMA ReadKeptFifo ==
  ASSUME IInv, IInv', Genuine', FifoInv, NEW fd \in Fd, ReadKept(fd) PROVE Fifo
<1> DEFINE c == AfterRead(fd)
           table == [connections EXCEPT ![fd] = c]
           open == Drained(fd)
<1>1. fd \in DOMAIN connections /\ FinishRead(fd, table)
  BY EventOpen DEF ReadKept, ReadOpen, NextEvent
<1>2. /\ c \in ConnectionType /\ c.peer = PeerOf(fd) /\ c.recv = Received(fd)
      /\ c.send = connections[fd].send /\ c.proto = Protocol(fd)
  BY <1>1, AfterReadGood DEF GoodConnection
<1> HIDE DEF c
<1>3. /\ DOMAIN table = DOMAIN connections /\ table[fd] = c
      /\ \A f \in DOMAIN connections \ {fd} : table[f] = connections[f]
  BY <1>1
<1> HIDE DEF table
<1>4. Sorted(table, fd)
  BY <1>1, <1>2, <1>3, ReceivedFrom, LookedUp DEF Sorted, PeersStay
<1>5. Sources(table, open, made)
  BY <1>1, <1>4, SortedSources
<1>6. Typed(table, open)
  BY <1>1, <1>2, <1>3, DrainedData, TablesTyped DEF Typed
<1>7. \A f, p : Linked(table, f, p) <=> Linked(connections, f, p)
  <2>1. NoFd \notin DOMAIN connections
    BY Descriptors DEF IInv, TypeOK
  <2>2. c.peer = connections[fd].peer \/ (c.peer = NoFd /\ connections[fd].peer \notin DOMAIN connections)
    BY <1>2 DEF PeerOf
  <2>3. c.proto = "Established" <=> connections[fd].proto = "Established"
    BY <1>2 DEF Protocol
  <2>4. SameTies(connections, table)
    BY <1>3, <2>1, <2>2, <2>3 DEF SameTies
  <2> QED BY <2>4, SameLinked
<1>8. ASSUME NEW f, NEW p, Linked(connections, f, p)
      PROVE  Flowing(table, open, f, p) = Flowing(connections, sockets, f, p)
  <2>1. f \in DOMAIN connections /\ p \in DOMAIN connections
    BY <1>8 DEF Linked
  <2>2. table[p].send = connections[p].send
    BY <1>2, <1>3, <2>1
  <2>3. open[f].gen = sockets[f].gen /\ open[f].todo = sockets[f].todo
        /\ open[p].given = sockets[p].given
    BY <1>1, <2>1, DrainedData
  <2>4. CASE f # fd
    <3>1. table[f].recv = connections[f].recv /\ open[f].inq = sockets[f].inq
      BY <1>1, <1>3, <2>1, <2>4, DrainedData
    <3> QED BY <2>2, <2>3, <3>1 DEF Flowing
  <2>5. CASE f = fd
    <3> DEFINE a == connections[p].send
               r == connections[f].recv
               i == sockets[f].inq
    <3>1. table[f].recv = r \o i /\ open[f].inq = <<>>
      BY <1>1, <1>2, <1>3, <2>5, DrainedData DEF Received
    <3>2. a \in Seq(Piece) /\ r \in Seq(Piece) /\ i \in Seq(Piece)
      BY <2>1, TablesTyped, Pieces
    <3>3. (a \o (r \o i)) \o <<>> = a \o r \o i
      <4> HIDE DEF a, r, i
      <4>1. r \o i \in Seq(Piece) /\ a \o (r \o i) = (a \o r) \o i
        <5>1. Joins(a, r, i) /\ r \o i \in Seq(Piece)
          BY <3>2, Associative
        <5> QED BY <5>1 DEF Joins
      <4>2. a \o (r \o i) \in Seq(Piece)
        BY <3>2, <4>1, ConcatProperties
      <4>3. (a \o (r \o i)) \o <<>> = a \o (r \o i)
        BY <4>2, ConcatEmptySeq
      <4> QED BY <4>1, <4>3
    <3> QED BY <2>2, <2>3, <3>1, <3>3 DEF Flowing
  <2> QED BY <2>4, <2>5
<1> HIDE DEF open
<1>9. Ways(table, open) = Ways(connections, sockets)
  BY <1>7, <1>8, QuietWays
<1> QED BY <1>1, <1>5, <1>6, <1>9, FinishReadFifo DEF open

(* The readable half of fd, where its handler relays: what was received goes *)
(* behind what waits for the peer p.                                         *)
Relayed(fd, p, table, open) ==
  /\ fd \in DOMAIN connections /\ p \in DOMAIN connections /\ p # fd
  /\ connections[fd].peer = p /\ Received(fd) # <<>>
  /\ DOMAIN table = DOMAIN connections
  /\ table[fd].recv = <<>> /\ table[fd].send = connections[fd].send /\ table[fd].peer = p
  /\ table[fd].proto = "Established" <=> connections[fd].proto = "Established"
  /\ table[p].send = connections[p].send \o Received(fd) /\ table[p].recv = connections[p].recv
  /\ table[p].peer = connections[p].peer /\ table[p].proto = connections[p].proto
  /\ \A f \in DOMAIN connections \ {fd, p} : table[f] = connections[f]
  /\ \A f \in DOMAIN connections : /\ open[f].gen = sockets[f].gen /\ open[f].todo = sockets[f].todo
                                   /\ open[f].given = sockets[f].given
  /\ open[fd].inq = <<>>
  /\ \A f \in DOMAIN connections \ {fd} : open[f].inq = sockets[f].inq

LEMMA TunnelRelays ==
  ASSUME IInv, NEW fd \in Fd, Tunnel(fd)
  PROVE  /\ Relayed(fd, PeerOf(fd), connections', sockets')
         /\ sockets' = Drained(fd) /\ made' = made
<1> DEFINE p == PeerOf(fd)
           c == AfterRead(fd)
           d == [c EXCEPT !.recv = <<>>]
           sent == connections[p].send \o Received(fd)
           table == [connections EXCEPT ![fd] = d, ![p].send = sent, ![p].want = TRUE]
<1>1. fd \in DOMAIN connections /\ Received(fd) # <<>> /\ p # NoFd
  BY EventOpen DEF Tunnel, ReadOpen, NextEvent, Relays
<1>2. p \in DOMAIN connections /\ p # fd
  BY <1>1, AfterReadGood
<1>3. /\ c \in ConnectionType /\ c.peer = p /\ c.send = connections[fd].send
      /\ c.proto = Protocol(fd)
  BY <1>1, AfterReadGood DEF GoodConnection
<1>4. d.peer = p /\ d.recv = <<>> /\ d.send = connections[fd].send /\ d.proto = Protocol(fd)
  <2> HIDE DEF c, p
  <2> QED BY <1>3 DEF ConnectionType
<1>5. \A f \in DOMAIN connections : connections[f] \in ConnectionType
  BY DEF IInv, TypeOK
<1>6. /\ DOMAIN table = DOMAIN connections /\ table[fd] = d
      /\ table[p].send = sent /\ table[p].recv = connections[p].recv
      /\ table[p].peer = connections[p].peer /\ table[p].proto = connections[p].proto
      /\ \A f \in DOMAIN connections \ {fd, p} : table[f] = connections[f]
  <2> HIDE DEF d, sent, p
  <2> QED BY <1>1, <1>2, <1>5 DEF ConnectionType
<1>7. FinishRead(fd, table)
  BY DEF Tunnel
<1> HIDE DEF c, d, table
<1>8. connections' = table /\ sockets' = Drained(fd) /\ made' = made
  <2>1. ~NeedsUpstream(table[fd])
    BY <1>1, <1>4, <1>6 DEF NeedsUpstream
  <2> QED BY <1>7, <2>1 DEF FinishRead
<1>9. connections[fd].peer = p
  BY <1>1 DEF PeerOf
<1>10. d.proto = "Established" <=> connections[fd].proto = "Established"
  BY <1>4 DEF Protocol
<1> HIDE DEF p
<1>11. Relayed(fd, p, table, Drained(fd))
  <2>1. /\ table[fd].recv = <<>> /\ table[fd].send = connections[fd].send /\ table[fd].peer = p
        /\ table[fd].proto = "Established" <=> connections[fd].proto = "Established"
    BY <1>4, <1>6, <1>10
  <2> QED BY <1>1, <1>2, <1>6, <1>9, <2>1, DrainedData DEF Relayed
<1> QED BY <1>8, <1>11 DEF p

(* What fd received comes by a link to p, and fd has no other. *)
LEMMA RelayedSources ==
  ASSUME IInv, Genuine, FifoInv, NEW fd, NEW p, NEW table, Relayed(fd, p, table, Drained(fd))
  PROVE  Sources(table, Drained(fd), made)
<1> DEFINE got == Received(fd)
           send == connections[p].send
           more == Linking(connections, sockets, p, made)
           gens == {sockets[fd].gen}
<1>1. fd \in DOMAIN connections /\ p \in DOMAIN connections /\ p # fd
  BY DEF Relayed
<1>2. got \in Seq(Piece) /\ From(got, gens)
  BY <1>1, ReceivedFrom
<1>3. gens \subseteq more
  <2>1. sockets[fd].gen \in 0..made
    <3>1. sockets[fd].gen \in Nat /\ sockets[fd].gen <= made /\ made \in Nat
      BY <1>1, TablesNumbered DEF Numbered, Genuine, LinksInv
    <3> QED BY <3>1
  <2>2. \A x \in DOMAIN connections : sockets[x].gen = sockets[fd].gen => x = fd
    BY <1>1 DEF Genuine, LinksInv, IInv, TablesAgree
  <2> QED BY <2>1, <2>2 DEF Linking, Relayed
<1>4. send \in Seq(Piece) /\ From(send, more)
  BY <1>1, TablesTyped, Pieces DEF FifoInv, Sources, SourcesOf
<1>5. From(send \o got, more)
  <2> HIDE DEF send, got, gens, more
  <2>1. From(got, more)
    BY <1>2, <1>3, FromWider
  <2> QED BY <1>2, <1>4, <2>1, FromConcat
<1>6. Sorted(table, fd)
  <2>1. From(table[fd].recv, gens)
    BY DEF Relayed, From
  <2>2. From(table[p].send, more)
    BY <1>5 DEF Relayed
  <2>3. PeersStay(connections, table)
    BY DEF Relayed, PeersStay
  <2>4. \A f \in DOMAIN connections \ {p} : table[f].send = connections[f].send
    BY DEF Relayed
  <2>5. \A f \in DOMAIN connections \ {fd} : table[f].recv = connections[f].recv
    BY DEF Relayed
  <2> QED BY <2>1, <2>2, <2>3, <2>4, <2>5 DEF Sorted
<1> QED BY <1>1, <1>6, SortedSources

LEMMA RelayedLinks ==
  ASSUME IInv, NEW fd, NEW p, NEW table, NEW open, Relayed(fd, p, table, open)
  PROVE  \A f, q : Linked(table, f, q) <=> Linked(connections, f, q)
<1>1. NoFd \notin DOMAIN connections
  BY Descriptors DEF IInv, TypeOK
<1>2. SameTies(connections, table)
  BY <1>1 DEF Relayed, SameTies
<1> QED BY <1>2, SameLinked

(* On the way from fd to its peer, if it is in a tunnel, and on those of the *)
(* other connections nothing moves.                                          *)
LEMMA RelayedFlows ==
  ASSUME IInv, NEW fd, NEW p, NEW table, NEW open, Relayed(fd, p, table, open),
         NEW f, NEW q, Linked(connections, f, q), f = fd \/ q # p
  PROVE  Flowing(table, open, f, q) = Flowing(connections, sockets, f, q)
<1>1. f \in DOMAIN connections /\ q \in DOMAIN connections /\ connections[f].peer = q
  BY DEF Linked
<1>2. /\ open[f].gen = sockets[f].gen /\ open[f].todo = sockets[f].todo
      /\ open[q].given = sockets[q].given
  BY <1>1 DEF Relayed
<1>3. CASE f # fd
  <2>1. /\ table[f].recv = connections[f].recv /\ table[q].send = connections[q].send
        /\ open[f].inq = sockets[f].inq
    BY <1>1, <1>3 DEF Relayed
  <2> QED BY <1>2, <2>1 DEF Flowing
<1>4. CASE f = fd
  <2> DEFINE a == connections[p].send
             r == connections[f].recv
             i == sockets[f].inq
             ri == r \o i
  <2>1. q = p /\ p \in DOMAIN connections
    BY <1>1, <1>4 DEF Relayed
  <2>2. table[q].send = a \o ri /\ table[f].recv = <<>> /\ open[f].inq = <<>>
    BY <1>4, <2>1 DEF Relayed, Received
  <2>3. a \in Seq(Piece) /\ r \in Seq(Piece) /\ i \in Seq(Piece)
    BY <1>1, <2>1, TablesTyped, Pieces
  <2>4. a \o ri \o <<>> \o <<>> = a \o r \o i
    <3>1. (a \o r) \o i = a \o ri /\ ri \in Seq(Piece)
      <4> HIDE DEF a, r, i
      <4>1. Joins(a, r, i) /\ r \o i \in Seq(Piece)
        BY <2>3, Associative
      <4> QED BY <4>1 DEF Joins, ri
    <3> HIDE DEF ri, a, r, i
    <3>2. a \o ri \in Seq(Piece)
      BY <2>3, <3>1, ConcatProperties
    <3>3. (a \o ri) \o <<>> = a \o ri
      BY <3>2, ConcatEmptySeq
    <3> QED BY <3>1, <3>3
  <2>5. /\ table[q].send \o table[f].recv \o open[f].inq = a \o ri \o <<>> \o <<>>
        /\ connections[q].send \o connections[f].recv \o sockets[f].inq = a \o r \o i
    BY <2>1, <2>2
  <2> HIDE DEF a, ri, r, i
  <2> QED BY <1>2, <2>4, <2>5 DEF Flowing
<1> QED BY <1>3, <1>4

(* If the peer is in a tunnel with another one, fd is in none, and what it   *)
(* received comes in there behind what waits for the peer.                   *)
LEMMA RelayedStray ==
  ASSUME IInv, Genuine, FifoInv, NEW fd, NEW p, NEW table, NEW open, Relayed(fd, p, table, open),
         NEW f, Linked(connections, f, p), f # fd,
         Flows = Ways(connections, sockets), Flows' = Ways(table, open)
  PROVE  T!Next
<1> DEFINE W == Ways(connections, sockets)
           W2 == Ways(table, open)
           way == <<f, p>>
           g == sockets[fd].gen
           send == connections[p].send
           got == Received(fd)
           r == connections[f].recv
           i == sockets[f].inq
           rest == r \o i
           back == got \o rest
           old == send \o rest
           new == send \o back
<1>1. /\ f \in DOMAIN connections /\ p \in DOMAIN connections /\ fd \in DOMAIN connections
      /\ connections[f].peer = p /\ connections[p].peer = f /\ f \in Fd /\ p \in Fd
  <2>1. DOMAIN connections \subseteq Fd
    BY DEF IInv, TypeOK
  <2> QED BY <2>1 DEF Linked, Relayed
<1>2. /\ got \in Seq(Piece) /\ From(got, {g}) /\ got # <<>>
      /\ send \in Seq(Piece) /\ r \in Seq(Piece) /\ i \in Seq(Piece)
  <2>1. send \in Seq(Piece) /\ r \in Seq(Piece) /\ i \in Seq(Piece)
    BY <1>1, TablesTyped, Pieces
  <2> QED BY <1>1, <2>1, ReceivedFrom DEF Relayed
<1>3. \A h, q : Linked(table, h, q) <=> Linked(connections, h, q)
  BY RelayedLinks
<1>4. \A h, q \in Fd : Linked(connections, h, q) /\ h # f =>
        Flowing(table, open, h, q) = Flowing(connections, sockets, h, q)
  <2> SUFFICES ASSUME NEW h \in Fd, NEW q \in Fd, Linked(connections, h, q), h # f
               PROVE  Flowing(table, open, h, q) = Flowing(connections, sockets, h, q)
    OBVIOUS
  <2>1. q # p
    BY <1>1 DEF Linked
  <2> QED BY <2>1, RelayedFlows
<1>5. /\ way \in DOMAIN W /\ W[way] = Flowing(connections, sockets, f, p)
      /\ W2 = [W EXCEPT ![way] = Flowing(table, open, f, p)]
  BY <1>1, <1>3, <1>4, OneWay
<1>6. /\ (send \o r) \o i = old /\ ((send \o got) \o r) \o i = new
      /\ rest \in Seq(Piece) /\ back = got \o rest
  <2> HIDE DEF send, got, r, i
  <2>1. (send \o r) \o i = send \o (r \o i) /\ r \o i \in Seq(Piece)
    <3>1. Joins(send, r, i) /\ r \o i \in Seq(Piece)
      BY <1>2, Associative
    <3> QED BY <3>1 DEF Joins
  <2>2. (got \o r) \o i = got \o (r \o i)
    <3>1. Joins(got, r, i)
      BY <1>2, Associative
    <3> QED BY <3>1 DEF Joins
  <2>3. Regroups(send, got, r, i)
    BY <1>2, Regrouped
  <2> QED BY <2>1, <2>2, <2>3 DEF Regroups
<1>7. /\ W[way].transit = old /\ Flowing(table, open, f, p).transit = new
      /\ Flowing(table, open, f, p) = [W[way] EXCEPT !.transit = new]
  <2>1. table[p].send = send \o got /\ table[f].recv = r /\ open[f].inq = i
    BY <1>1 DEF Relayed, Linked
  <2>2. /\ open[f].gen = sockets[f].gen /\ open[f].todo = sockets[f].todo
        /\ open[p].given = sockets[p].given
    BY <1>1 DEF Relayed
  <2>3. /\ table[p].send \o table[f].recv \o open[f].inq = new
        /\ connections[p].send \o connections[f].recv \o sockets[f].inq = old
    BY <1>6, <2>1
  <2> HIDE DEF new, old, W
  <2> QED BY <1>5, <2>2, <2>3 DEF Flowing
<1> DEFINE n == Len(send)
           strays == SubSeq(new, n + 1, n + Len(new) - Len(old))
<1>8. strays = got /\ n \in 0..Len(old) /\ SubSeq(old, 1, n) = send /\ SubSeq(old, n + 1, Len(old)) = rest
  <2>1. rest \in Seq(Piece)
    BY <1>6
  <2>2. /\ SubSeq(send \o (got \o rest), Len(send) + 1,
                  Len(send) + Len(send \o (got \o rest)) - Len(send \o rest)) = got
        /\ Len(send) \in 0..Len(send \o rest)
    <3> HIDE DEF send, got, rest
    <3> QED BY <1>2, <2>1, Inserted
  <2>3. SubSeq(send \o rest, 1, Len(send)) = send
        /\ SubSeq(send \o rest, Len(send) + 1, Len(send \o rest)) = rest
    <3> HIDE DEF send, got, rest
    <3> QED BY <1>2, <2>1, Behind
  <2> HIDE DEF send, got, rest
  <2> QED BY <2>2, <2>3
<1>9. T!Origins(strays) = {g} /\ g \in Nat \ {0}
  <2>1. g \in Nat /\ g # 0
    BY <1>1, TablesNumbered DEF Numbered, FifoInv, Sources, SourcesOf
  <2> HIDE DEF got, g, strays
  <2>2. T!Origins(got) \subseteq {g}
    BY <1>2, FromOrigins
  <2>3. 1 \in DOMAIN got
    <3>1. got \in Seq(Piece) /\ got # <<>>
      BY <1>2
    <3>2. Len(got) # 0 /\ Len(got) \in Nat /\ DOMAIN got = 1..Len(got)
      BY <3>1, EmptySeq
    <3> QED BY <3>2
  <2>4. T!Origins(got) # {}
    BY <2>3 DEF T!Origins
  <2> QED BY <1>8, <2>1, <2>2, <2>4
<1>10. \A other \in DOMAIN W : W[other].sender # g
  <2> SUFFICES ASSUME NEW other \in DOMAIN W PROVE W[other].sender # g
    OBVIOUS
  <2>1. PICK h \in Fd, q \in Fd : other = <<h, q>> /\ Linked(connections, h, q)
    BY DEF Ways, LinkedWays
  <2>2. W[other].sender = sockets[h].gen
    BY <2>1 DEF Ways, Flowing
  <2>3. h # fd
    BY <1>1, <2>1 DEF Linked, Relayed
  <2>4. h \in DOMAIN sockets /\ fd \in DOMAIN sockets
    BY <1>1, <2>1 DEF Linked, IInv, TablesAgree
  <2> QED BY <2>2, <2>3, <2>4 DEF Genuine, LinksInv
<1>11. way \in DOMAIN W2
  <2> HIDE DEF W, W2, way
  <2> QED BY <1>5
<1>12. new = SubSeq(old, 1, n) \o strays \o SubSeq(old, n + 1, Len(old))
  <2>1. (send \o got) \o rest = send \o (got \o rest)
    <3>1. rest \in Seq(Piece)
      BY <1>6
    <3> HIDE DEF send, got, rest
    <3>2. Joins(send, got, rest)
      BY <1>2, <3>1, Associative
    <3> QED BY <3>2 DEF Joins
  <2> HIDE DEF strays, n, old, rest, got, send
  <2> QED BY <1>8, <2>1
<1>13. W2[way].transit = new
  <2> HIDE DEF W, W2, new, way
  <2> QED BY <1>5, <1>7
<1> HIDE DEF W, W2, way, g, new, old, n, send, got, rest, back
<1>14. T!Stray(way, n)
  <2>1. W2 = [W EXCEPT ![way] = [W[way] EXCEPT !.transit =
                SubSeq(old, 1, n) \o strays \o SubSeq(old, n + 1, Len(old))]]
    BY <1>5, <1>7, <1>12
  <2>2. Flows = W /\ Flows' = W2
    BY DEF W, W2
  <2> QED BY <1>7, <1>9, <1>10, <1>11, <1>13, <2>1, <2>2 DEF T!Stray, T!OnWay
<1>15. way \in DOMAIN Flows /\ n \in 0..Len(Flows[way].transit)
  <2>1. Flows = W
    BY DEF W
  <2> QED BY <1>5, <1>7, <1>8, <2>1
<1> QED BY <1>14, <1>15 DEF T!Next

LEMMA TunnelFifo ==
  ASSUME IInv, IInv', Genuine, FifoInv, NEW fd \in Fd, Tunnel(fd) PROVE Fifo
<1> DEFINE p == PeerOf(fd)
           table == connections'
           open == sockets'
<1>1. Relayed(fd, p, table, open) /\ sockets' = Drained(fd) /\ made' = made
  BY TunnelRelays
<1>2. FifoInv'
  <2>1. Relayed(fd, p, table, Drained(fd))
    BY <1>1
  <2> HIDE DEF table, p
  <2>2. Sources(table, Drained(fd), made)
    BY <2>1, RelayedSources
  <2> QED BY <1>1, <2>2 DEF FifoInv, table
<1>3. Flows = Ways(connections, sockets) /\ Flows' = Ways(table, open)
  BY FlowsAreWays, FlowsAreWaysNext
<1> HIDE DEF p, table, open
<1>4. CASE \E f : Linked(connections, f, p) /\ f # fd
  <2>1. T!Next
    BY <1>1, <1>3, <1>4, RelayedStray
  <2> QED BY <1>2, <2>1 DEF Fifo
<1>5. CASE \A f : Linked(connections, f, p) => f = fd
  <2>1. \A f, q \in Fd : Linked(table, f, q) <=> Linked(connections, f, q)
    BY <1>1, RelayedLinks
  <2>2. \A f, q \in Fd : Linked(connections, f, q) =>
          Flowing(table, open, f, q) = Flowing(connections, sockets, f, q)
    <3> SUFFICES ASSUME NEW f \in Fd, NEW q \in Fd, Linked(connections, f, q)
                 PROVE  Flowing(table, open, f, q) = Flowing(connections, sockets, f, q)
      OBVIOUS
    <3>1. f = fd \/ q # p
      BY <1>5
    <3> QED BY <1>1, <3>1, RelayedFlows
  <2>3. Ways(table, open) = Ways(connections, sockets)
    BY <2>1, <2>2, QuietWays
  <2> QED BY <1>2, <1>3, <2>3 DEF Fifo
<1> QED BY <1>4, <1>5

-----------------------------------------------------------------------------
(* Every step. *)

LEMMA HandleFifo ==
  ASSUME IInv, IInv', Genuine, Genuine', FifoInv, NEW fd \in Fd, Handle(fd) PROVE Fifo
<1>1. CASE ErrorEvent(fd)
  BY <1>1, EraseFifo DEF ErrorEvent
<1>2. CASE ReadClosed(fd)
  BY <1>2, EraseFifo DEF ReadClosed
<1>3. CASE ReadUnknown(fd)
  BY <1>3, ReadUnknownFifo
<1>4. CASE ReadRequest(fd)
  BY <1>4, ReadRequestFifo
<1>5. CASE Tunnel(fd)
  BY <1>5, TunnelFifo
<1>6. CASE ReadKept(fd)
  BY <1>6, ReadKeptFifo
<1>7. CASE WriteEvent(fd)
  BY <1>7, WriteFifo
<1>8. CASE WriteKilled(fd)
  BY <1>8, HaltFifo DEF WriteKilled
<1> QED BY <1>1, <1>2, <1>3, <1>4, <1>5, <1>6, <1>7, <1>8 DEF Handle

LEMMA StillFifo ==
  ASSUME IInv, IInv', FifoInv, connections' = connections, sockets' = sockets, made' = made
  PROVE  Fifo
<1>1. FifoInv'
  BY DEF FifoInv
<1> QED BY <1>1, QuietStep DEF Fifo

LEMMA StepFifo == IInv /\ IInv' /\ Genuine /\ Genuine' /\ FifoInv /\ [Next]_vars => Fifo
<1> SUFFICES ASSUME IInv, IInv', Genuine, Genuine', FifoInv, [Next]_vars PROVE Fifo
  OBVIOUS
<1>1. CASE UNCHANGED vars
  BY <1>1, StillFifo DEF vars
<1>2. CASE Environment
  BY <1>2, EnvironmentFifo
<1>3. CASE WaitForEvents
  BY <1>3, StillFifo DEF WaitForEvents
<1>4. CASE WaitInterrupted \/ WaitFails \/ ListenerError
  BY <1>4, HaltFifo DEF WaitInterrupted, WaitFails, ListenerError
<1>5. CASE AcceptOne
  BY <1>5, AcceptFifo
<1>6. CASE AcceptRejected \/ AcceptAborted \/ AcceptDone
  BY <1>6, StillFifo DEF AcceptRejected, AcceptAborted, AcceptDone, Turned
<1>7. CASE \E fd \in Fd : Handle(fd)
  BY <1>7, HandleFifo
<1> QED BY <1>1, <1>2, <1>3, <1>4, <1>5, <1>6, <1>7 DEF Next, Server

LEMMA InitFifo == Init => FifoInv /\ T!Init
<1> SUFFICES ASSUME Init PROVE FifoInv /\ T!Init
  OBVIOUS
<1>1. DOMAIN connections = {}
  BY NothingThere DEF Init
<1>2. FifoInv
  BY <1>1 DEF FifoInv, Sources
<1>3. Flows = Ways(connections, sockets)
  BY InitGood, FlowsAreWays
<1>4. LinkedWays(connections) = {}
  BY <1>1 DEF LinkedWays, Linked
<1>5. Flows = [ way \in {} |-> <<>> ]
  BY <1>3, <1>4 DEF Ways
<1> QED BY <1>2, <1>5 DEF T!Init

(* Whatever the peer links, the event order and the failures              *)
(* (proxy_server.cc:119-192): the bytes in a receive queue or buffer come    *)
(* from the connection's own socket, and those that wait for a connection,   *)
(* or were written to it, from the proxy itself or by a link that leads to   *)
(* it, unless the connection they came from is gone.                         *)
THEOREM SourcesAlwaysKnown == Spec => []FifoInv
<1>1. Spec => []IInv /\ []Genuine
  BY Invariance, LinksAlwaysGenuine
<1>2. Init => FifoInv
  BY InitFifo
<1>3. IInv /\ IInv' /\ Genuine /\ Genuine' /\ FifoInv /\ [Next]_vars => FifoInv'
  BY StepFifo DEF Fifo
<1> QED BY <1>1, <1>2, <1>3, PTL DEF Spec

(* What one end of a tunnel sends (socks4.cc:96-117) is in no other tunnel,  *)
(* neither on its way nor among what was given to its ends, though           *)
(* descriptors are used again and links are left behind.                     *)
THEOREM TunnelsNeverMix == Spec => []T!Unmixed
<1>1. Spec => []IInv /\ []Genuine /\ []FifoInv
  BY Invariance, LinksAlwaysGenuine, SourcesAlwaysKnown
<1>2. IInv /\ Genuine /\ FifoInv => T!Unmixed
  BY NeverMixed
<1> QED BY <1>1, <1>2, PTL

(* The event loop implements Tunnels (proxy_server.cc:119-192,               *)
(* socks4.cc:96-117): each of its steps is, seen from the open tunnels, one   *)
(* step of theirs or none.  So what one end of a tunnel is given is what the  *)
(* other sent, in order, nothing lost or twice, as long as both live; only    *)
(* the proxy's replies and what a connection in no tunnel has staged there    *)
(* may be found in between.                                                   *)
THEOREM TunnelsAlwaysFifo == Spec => TunnelsAreFifo
<1>1. Spec => []IInv /\ []Genuine /\ []FifoInv
  BY Invariance, LinksAlwaysGenuine, SourcesAlwaysKnown
<1>2. Init => T!Init
  BY InitFifo
<1>3. IInv /\ IInv' /\ Genuine /\ Genuine' /\ FifoInv /\ [Next]_vars => [T!Next]_Flows
  BY StepFifo DEF Fifo
<1> QED BY <1>1, <1>2, <1>3, PTL DEF Spec, TunnelsAreFifo, T!Spec
=============================================================================
