--------------------------- MODULE LRUCacheProofs ---------------------------
(***************************************************************************)
(* The cache's list, map and count are sound after every sequence of calls, *)
(* and the cache implements the map that LRUMap promises.                   *)
(***************************************************************************)
EXTENDS LRUCache, CountingLemmas, SequenceTheorems

Entry == [ url : Url, data : Data, size : Nat ]

(* A list, a map and a count that describe the same entries. *)
Sound(list, table, held, bytes) ==
  /\ list \in Seq(Node) /\ IsInjective(list)
  /\ \A node \in ToSet(list) :
       /\ node \in DOMAIN held /\ held[node] \in Entry
       /\ held[node].size = DataSize[held[node].data]
       /\ held[node].url \in DOMAIN table /\ table[held[node].url] = node
  /\ \A url \in DOMAIN table : table[url] \in ToSet(list) /\ held[table[url]].url = url
  /\ IsFiniteSet(BytesOf(ToSet(list), Sizes(held)))
  /\ bytes = SizeOf(ToSet(list), Sizes(held))

(* The inductive invariant. *)
IInv ==
  /\ Sound(lruList, cacheMap, entries, currentSize)
  /\ DOMAIN entries = ToSet(lruList)
  /\ SizeBounded

-----------------------------------------------------------------------------
(* What is at the front of a list, and not among the t nodes at its back.   *)
IsFront(front, list, t) ==
  /\ front \in Seq(Node) /\ Len(front) = Len(list) - t /\ IsInjective(front)
  /\ \A i \in 1..Len(list) - t : front[i] = list[i]
  /\ ToSet(list) = ToSet(front) \cup Back(t, list)
  /\ ToSet(front) \cap Back(t, list) = {}

(* The list is cut in two. *)
LEMMA Cut ==
  ASSUME NEW list \in Seq(Node), IsInjective(list), NEW t \in 0..Len(list)
  PROVE  IsFront(SubSeq(list, 1, Len(list) - t), list, t)
<1> DEFINE n == Len(list)
           front == SubSeq(list, 1, n - t)
<1>1. n \in Nat /\ DOMAIN list = 1..n /\ \A i \in 1..n : list[i] \in Node
  BY LenProperties
<1>2. n - t \in 0..n
  BY <1>1
<1>3. /\ front \in Seq(Node) /\ Len(front) = n - t
      /\ \A i \in 1..n - t : front[i] = list[i]
  <2>1. \A i \in 1..n - t : list[i] \in Node
    BY <1>1, <1>2
  <2>2. /\ front \in Seq(Node) /\ Len(front) = (IF 1 <= n - t THEN n - t - 1 + 1 ELSE 0)
        /\ \A i \in 1..n - t - 1 + 1 : front[i] = list[1 + i - 1]
    BY <2>1, <1>2, SubSeqProperties
  <2> QED BY <2>2, <1>2
<1> HIDE DEF front
<1>4. DOMAIN front = 1..n - t
  BY <1>3, LenProperties
<1>5. \A i, j \in 1..n : list[i] = list[j] => i = j
  BY <1>1 DEF IsInjective
<1>6. \A i \in 1..n - t : i \in 1..n
  BY <1>2
<1>7. IsInjective(front)
  BY <1>3, <1>4, <1>5, <1>6 DEF IsInjective
<1>8. ToSet(front) = { list[i] : i \in 1..n - t }
  BY <1>3, <1>4 DEF ToSet
<1>9. ToSet(list) = { list[i] : i \in 1..n } /\ Back(t, list) = { list[i] : i \in n - t + 1 .. n }
  BY <1>1 DEF ToSet, Back
<1>10. /\ \A i : i \in 1..n <=> (i \in 1..n - t \/ i \in n - t + 1 .. n)
       /\ \A i \in 1..n - t : i \notin n - t + 1 .. n
  BY <1>1, <1>2
<1> HIDE DEF n
<1>11. ToSet(list) = ToSet(front) \cup Back(t, list)
  BY <1>8, <1>9, <1>10
<1>12. ToSet(front) \cap Back(t, list) = {}
  <2>1. ASSUME NEW i \in 1..n - t, NEW j \in n - t + 1 .. n PROVE list[i] # list[j]
    <3>1. i \in 1..n /\ j \in 1..n /\ i # j
      BY <1>10
    <3> QED BY <1>5, <3>1
  <2> QED BY <1>8, <1>9, <2>1
<1> QED BY <1>3, <1>7, <1>11, <1>12 DEF n, front, IsFront

(* A cache stays sound when the loop has turned some times. *)
LEMMA AfterSound ==
  ASSUME NEW list, NEW table, NEW held, NEW bytes, Sound(list, table, held, bytes),
         NEW t \in 0..Len(list),
         NEW c, c = After(t, Cache(list, table, bytes), held)
  PROVE  /\ Sound(c.list, c.map, held, c.bytes)
         /\ c.list = SubSeq(list, 1, Len(list) - t)
         /\ \A url \in DOMAIN c.map : url \in DOMAIN table /\ c.map[url] = table[url]
<1> DEFINE gone == Back(t, list)
           size == Sizes(held)
<1>1. /\ c.list = SubSeq(list, 1, Len(list) - t)
      /\ c.map = Restrict(table, DOMAIN table \ { held[node].url : node \in gone })
      /\ c.bytes = bytes - SizeOf(gone, size)
  BY DEF After, Cache
<1>2. list \in Seq(Node) /\ IsInjective(list)
  BY DEF Sound
<1>3. /\ c.list \in Seq(Node) /\ IsInjective(c.list)
      /\ ToSet(list) = ToSet(c.list) \cup gone /\ ToSet(c.list) \cap gone = {}
  <2>1. IsFront(c.list, list, t)
    BY <1>1, <1>2, Cut
  <2> HIDE DEF gone
  <2> QED BY <2>1 DEF IsFront, gone
<1> HIDE DEF gone, size
<1>4. /\ IsFiniteSet(BytesOf(ToSet(c.list), size))
      /\ SizeOf(ToSet(c.list), size) \in Nat /\ SizeOf(gone, size) \in Nat
      /\ SizeOf(ToSet(list), size) = SizeOf(ToSet(c.list), size) + SizeOf(gone, size)
  <2>1. IsFiniteSet(BytesOf(ToSet(list), size))
    BY DEF Sound, size
  <2> QED BY <1>3, <2>1, FewerBytes, SMTT(30)
<1>5. c.bytes = SizeOf(ToSet(c.list), size)
  <2>1. bytes = SizeOf(ToSet(list), size)
    BY DEF Sound, size
  <2> QED BY <1>1, <1>4, <2>1
<1>6. /\ DOMAIN c.map = DOMAIN table \ { held[node].url : node \in gone }
      /\ \A url \in DOMAIN c.map : url \in DOMAIN table /\ c.map[url] = table[url]
  BY <1>1 DEF Restrict
<1>7. ASSUME NEW node \in ToSet(c.list)
      PROVE  /\ node \in DOMAIN held /\ held[node] \in Entry
             /\ held[node].size = DataSize[held[node].data]
             /\ held[node].url \in DOMAIN c.map /\ c.map[held[node].url] = node
  <2>1. /\ node \in DOMAIN held /\ held[node] \in Entry
        /\ held[node].size = DataSize[held[node].data]
        /\ held[node].url \in DOMAIN table /\ table[held[node].url] = node
    BY <1>3 DEF Sound
  <2>2. ASSUME NEW other \in gone PROVE held[other].url # held[node].url
    <3>1. other \in ToSet(list) /\ other # node
      BY <1>3
    <3>2. table[held[other].url] = other
      BY <3>1 DEF Sound
    <3> QED BY <2>1, <3>1, <3>2
  <2> QED BY <1>6, <2>1, <2>2
<1>8. ASSUME NEW url \in DOMAIN c.map
      PROVE  c.map[url] \in ToSet(c.list) /\ held[c.map[url]].url = url
  <2>1. table[url] \in ToSet(list) /\ held[table[url]].url = url
    BY <1>6 DEF Sound
  <2>2. table[url] \notin gone
    BY <1>6, <2>1
  <2> QED BY <1>3, <1>6, <2>1, <2>2
<1> QED BY <1>1, <1>3, <1>4, <1>5, <1>6, <1>7, <1>8 DEF Sound, size

(* The loop ends, after the first number of turns that leaves its condition *)
(* false.                                                                   *)
LEMMA Evicted ==
  ASSUME NEW list, NEW table, NEW held, NEW bytes, Sound(list, table, held, bytes),
         NEW required \in Nat,
         NEW c, c = evictIfNeeded(Cache(list, table, bytes), held, required)
  PROVE  \E t \in 0..Len(list) :
           /\ c = After(t, Cache(list, table, bytes), held)
           /\ ~ Turns(c, required)
           /\ \A k \in 0..t-1 : Turns(After(k, Cache(list, table, bytes), held), required)
<1> DEFINE cache == Cache(list, table, bytes)
           Ends(t) == ~ Turns(After(t, cache, held), required)
           T == { t \in 0..Len(list) : Ends(t) }
<1>1. Len(list) \in Nat /\ cache.list = list
  BY LenProperties DEF Sound, Cache
<1>2. After(Len(list), cache, held).list = <<>>
  <2>1. After(Len(list), cache, held).list = SubSeq(list, 1, Len(list) - Len(list))
    BY <1>1 DEF After, Cache
  <2>2. SubSeq(list, 1, 0) = <<>>
    BY SubSeqEmpty
  <2> QED BY <1>1, <2>1, <2>2
<1>3. Len(list) \in T
  BY <1>1, <1>2 DEF Turns
<1> HIDE DEF cache
<1>4. PICK m \in T : \A k \in T : m <= k
  <2>1. T \subseteq Nat /\ T # {}
    BY <1>3
  <2> HIDE DEF T
  <2> QED BY <2>1, LeastNatural
<1> DEFINE First(t) == Ends(t) /\ \A k \in 0..t-1 : ~ Ends(k)
<1>5. First(m)
  <2>1. Ends(m)
    OBVIOUS
  <2>2. ASSUME NEW k \in 0..m-1 PROVE ~ Ends(k)
    BY <1>1, <1>4
  <2> QED BY <2>1, <2>2
<1> DEFINE last == CHOOSE t \in 0..Len(list) : First(t)
<1>6. m \in 0..Len(list)
  OBVIOUS
<1>7. c = After(last, cache, held)
  BY <1>1 DEF evictIfNeeded, cache
<1> HIDE DEF First
<1>8. last \in 0..Len(list) /\ First(last)
  BY <1>5, <1>6
<1> HIDE DEF last
<1> QED BY <1>7, <1>8 DEF First, cache

-----------------------------------------------------------------------------
(* A node that moves to the front changes places with no other. *)
LEMMA Moved ==
  ASSUME lruList \in Seq(Node), IsInjective(lruList), NEW node \in ToSet(lruList),
         NEW list, list = moveToFront(node)
  PROVE  /\ list \in Seq(Node) /\ Len(list) = Len(lruList)
         /\ IsInjective(list) /\ ToSet(list) = ToSet(lruList)
         /\ \E at \in DOMAIN lruList :
              /\ lruList[at] = node
              /\ at = CHOOSE i \in DOMAIN lruList : lruList[i] = node
              /\ \A i \in DOMAIN lruList :
                   list[i] = IF i = 1 THEN node ELSE lruList[IF i <= at THEN i - 1 ELSE i]
<1> DEFINE n == Len(lruList)
           at == CHOOSE i \in DOMAIN lruList : lruList[i] = node
<1>1. n \in Nat /\ DOMAIN lruList = 1..n /\ \A i \in 1..n : lruList[i] \in Node
  BY LenProperties
<1>2. at \in 1..n /\ lruList[at] = node
  BY <1>1 DEF ToSet
<1>3. list = [ i \in 1..n |-> IF i = 1 THEN node ELSE lruList[IF i <= at THEN i - 1 ELSE i] ]
  BY <1>1 DEF moveToFront
<1> HIDE DEF at
<1>4. \A i, j \in 1..n : lruList[i] = lruList[j] => i = j
  BY <1>1 DEF IsInjective
<1>5. list \in Seq(Node) /\ Len(list) = n
  <2>1. \A i \in 1..n : list[i] \in Node
    BY <1>1, <1>2, <1>3
  <2> QED BY <1>1, <1>3, <2>1
<1> DEFINE from(i) == IF i = 1 THEN at ELSE IF i <= at THEN i - 1 ELSE i
<1>6. \A i \in 1..n : from(i) \in 1..n /\ list[i] = lruList[from(i)]
  BY <1>1, <1>2, <1>3
<1>7. \A i, j \in 1..n : from(i) = from(j) => i = j
  BY <1>1, <1>2
<1>8. \A k \in 1..n : \E i \in 1..n : from(i) = k
  <2> TAKE k \in 1..n
  <2>1. CASE k = at
    <3>1. 1 \in 1..n /\ from(1) = k
      BY <1>1, <1>2, <2>1
    <3> QED BY <3>1
  <2>2. CASE k < at
    <3>1. k + 1 \in 1..n /\ from(k + 1) = k
      BY <1>1, <1>2, <2>2
    <3> QED BY <3>1
  <2>3. CASE k > at
    <3>1. from(k) = k
      BY <1>1, <1>2, <2>3
    <3> QED BY <3>1
  <2> QED BY <1>1, <1>2, <2>1, <2>2, <2>3
<1> HIDE DEF from
<1>9. DOMAIN list = 1..n
  BY <1>3
<1>10. IsInjective(list)
  BY <1>4, <1>6, <1>7, <1>9, SMTT(30) DEF IsInjective
<1>11. ToSet(list) = ToSet(lruList)
  <2>1. ToSet(list) = { list[i] : i \in 1..n } /\ ToSet(lruList) = { lruList[i] : i \in 1..n }
    BY <1>1, <1>9 DEF ToSet
  <2>2. \A i \in 1..n : \E k \in 1..n : list[i] = lruList[k]
    BY <1>6
  <2>3. \A k \in 1..n : \E i \in 1..n : list[i] = lruList[k]
    BY <1>6, <1>8
  <2>4. ToSet(list) \subseteq ToSet(lruList)
    BY <2>1, <2>2
  <2>5. ToSet(lruList) \subseteq ToSet(list)
    BY <2>1, <2>3
  <2> QED BY <2>4, <2>5
<1> HIDE DEF n
<1>12. /\ at \in DOMAIN lruList /\ lruList[at] = node
       /\ \A i \in DOMAIN lruList :
            list[i] = IF i = 1 THEN node ELSE lruList[IF i <= at THEN i - 1 ELSE i]
  BY <1>1, <1>2, <1>3
<1> QED BY <1>5, <1>10, <1>11, <1>12 DEF at, n

(* Nothing is held by a sound cache without entries. *)
LEMMA Emptied ==
  ASSUME NEW table, NEW held, NEW bytes, Sound(<<>>, table, held, bytes)
  PROVE  bytes = 0
<1>1. ToSet(<<>>) = {}
  BY DEF ToSet
<1> QED BY <1>1, NoBytes DEF Sound

(* Freeing the nodes that are off the list disturbs no entry. *)
LEMMA LeftSound ==
  ASSUME NEW list, NEW table, NEW held, NEW bytes, Sound(list, table, held, bytes),
         Leave(Cache(list, table, bytes), held)
  PROVE  /\ Sound(lruList', cacheMap', entries', currentSize')
         /\ (DOMAIN entries = ToSet(lruList))'
         /\ \A node \in ToSet(list) : entries'[node] = held[node]
<1>1. /\ lruList' = list /\ cacheMap' = table /\ currentSize' = bytes
      /\ entries' = [ node \in ToSet(list) |-> held[node] ]
  BY DEF Leave, Cache, Restrict
<1>2. \A node \in ToSet(list) : Sizes(held)[node] = Sizes(entries')[node]
  BY <1>1 DEF Sound, Sizes
<1>3. /\ BytesOf(ToSet(list), Sizes(held)) = BytesOf(ToSet(list), Sizes(entries'))
      /\ SizeOf(ToSet(list), Sizes(held)) = SizeOf(ToSet(list), Sizes(entries'))
  BY <1>2, SameBytes
<1>4. Sound(list, table, entries', bytes)
  BY <1>1, <1>3 DEF Sound
<1> QED BY <1>1, <1>4

(* What held is after an update in place: new data in one node. *)
Updated(held, node, data) ==
  /\ held[node] = [entries[node] EXCEPT !.data = data, !.size = DataSize[data]]
  /\ \A other \in ToSet(lruList) \ {node} : held[other] = entries[other]

(* An update in place is counted, before anything is evicted. *)
LEMMA UpdatedSound ==
  ASSUME IInv, NEW url \in DOMAIN cacheMap, NEW data \in Data,
         NEW node, node = cacheMap[url],
         NEW held, held = [entries EXCEPT ![node].data = data, ![node].size = DataSize[data]],
         NEW bytes, bytes = currentSize - entries[node].size + DataSize[data]
  PROVE  /\ Sound(moveToFront(node), cacheMap, held, bytes)
         /\ node \in ToSet(lruList) /\ Updated(held, node, data)
<1> DEFINE S == ToSet(lruList)
           list == moveToFront(node)
<1>1. Sound(lruList, cacheMap, entries, currentSize) /\ DOMAIN entries = S
  BY DEF IInv
<1>2. node \in S /\ entries[node] \in Entry /\ entries[node].url = url
  BY <1>1 DEF Sound
<1>3. DataSize[data] \in Nat
  BY SizeAssumption DEF Data
<1>4. list \in Seq(Node) /\ IsInjective(list) /\ ToSet(list) = S
  BY <1>1, <1>2, Moved DEF Sound
<1> HIDE DEF S, list
<1>5. /\ DOMAIN held = S
      /\ held[node] = [entries[node] EXCEPT !.data = data, !.size = DataSize[data]]
      /\ \A other \in S \ {node} : held[other] = entries[other]
  BY <1>1, <1>2
<1>6. /\ held[node] \in Entry /\ held[node].size = DataSize[data]
      /\ held[node].data = data /\ held[node].url = url
  BY <1>2, <1>3, <1>5 DEF Entry
<1> DEFINE others == S \ {node}
           one == {node}
           old == Sizes(entries)
           new == Sizes(held)
<1>7. /\ old[node] = entries[node].size /\ new[node] = DataSize[data]
      /\ \A other \in others : old[other] = new[other]
  BY <1>1, <1>2, <1>5, <1>6 DEF Sizes
<1>8. S = others \cup one /\ others \cap one = {} /\ entries[node].size \in Nat
  BY <1>2 DEF Entry
<1>9. IsFiniteSet(BytesOf(S, old)) /\ currentSize = SizeOf(S, old)
  BY <1>1 DEF Sound, S
<1> HIDE DEF others, one, old, new
<1>10. /\ IsFiniteSet(BytesOf(others, old)) /\ SizeOf(others, old) \in Nat
       /\ SizeOf(S, old) = SizeOf(others, old) + SizeOf(one, old)
  BY <1>8, <1>9, FewerBytes
<1>11. /\ BytesOf(others, old) = BytesOf(others, new)
       /\ SizeOf(others, old) = SizeOf(others, new)
  BY <1>7, SameBytes
<1>12. SizeOf(one, old) = entries[node].size
  BY <1>7, <1>8, OneBytes DEF one
<1>13. IsFiniteSet(BytesOf(one, new)) /\ SizeOf(one, new) = DataSize[data]
  BY <1>3, <1>7, OneBytes DEF one
<1>14. /\ IsFiniteSet(BytesOf(S, new))
       /\ SizeOf(S, new) = SizeOf(others, new) + SizeOf(one, new)
  BY <1>8, <1>10, <1>11, <1>13, MoreBytes, ZenonT(40)
<1>15. bytes = SizeOf(S, new)
  BY <1>3, <1>8, <1>9, <1>10, <1>11, <1>12, <1>13, <1>14
<1>16. ASSUME NEW other \in S
       PROVE  /\ other \in DOMAIN held /\ held[other] \in Entry
              /\ held[other].size = DataSize[held[other].data]
              /\ held[other].url \in DOMAIN cacheMap /\ cacheMap[held[other].url] = other
  <2>1. CASE other = node
    BY <1>2, <1>5, <1>6, <2>1
  <2>2. CASE other # node
    BY <1>1, <1>5, <2>2 DEF Sound, S
  <2> QED BY <2>1, <2>2
<1>17. ASSUME NEW u \in DOMAIN cacheMap
       PROVE  cacheMap[u] \in S /\ held[cacheMap[u]].url = u
  <2>1. cacheMap[u] \in S /\ entries[cacheMap[u]].url = u
    BY <1>1 DEF Sound, S
  <2>2. CASE cacheMap[u] = node
    BY <1>2, <1>6, <2>1, <2>2
  <2>3. CASE cacheMap[u] # node
    BY <1>5, <2>1, <2>3
  <2> QED BY <2>1, <2>2, <2>3
<1>18. Sound(list, cacheMap, held, bytes)
  BY <1>4, <1>14, <1>15, <1>16, <1>17 DEF Sound, new
<1> QED BY <1>2, <1>5, <1>18 DEF S, list, Updated

(* A new entry in a node that is not in use is counted. *)
LEMMA InsertedSound ==
  ASSUME NEW list, NEW table, NEW bytes, Sound(list, table, entries, bytes),
         NEW url \in Url, url \notin DOMAIN table, NEW data \in Data,
         NEW node \in Node, node \notin ToSet(list),
         NEW held, held = Put(entries, node, [url |-> url, data |-> data, size |-> DataSize[data]])
  PROVE  /\ Sound(<<node>> \o list, Put(table, url, node), held, bytes + DataSize[data])
         /\ ToSet(<<node>> \o list) = ToSet(list) \cup {node}
         /\ Len(<<node>> \o list) = Len(list) + 1
         /\ \A i \in 1..Len(list) + 1 : (<<node>> \o list)[i] = IF i = 1 THEN node ELSE list[i - 1]
         /\ held[node] = [url |-> url, data |-> data, size |-> DataSize[data]]
         /\ \A other \in ToSet(list) : held[other] = entries[other]
<1> DEFINE S == ToSet(list)
           one == {node}
           all == S \cup one
           longer == <<node>> \o list
           wider == Put(table, url, node)
           old == Sizes(entries)
           new == Sizes(held)
<1>1. list \in Seq(Node) /\ IsInjective(list) /\ DataSize[data] \in Nat
  BY SizeAssumption DEF Sound, Data
<1>2. Len(list) \in Nat /\ DOMAIN list = 1..Len(list)
  BY <1>1, LenProperties
<1>3. /\ longer \in Seq(Node) /\ Len(longer) = Len(list) + 1
      /\ \A i \in 1..Len(list) + 1 : longer[i] = IF i = 1 THEN node ELSE list[i - 1]
  <2>1. <<node>> \in Seq(Node) /\ Len(<<node>>) = 1 /\ <<node>>[1] = node
    OBVIOUS
  <2>2. /\ longer \in Seq(Node) /\ Len(longer) = 1 + Len(list)
        /\ \A i \in 1..1 + Len(list) : longer[i] = IF i <= 1 THEN <<node>>[i] ELSE list[i - 1]
    BY <1>1, <2>1, ConcatProperties
  <2> QED BY <1>2, <2>1, <2>2
<1>4. DOMAIN longer = 1..Len(list) + 1
  BY <1>3, LenProperties
<1> HIDE DEF longer
<1>5. S = { list[i] : i \in 1..Len(list) }
  BY <1>2 DEF ToSet
<1>6. ToSet(longer) = { longer[i] : i \in 1..Len(list) + 1 }
  BY <1>4 DEF ToSet
<1> HIDE DEF S
<1>7. ToSet(longer) = all
  <2>1. ASSUME NEW x \in ToSet(longer) PROVE x \in all
    BY <1>2, <1>3, <1>5, <1>6
  <2>2. ASSUME NEW i \in 1..Len(list) PROVE list[i] \in ToSet(longer)
    <3>1. i + 1 \in 1..Len(list) + 1 /\ longer[i + 1] = list[i]
      BY <1>2, <1>3
    <3> QED BY <1>6, <3>1
  <2>3. node \in ToSet(longer)
    BY <1>2, <1>3, <1>6
  <2> QED BY <1>5, <2>1, <2>2, <2>3
<1>8. IsInjective(longer)
  <2>1. \A i, j \in 1..Len(list) : list[i] = list[j] => i = j
    BY <1>1, <1>2 DEF IsInjective
  <2>2. \A i \in 1..Len(list) : list[i] # node
    BY <1>5 DEF S
  <2>3. ASSUME NEW i \in 1..Len(list) + 1, NEW j \in 1..Len(list) + 1,
               longer[i] = longer[j]
        PROVE  i = j
    <3>1. CASE i = 1 /\ j = 1
      BY <3>1
    <3>2. CASE i = 1 /\ j # 1
      <4>1. j - 1 \in 1..Len(list)
        BY <1>2, <3>2
      <4>2. longer[i] = node /\ longer[j] = list[j - 1]
        BY <1>3, <3>2
      <4> QED BY <2>2, <2>3, <4>1, <4>2
    <3>3. CASE i # 1 /\ j = 1
      <4>1. i - 1 \in 1..Len(list)
        BY <1>2, <3>3
      <4>2. longer[j] = node /\ longer[i] = list[i - 1]
        BY <1>3, <3>3
      <4> QED BY <2>2, <2>3, <4>1, <4>2
    <3>4. CASE i # 1 /\ j # 1
      <4>1. i - 1 \in 1..Len(list) /\ j - 1 \in 1..Len(list)
        BY <1>2, <3>4
      <4>2. longer[i] = list[i - 1] /\ longer[j] = list[j - 1]
        BY <1>3, <3>4
      <4>3. i - 1 = j - 1
        BY <2>1, <2>3, <4>1, <4>2
      <4> QED BY <1>2, <4>3
    <3> QED BY <3>1, <3>2, <3>3, <3>4
  <2> QED BY <1>4, <2>3 DEF IsInjective
<1>9. /\ held[node] = [url |-> url, data |-> data, size |-> DataSize[data]]
      /\ DOMAIN held = DOMAIN entries \cup one
      /\ \A other \in S : held[other] = entries[other]
  BY DEF Put, S, Sound
<1>10. /\ DOMAIN wider = DOMAIN table \cup {url} /\ wider[url] = node
       /\ \A u \in DOMAIN table : wider[u] = table[u]
  BY DEF Put
<1>11. /\ new[node] = DataSize[data]
       /\ \A other \in S : old[other] = new[other]
  BY <1>9 DEF Sizes, Sound, S
<1>12. IsFiniteSet(BytesOf(S, old)) /\ bytes = SizeOf(S, old)
  BY DEF Sound, S
<1> HIDE DEF old, new, wider
<1>13. /\ BytesOf(S, old) = BytesOf(S, new) /\ SizeOf(S, old) = SizeOf(S, new)
  BY <1>11, SameBytes
<1>14. IsFiniteSet(BytesOf(one, new)) /\ SizeOf(one, new) = DataSize[data]
  BY <1>1, <1>11, OneBytes
<1>15. all = S \cup one /\ S \cap one = {}
  BY DEF S
<1> HIDE DEF all
<1>16. IsFiniteSet(BytesOf(all, new)) /\ SizeOf(all, new) = bytes + DataSize[data]
  <2>1. IsFiniteSet(BytesOf(S, new))
    BY <1>12, <1>13
  <2>2. IsFiniteSet(BytesOf(all, new)) /\ SizeOf(all, new) = SizeOf(S, new) + SizeOf(one, new)
    BY <1>14, <1>15, <2>1, MoreBytes
  <2> QED BY <1>12, <1>13, <1>14, <2>2
<1>17. ASSUME NEW other \in all
       PROVE  /\ other \in DOMAIN held /\ held[other] \in Entry
              /\ held[other].size = DataSize[held[other].data]
              /\ held[other].url \in DOMAIN wider /\ wider[held[other].url] = other
  <2>1. CASE other = node
    BY <1>1, <1>9, <1>10, <2>1 DEF Entry
  <2>2. CASE other # node
    <3>1. /\ other \in S /\ other \in DOMAIN entries /\ entries[other] \in Entry
          /\ entries[other].size = DataSize[entries[other].data]
          /\ entries[other].url \in DOMAIN table /\ table[entries[other].url] = other
      BY <1>15, <2>2 DEF Sound, S
    <3> QED BY <1>9, <1>10, <3>1
  <2> QED BY <2>1, <2>2
<1>18. ASSUME NEW u \in DOMAIN wider
       PROVE  wider[u] \in all /\ held[wider[u]].url = u
  <2>1. CASE u = url
    BY <1>9, <1>10, <1>15, <2>1
  <2>2. CASE u # url
    <3>1. u \in DOMAIN table /\ table[u] \in S /\ entries[table[u]].url = u
      BY <1>10, <2>2 DEF Sound, S
    <3> QED BY <1>9, <1>10, <1>15, <3>1
  <2> QED BY <2>1, <2>2
<1>19. Sound(longer, wider, held, bytes + DataSize[data])
  BY <1>3, <1>7, <1>8, <1>16, <1>17, <1>18 DEF Sound, new
<1> QED BY <1>3, <1>7, <1>9, <1>19 DEF longer, wider, all, S

-----------------------------------------------------------------------------
(* No entry is moved to the front but by a sound cache. *)
LEMMA GetKeeps ==
  ASSUME IInv, NEW url \in Url, get(url)
  PROVE  IInv'
<1>1. Sound(lruList, cacheMap, entries, currentSize) /\ DOMAIN entries = ToSet(lruList) /\ SizeBounded
  BY DEF IInv
<1>2. UNCHANGED <<entries, cacheMap, currentSize>>
  BY DEF get
<1>3. /\ lruList' \in Seq(Node) /\ Len(lruList') = Len(lruList)
      /\ IsInjective(lruList') /\ ToSet(lruList') = ToSet(lruList)
  <2>1. CASE url \in DOMAIN cacheMap
    <3>1. lruList' = moveToFront(cacheMap[url]) /\ cacheMap[url] \in ToSet(lruList)
      BY <1>1, <2>1 DEF get, Sound
    <3> QED BY <1>1, <3>1, Moved DEF Sound
  <2>2. CASE url \notin DOMAIN cacheMap
    BY <1>1, <2>2 DEF get, Sound
  <2> QED BY <2>1, <2>2
<1>4. Sound(lruList', cacheMap', entries', currentSize')
  BY <1>1, <1>2, <1>3 DEF Sound
<1>5. SizeBounded'
  BY <1>1, <1>2, <1>3 DEF SizeBounded
<1> QED BY <1>1, <1>2, <1>3, <1>4, <1>5 DEF IInv

(* An update in place may evict anything, its own entry too. *)
LEMMA PutExistingKeeps ==
  ASSUME IInv, NEW url \in Url, NEW data \in Data, putExisting(url, data)
  PROVE  IInv'
<1> DEFINE node == cacheMap[url]
           held == [entries EXCEPT ![node].data = data, ![node].size = DataSize[data]]
           bytes == currentSize - entries[node].size + DataSize[data]
           full == Cache(moveToFront(node), cacheMap, bytes)
           left == evictIfNeeded(full, held, 0)
<1>1. url \in DOMAIN cacheMap /\ Leave(left, held)
  BY DEF putExisting
<1>2. Sound(moveToFront(node), cacheMap, held, bytes)
  BY <1>1, UpdatedSound
<1> HIDE DEF held, bytes, node
<1>3. PICK t \in 0..Len(moveToFront(node)) : left = After(t, full, held) /\ ~ Turns(left, 0)
  <2>1. 0 \in Nat
    OBVIOUS
  <2> QED BY <1>2, <2>1, Evicted
<1>4. Sound(left.list, left.map, held, left.bytes)
  BY <1>2, <1>3, AfterSound
<1>5. left = Cache(left.list, left.map, left.bytes)
  BY <1>3 DEF After, Cache
<1> HIDE DEF left, held
<1>6. /\ Sound(lruList', cacheMap', entries', currentSize')
      /\ (DOMAIN entries = ToSet(lruList))'
  <2>1. Leave(Cache(left.list, left.map, left.bytes), held)
    BY <1>1, <1>5
  <2> QED BY <1>4, <2>1, LeftSound
<1>7. SizeBounded'
  <2>1. currentSize' = left.bytes /\ lruList' = left.list
    BY <1>1 DEF Leave
  <2>2. left.bytes \in Nat
    BY <1>4, FS_CardinalityType DEF Sound, SizeOf
  <2>3. left.bytes <= MaxBytes
    <3>1. CASE left.list = <<>>
      BY <1>4, <3>1, Emptied, SizeAssumption
    <3>2. CASE left.list # <<>>
      BY <1>3, <2>2, <3>2, SizeAssumption DEF Turns
    <3> QED BY <3>1, <3>2
  <2> QED BY <2>1, <2>2, <2>3, SizeAssumption DEF SizeBounded
<1> QED BY <1>6, <1>7 DEF IInv

(* A new entry is within the limit, or alone. *)
LEMMA PutNewKeeps ==
  ASSUME IInv, NEW url \in Url, NEW data \in Data, putNew(url, data)
  PROVE  IInv'
<1> DEFINE full == Cache(lruList, cacheMap, currentSize)
           room == evictIfNeeded(full, entries, DataSize[data])
           held(node) == Put(entries, node, [url |-> url, data |-> data, size |-> DataSize[data]])
<1>1. DataSize[data] \in Nat
  BY SizeAssumption DEF Data
<1>2. PICK node \in Node \ ToSet(room.list) :
        Leave(Cache(<<node>> \o room.list, Put(room.map, url, node), room.bytes + DataSize[data]), held(node))
  BY DEF putNew
<1>3. Sound(lruList, cacheMap, entries, currentSize)
  BY DEF IInv
<1>4. PICK t \in 0..Len(lruList) : room = After(t, full, entries) /\ ~ Turns(room, DataSize[data])
  BY <1>1, <1>3, Evicted
<1>5. /\ Sound(room.list, room.map, entries, room.bytes)
      /\ \A u \in DOMAIN room.map : u \in DOMAIN cacheMap
  BY <1>3, <1>4, AfterSound
<1>6. url \notin DOMAIN room.map
  BY <1>5 DEF putNew
<1> HIDE DEF room
<1>7. /\ Sound(<<node>> \o room.list, Put(room.map, url, node), held(node), room.bytes + DataSize[data])
      /\ Len(<<node>> \o room.list) = Len(room.list) + 1
  BY <1>5, <1>6, InsertedSound
<1> HIDE DEF held
<1>8. /\ Sound(lruList', cacheMap', entries', currentSize')
      /\ (DOMAIN entries = ToSet(lruList))'
  BY <1>2, <1>7, LeftSound
<1>9. SizeBounded'
  <2>1. currentSize' = room.bytes + DataSize[data] /\ lruList' = <<node>> \o room.list
    BY <1>2 DEF Leave, Cache
  <2>2. room.bytes \in Nat
    BY <1>5, FS_CardinalityType DEF Sound, SizeOf
  <2>3. CASE room.list = <<>>
    BY <1>7, <2>1, <2>3 DEF SizeBounded
  <2>4. CASE room.list # <<>>
    BY <1>1, <1>4, <2>1, <2>2, <2>4, SizeAssumption DEF Turns, SizeBounded
  <2> QED BY <2>3, <2>4
<1> QED BY <1>8, <1>9 DEF IInv

(* The cache is sound and bounded after every sequence of gets and puts.    *)
THEOREM CacheInvariance == Spec => []IInv
<1>1. Init => IInv
  <2> SUFFICES ASSUME Init PROVE IInv
    OBVIOUS
  <2>1. /\ lruList = <<>> /\ ToSet(lruList) = {} /\ DOMAIN entries = {} /\ DOMAIN cacheMap = {}
        /\ currentSize = 0
    BY DEF Init, ToSet
  <2>2. lruList \in Seq(Node) /\ IsInjective(lruList)
    BY <2>1, EmptySeq DEF IsInjective
  <2>3. Sound(lruList, cacheMap, entries, currentSize)
    BY <2>1, <2>2, NoBytes DEF Sound
  <2>4. SizeBounded
    BY <2>1, SizeAssumption DEF SizeBounded
  <2> QED BY <2>1, <2>3, <2>4 DEF IInv
<1>2. IInv /\ [Next]_vars => IInv'
  <2> SUFFICES ASSUME IInv, [Next]_vars PROVE IInv'
    OBVIOUS
  <2>1. ASSUME NEW url \in Url, get(url) PROVE IInv'
    BY <2>1, GetKeeps
  <2>2. ASSUME NEW url \in Url, NEW data \in Data, putExisting(url, data) PROVE IInv'
    BY <2>2, PutExistingKeeps
  <2>3. ASSUME NEW url \in Url, NEW data \in Data, putNew(url, data) PROVE IInv'
    BY <2>3, PutNewKeeps
  <2>4. CASE UNCHANGED vars
    BY <2>4 DEF vars, IInv, Sound, SizeBounded
  <2> QED BY <2>1, <2>2, <2>3, <2>4 DEF Next
<1> QED BY <1>1, <1>2, PTL DEF Spec

(* The list and the map always hold the same entries, each once.            *)
THEOREM ContainersAlwaysAgree == Spec => []ContainersAgree
<1>1. IInv => ContainersAgree
  <2> SUFFICES ASSUME IInv PROVE ContainersAgree
    OBVIOUS
  <2>1. Sound(lruList, cacheMap, entries, currentSize) /\ DOMAIN entries = ToSet(lruList)
    BY DEF IInv
  <2>2. { cacheMap[url] : url \in DOMAIN cacheMap } = ToSet(lruList)
    BY <2>1 DEF Sound
  <2> QED BY <2>1, <2>2 DEF ContainersAgree, Sound
<1> QED BY <1>1, CacheInvariance, PTL

(* The count is always the size of the data held.                           *)
THEOREM SizeAlwaysCounted == Spec => []SizeCounted
<1>1. IInv => SizeCounted
  <2> SUFFICES ASSUME IInv PROVE SizeCounted
    OBVIOUS
  <2> DEFINE size == [ node \in DOMAIN entries |-> DataSize[entries[node].data] ]
  <2>1. Sound(lruList, cacheMap, entries, currentSize)
    BY DEF IInv
  <2>2. \A node \in ToSet(lruList) : Sizes(entries)[node] = size[node]
    BY <2>1 DEF Sound, Sizes
  <2> HIDE DEF size
  <2>3. SizeOf(ToSet(lruList), Sizes(entries)) = SizeOf(ToSet(lruList), size)
    BY <2>2, SameBytes
  <2> QED BY <2>1, <2>3 DEF Sound, SizeCounted, size
<1> QED BY <1>1, CacheInvariance, PTL

(* The limit is never exceeded but by an entry that is alone.               *)
THEOREM SizeAlwaysBounded == Spec => []SizeBounded
<1>1. IInv => SizeBounded
  BY DEF IInv
<1> QED BY <1>1, CacheInvariance, PTL

-----------------------------------------------------------------------------
(* The urls of a list, and the data of a map, as the promise sees them.     *)
OrderOf(list, held) == [ i \in DOMAIN list |-> held[list[i]].url ]
ContentOf(table, held) == [ url \in DOMAIN table |-> held[table[url]].data ]

(* The data that new has for the urls of a list are those of its entries.   *)
Describes(new, list, held) ==
  \A node \in ToSet(list) : held[node].url \in DOMAIN new /\ new[held[node].url] = held[node].data

(* A sound cache has one url for each entry, and its data in the map.       *)
LEMMA Described ==
  ASSUME NEW list, NEW table, NEW held, NEW bytes, Sound(list, table, held, bytes),
         NEW urls, urls = OrderOf(list, held)
  PROVE  /\ urls \in Seq(Url) /\ Len(urls) = Len(list) /\ IsInjective(urls)
         /\ \A i \in 1..Len(list) : urls[i] = held[list[i]].url
         /\ ToSet(urls) = { held[node].url : node \in ToSet(list) }
         /\ ToSet(urls) = DOMAIN table
         /\ Describes(ContentOf(table, held), list, held)
<1>1. list \in Seq(Node) /\ Len(list) \in Nat /\ DOMAIN list = 1..Len(list)
  BY LenProperties DEF Sound
<1>2. \A i \in 1..Len(list) : list[i] \in ToSet(list) /\ held[list[i]].url \in Url
  BY <1>1 DEF ToSet, Sound, Entry
<1>3. urls = [ i \in 1..Len(list) |-> held[list[i]].url ]
  BY <1>1 DEF OrderOf
<1>4. urls \in Seq(Url) /\ Len(urls) = Len(list)
  BY <1>1, <1>2, <1>3
<1>5. IsInjective(urls)
  <2> SUFFICES ASSUME NEW i \in 1..Len(list), NEW j \in 1..Len(list), urls[i] = urls[j] PROVE i = j
    BY <1>3 DEF IsInjective
  <2>1. held[list[i]].url = held[list[j]].url
    BY <1>3
  <2>2. list[i] = list[j]
    BY <1>2, <2>1 DEF Sound
  <2> QED BY <1>1, <2>2 DEF Sound, IsInjective
<1>6. ToSet(urls) = { held[node].url : node \in ToSet(list) }
  <2>1. ToSet(urls) = { urls[i] : i \in 1..Len(list) } /\ ToSet(list) = { list[i] : i \in 1..Len(list) }
    BY <1>1, <1>3 DEF ToSet
  <2>2. ToSet(urls) \subseteq { held[node].url : node \in ToSet(list) }
    BY <1>3, <2>1
  <2>3. { held[node].url : node \in ToSet(list) } \subseteq ToSet(urls)
    BY <1>3, <2>1
  <2> QED BY <2>2, <2>3
<1>7. { held[node].url : node \in ToSet(list) } = DOMAIN table
  BY ZenonT(40) DEF Sound
<1>8. Describes(ContentOf(table, held), list, held)
  BY DEF Describes, ContentOf, Sound
<1> QED BY <1>3, <1>4, <1>5, <1>6, <1>7, <1>8

(* What the promise counts is what the cache counts. *)
LEMMA SameTotal ==
  ASSUME NEW list, NEW table, NEW held, NEW bytes, Sound(list, table, held, bytes),
         NEW new, Describes(new, list, held), NEW urls, urls = OrderOf(list, held)
  PROVE  Promised!Total(urls, new) = bytes
<1> DEFINE S == ToSet(list)
           size == Sizes(held)
           name == [ node \in S |-> held[node].url ]
           other == [ u \in DOMAIN new |-> DataSize[new[u]] ]
           named == { name[node] : node \in S }
<1>1. IsFiniteSet(BytesOf(S, size)) /\ bytes = SizeOf(S, size)
  BY DEF Sound
<1>2. \A m, n \in S : name[m] = name[n] => m = n
  BY DEF Sound
<1>3. \A n \in S : size[n] = other[name[n]]
  BY DEF Sound, Describes, Sizes
<1>4. ToSet(urls) = named
  <2>1. ToSet(urls) = { held[node].url : node \in ToSet(list) }
    BY Described
  <2>2. \A node \in S : name[node] = held[node].url
    OBVIOUS
  <2> QED BY <2>1, <2>2
<1>5. Promised!Total(urls, new) = SizeOf(ToSet(urls), other)
  BY DEF Promised!Total, Promised!SizeOf, Promised!BytesOf, Promised!ToSet, Promised!Cardinality,
       SizeOf, BytesOf, ToSet, Cardinality
<1> HIDE DEF S, size, name, other
<1>6. SizeOf(named, other) = SizeOf(S, size)
  BY <1>1, <1>2, <1>3, RenamedBytes
<1> QED BY <1>1, <1>4, <1>5, <1>6

(* The nodes of some are those of a list that are the first to fit.         *)
FirstToFit(some, list, held, new, limit) ==
  \E n \in 0..Len(OrderOf(list, held)) :
    /\ OrderOf(some, held) = SubSeq(OrderOf(list, held), 1, n)
    /\ Promised!Fit(n, OrderOf(list, held), new, limit)
    /\ ToSet(some) \subseteq ToSet(list)

(* What the loop keeps is what fits. *)
LEMMA KeptFits ==
  ASSUME NEW list, NEW table, NEW held, NEW bytes, Sound(list, table, held, bytes),
         NEW required \in Nat, NEW new, Describes(new, list, held)
  PROVE  FirstToFit(evictIfNeeded(Cache(list, table, bytes), held, required).list,
                    list, held, new, MaxBytes - required)
<1> DEFINE c == evictIfNeeded(Cache(list, table, bytes), held, required)
           urls == OrderOf(list, held)
           len == Len(list)
           turned(k) == After(k, Cache(list, table, bytes), held)
<1>1. list \in Seq(Node) /\ len \in Nat /\ IsInjective(list) /\ urls \in Seq(Url) /\ Len(urls) = len
      /\ \A i \in 1..len : urls[i] = held[list[i]].url
  <2>1. list \in Seq(Node) /\ IsInjective(list)
    BY DEF Sound
  <2>2. urls \in Seq(Url) /\ Len(urls) = len /\ \A i \in 1..len : urls[i] = held[list[i]].url
    BY Described
  <2> QED BY <2>1, <2>2, LenProperties
<1> HIDE DEF c, urls
<1>2. ASSUME NEW k \in 0..len
      PROVE  /\ OrderOf(turned(k).list, held) = SubSeq(urls, 1, len - k)
             /\ Promised!Total(SubSeq(urls, 1, len - k), new) = turned(k).bytes
             /\ turned(k).bytes \in Nat
             /\ Len(turned(k).list) = len - k /\ turned(k).list \in Seq(Node)
             /\ ToSet(turned(k).list) \subseteq ToSet(list)
  <2> DEFINE c2 == turned(k)
             front == SubSeq(list, 1, len - k)
             some == SubSeq(urls, 1, len - k)
  <2>1. Sound(c2.list, c2.map, held, c2.bytes) /\ c2.list = front
    BY AfterSound
  <2>2. /\ front \in Seq(Node) /\ Len(front) = len - k /\ ToSet(front) \subseteq ToSet(list)
        /\ \A i \in 1..len - k : front[i] = list[i] /\ front[i] \in ToSet(list)
    <3> HIDE DEF front
    <3>1. front = SubSeq(list, 1, len - k)
      BY DEF front
    <3>2. /\ front \in Seq(Node) /\ Len(front) = len - k
          /\ \A i \in 1..len - k : front[i] = list[i]
          /\ ToSet(list) = ToSet(front) \cup Back(k, list)
      <4>1. list \in Seq(Node) /\ IsInjective(list)
        BY DEF Sound
      <4>2. IsFront(front, list, k)
        BY <3>1, <4>1, Cut
      <4> QED BY <4>2 DEF IsFront
    <3>3. \A i \in 1..len - k : list[i] \in ToSet(list)
      BY <1>1, LenProperties DEF ToSet
    <3> QED BY <3>2, <3>3
  <2>3. DOMAIN front = 1..len - k
    BY <2>2, LenProperties
  <2>4. /\ some \in Seq(Url) /\ Len(some) = len - k
        /\ \A i \in 1..len - k : some[i] = urls[i]
    <3>1. \A i \in 1..len - k : urls[i] \in Url
      BY <1>1, LenProperties
    <3>2. /\ some \in Seq(Url) /\ Len(some) = (IF 1 <= len - k THEN len - k - 1 + 1 ELSE 0)
          /\ \A i \in 1..len - k - 1 + 1 : some[i] = urls[1 + i - 1]
      BY <1>1, <3>1, SubSeqProperties
    <3> QED BY <1>1, <3>2
  <2>5. DOMAIN some = 1..len - k
    BY <2>4, LenProperties
  <2> HIDE DEF some, front
  <2>6. OrderOf(front, held) \in Seq(Url) /\ Len(OrderOf(front, held)) = len - k
        /\ \A i \in 1..len - k : OrderOf(front, held)[i] = held[front[i]].url
    BY <2>1, <2>2, Described
  <2>7. OrderOf(front, held) = some
    <3>1. ASSUME NEW i \in 1..len - k PROVE OrderOf(front, held)[i] = some[i]
      <4>1. i \in 1..len
        BY <1>1
      <4> QED BY <1>1, <2>2, <2>4, <2>6, <4>1
    <3> QED BY <2>4, <2>6, <3>1, SeqEqual
  <2> HIDE DEF turned
  <2>8. Describes(new, front, held)
    BY <2>2 DEF Describes
  <2>9. Promised!Total(some, new) = c2.bytes
    BY <2>1, <2>7, <2>8, SameTotal
  <2>10. c2.bytes \in Nat
    BY <2>1, FS_CardinalityType DEF Sound, SizeOf
  <2> QED BY <2>1, <2>2, <2>7, <2>9, <2>10 DEF some
<1>3. PICK t \in 0..len : /\ c = turned(t) /\ ~ Turns(c, required)
                          /\ \A k \in 0..t-1 : Turns(turned(k), required)
  BY Evicted DEF c
<1> HIDE DEF turned
<1>4. len - t \in 0..Len(urls)
  BY <1>1
<1>5. Promised!Total(SubSeq(urls, 1, len - t), new) <= MaxBytes - required \/ len - t = 0
  <2>1. CASE c.list = <<>>
    BY <1>2, <1>3, <2>1
  <2>2. CASE c.list # <<>>
    BY <1>2, <1>3, <2>2, SizeAssumption DEF Turns
  <2> QED BY <2>1, <2>2
<1>6. ASSUME len - t < Len(urls)
      PROVE  Promised!Total(SubSeq(urls, 1, len - t + 1), new) > MaxBytes - required
  <2>1. t - 1 \in 0..len /\ t - 1 \in 0..t-1 /\ len - (t - 1) = len - t + 1
    BY <1>1, <1>6
  <2>2. turned(t-1).bytes + required > MaxBytes /\ turned(t-1).bytes \in Nat
    BY <1>2, <1>3, <2>1 DEF Turns
  <2>3. Promised!Total(SubSeq(urls, 1, len - t + 1), new) = turned(t-1).bytes
    BY <1>2, <2>1
  <2> QED BY <2>2, <2>3, SizeAssumption
<1>7. Promised!Fit(len - t, urls, new, MaxBytes - required)
  BY <1>4, <1>5, <1>6 DEF Promised!Fit
<1>8. \E n \in 0..Len(urls) :
        /\ OrderOf(c.list, held) = SubSeq(urls, 1, n)
        /\ Promised!Fit(n, urls, new, MaxBytes - required)
        /\ ToSet(c.list) \subseteq ToSet(list)
  BY <1>2, <1>3, <1>4, <1>7
<1> QED BY <1>8 DEF FirstToFit, urls, c

(* The order of the urls changes as the list does: the url of the node that *)
(* moved is first, and the others follow as before.                         *)
LEMMA MovedOrder ==
  ASSUME NEW bytes, Sound(lruList, cacheMap, entries, bytes), NEW node \in ToSet(lruList),
         NEW u, u = entries[node].url, NEW held,
         \A other \in ToSet(lruList) : held[other].url = entries[other].url,
         NEW urls, urls = OrderOf(lruList, entries)
  PROVE  OrderOf(moveToFront(node), held) = <<u>> \o Promised!Without(u, urls)
<1> DEFINE n == Len(lruList)
           list == moveToFront(node)
           goal == OrderOf(list, held)
           place == CHOOSE i \in DOMAIN urls : urls[i] = u
           before == SubSeq(urls, 1, place - 1)
           behind == SubSeq(urls, place + 1, Len(urls))
           rest == before \o behind
           full == <<u>> \o rest
<1>1. lruList \in Seq(Node) /\ IsInjective(lruList) /\ n \in Nat /\ DOMAIN lruList = 1..n
  BY LenProperties DEF Sound
<1>2. /\ urls \in Seq(Url) /\ Len(urls) = n /\ IsInjective(urls)
      /\ \A i \in 1..n : urls[i] = entries[lruList[i]].url
  BY Described
<1>3. DOMAIN urls = 1..n /\ \A i \in 1..n : urls[i] \in Url
  BY <1>2, LenProperties
<1>4. /\ list \in Seq(Node) /\ Len(list) = n
      /\ \E at \in DOMAIN lruList :
           /\ lruList[at] = node
           /\ \A i \in DOMAIN lruList :
                list[i] = IF i = 1 THEN node ELSE lruList[IF i <= at THEN i - 1 ELSE i]
  BY <1>1, Moved
<1> HIDE DEF list
<1>5. PICK at \in 1..n :
        /\ lruList[at] = node
        /\ \A i \in 1..n : list[i] = IF i = 1 THEN node ELSE lruList[IF i <= at THEN i - 1 ELSE i]
  BY <1>1, <1>4
<1>6. DOMAIN list = 1..n
  BY <1>4, LenProperties
<1>7. place = at
  <2>1. at \in DOMAIN urls /\ urls[at] = u
    BY <1>2, <1>3, <1>5
  <2>2. place \in DOMAIN urls /\ urls[place] = u
    BY <2>1
  <2> QED BY <1>2, <2>1, <2>2 DEF IsInjective
<1> HIDE DEF place
<1>8. /\ before \in Seq(Url) /\ Len(before) = at - 1
      /\ \A i \in 1..at - 1 : before[i] = urls[i]
  <2>1. \A i \in 1..at - 1 : urls[i] \in Url
    BY <1>3
  <2>2. /\ before \in Seq(Url) /\ Len(before) = (IF 1 <= at - 1 THEN at - 1 - 1 + 1 ELSE 0)
        /\ \A i \in 1..at - 1 - 1 + 1 : before[i] = urls[1 + i - 1]
    BY <1>7, <2>1, SubSeqProperties
  <2> QED BY <1>1, <2>2
<1>9. /\ behind \in Seq(Url) /\ Len(behind) = n - at
      /\ \A i \in 1..n - at : behind[i] = urls[at + i]
  <2>1. \A i \in at + 1 .. n : urls[i] \in Url
    BY <1>3
  <2>2. /\ behind \in Seq(Url) /\ Len(behind) = (IF at + 1 <= n THEN n - (at + 1) + 1 ELSE 0)
        /\ \A i \in 1..n - (at + 1) + 1 : behind[i] = urls[at + 1 + i - 1]
    BY <1>1, <1>2, <1>7, <2>1, SubSeqProperties
  <2> HIDE DEF behind
  <2>3. ASSUME NEW i \in 1..n - at PROVE behind[i] = urls[at + i]
    <3>1. i \in 1..n - (at + 1) + 1 /\ at + 1 + i - 1 = at + i
      BY <1>1
    <3> QED BY <2>2, <3>1
  <2>4. Len(behind) = n - at
    <3>1. n \in Nat /\ at \in 1..n
      BY <1>1
    <3> HIDE DEF n
    <3> QED BY <2>2, <3>1
  <2> QED BY <2>2, <2>3, <2>4
<1> HIDE DEF before, behind
<1>10. /\ rest \in Seq(Url) /\ Len(rest) = n - 1
       /\ \A i \in 1..n - 1 : rest[i] = IF i <= at - 1 THEN urls[i] ELSE urls[i + 1]
  <2>1. /\ rest \in Seq(Url) /\ Len(rest) = Len(before) + Len(behind)
        /\ \A i \in 1..Len(before) + Len(behind) :
             rest[i] = IF i <= Len(before) THEN before[i] ELSE behind[i - Len(before)]
    BY <1>8, <1>9, ConcatProperties
  <2>2. Len(before) + Len(behind) = n - 1
    BY <1>1, <1>8, <1>9
  <2>3. ASSUME NEW i \in 1..n - 1 PROVE rest[i] = IF i <= at - 1 THEN urls[i] ELSE urls[i + 1]
    <3>1. rest[i] = IF i <= at - 1 THEN before[i] ELSE behind[i - (at - 1)]
      BY <1>8, <2>1, <2>2
    <3>2. CASE i <= at - 1
      BY <1>8, <3>1, <3>2
    <3>3. CASE ~ (i <= at - 1)
      <4>1. i - (at - 1) \in 1..n - at /\ at + (i - (at - 1)) = i + 1
        BY <1>1, <3>3
      <4> QED BY <1>9, <3>1, <3>3, <4>1
    <3> QED BY <3>2, <3>3
  <2> QED BY <2>1, <2>2, <2>3
<1> HIDE DEF rest
<1>11. /\ full \in Seq(Url) /\ Len(full) = n
       /\ \A i \in 1..n : full[i] = IF i = 1 THEN u ELSE rest[i - 1]
  <2>1. u \in Url /\ <<u>> \in Seq(Url) /\ Len(<<u>>) = 1 /\ <<u>>[1] = u
    BY <1>2, <1>3, <1>5
  <2>2. /\ full \in Seq(Url) /\ Len(full) = Len(<<u>>) + Len(rest)
        /\ \A i \in 1..Len(<<u>>) + Len(rest) :
             full[i] = IF i <= Len(<<u>>) THEN <<u>>[i] ELSE rest[i - Len(<<u>>)]
    BY <1>10, <2>1, ConcatProperties
  <2>3. Len(<<u>>) + Len(rest) = n
    BY <1>1, <1>10, <2>1
  <2>4. ASSUME NEW i \in 1..n PROVE full[i] = IF i = 1 THEN u ELSE rest[i - 1]
    BY <2>1, <2>2, <2>3
  <2> QED BY <2>2, <2>3, <2>4
<1> HIDE DEF full
<1>12. ASSUME NEW i \in 1..n PROVE goal[i] = full[i]
  <2>1. goal[i] = held[list[i]].url
    BY <1>6 DEF OrderOf
  <2>2. CASE i = 1
    BY <1>5, <1>11, <2>1, <2>2
  <2>3. CASE i # 1 /\ i <= at
    <3>1. i - 1 \in 1..n /\ list[i] = lruList[i - 1]
      BY <1>1, <1>5, <2>3
    <3>2. full[i] = rest[i - 1] /\ rest[i - 1] = urls[i - 1]
      BY <1>1, <1>10, <1>11, <2>3
    <3> QED BY <1>1, <1>2, <2>1, <3>1, <3>2 DEF ToSet
  <2>4. CASE i # 1 /\ ~ (i <= at)
    <3>1. list[i] = lruList[i]
      BY <1>5, <2>4
    <3>2. i - 1 \in 1..n - 1 /\ ~ (i - 1 <= at - 1) /\ i - 1 + 1 = i
      BY <1>1, <2>4
    <3>3. full[i] = rest[i - 1] /\ rest[i - 1] = urls[i]
      BY <1>10, <1>11, <2>4, <3>2
    <3> QED BY <1>1, <1>2, <2>1, <3>1, <3>3 DEF ToSet
  <2> QED BY <2>2, <2>3, <2>4
<1>13. goal = full
  <2>1. goal = [ i \in 1..n |-> goal[i] ]
    BY <1>6 DEF OrderOf
  <2>2. full = [ i \in 1..n |-> full[i] ]
    BY <1>11, LenProperties
  <2> HIDE DEF goal
  <2> QED BY <1>12, <2>1, <2>2
<1> HIDE DEF goal
<1>14. full = <<u>> \o Promised!Without(u, urls)
  BY <1>2 DEF full, rest, before, behind, place, Promised!Without, Promised!RemoveAt
<1> QED BY <1>13, <1>14 DEF goal, list

(* What a put leaves is the map with the urls of its list and their data.   *)
LEMMA LeftDescribed ==
  ASSUME NEW list, NEW table, NEW held, NEW bytes, Sound(list, table, held, bytes),
         Leave(Cache(list, table, bytes), held),
         NEW new, Describes(new, list, held)
  PROVE  /\ OrderOf(lruList', entries') = OrderOf(list, held)
         /\ ContentOf(cacheMap', entries') = [ v \in ToSet(OrderOf(list, held)) |-> new[v] ]
         /\ answer' = Nullopt
<1>1. lruList' = list /\ cacheMap' = table /\ answer' = Nullopt
  BY DEF Leave, Cache
<1>2. \A node \in ToSet(list) : entries'[node] = held[node]
  BY LeftSound
<1>3. OrderOf(lruList', entries') = OrderOf(list, held)
  <2>1. \A i \in DOMAIN list : entries'[list[i]] = held[list[i]]
    BY <1>2 DEF ToSet
  <2> QED BY <1>1, <2>1 DEF OrderOf
<1>4. ContentOf(cacheMap', entries') = [ v \in ToSet(OrderOf(list, held)) |-> new[v] ]
  <2>1. ToSet(OrderOf(list, held)) = DOMAIN table
    BY Described
  <2>2. ASSUME NEW v \in DOMAIN table PROVE entries'[table[v]].data = new[v]
    <3>1. table[v] \in ToSet(list) /\ held[table[v]].url = v
      BY DEF Sound
    <3> QED BY <1>2, <3>1 DEF Describes
  <2> QED BY <1>1, <2>1, <2>2 DEF ContentOf
<1> QED BY <1>1, <1>3, <1>4

(* get answers and reorders as promised. *)
LEMMA GetAsPromised ==
  ASSUME IInv, NEW url \in Url, get(url)
  PROVE  Promised!Get(url)
<1> DEFINE urls == OrderOf(lruList, entries)
           content == ContentOf(cacheMap, entries)
<1>1. Sound(lruList, cacheMap, entries, currentSize)
  BY DEF IInv
<1>2. UNCHANGED <<entries, cacheMap, currentSize>>
  BY DEF get
<1>3. content' = content /\ DOMAIN content = DOMAIN cacheMap
  BY <1>2 DEF ContentOf
<1>4. CASE url \in DOMAIN cacheMap
  <2> DEFINE node == cacheMap[url]
  <2>1. node \in ToSet(lruList) /\ entries[node].url = url
    BY <1>1, <1>4 DEF Sound
  <2>2. lruList' = moveToFront(node) /\ answer' = Found(entries[node].data)
    BY <1>4 DEF get
  <2>3. answer' = Promised!Found(content[url])
    BY <1>4, <2>2 DEF ContentOf, Found, Promised!Found
  <2>4. urls' = OrderOf(moveToFront(node), entries)
    BY <1>2, <2>2 DEF OrderOf
  <2> HIDE DEF node
  <2>5. OrderOf(moveToFront(node), entries) = <<url>> \o Promised!Without(url, urls)
    BY <1>1, <2>1, MovedOrder
  <2>6. urls' = <<url>> \o Promised!Without(url, urls)
    BY <2>4, <2>5
  <2> QED BY <1>3, <1>4, <2>3, <2>6 DEF Promised!Get, OrderOf, ContentOf
<1>5. CASE url \notin DOMAIN cacheMap
  <2>1. lruList' = lruList /\ answer' = Nullopt
    BY <1>5 DEF get
  <2>2. urls' = urls
    BY <1>2, <2>1 DEF OrderOf
  <2> QED BY <1>3, <1>5, <2>1, <2>2 DEF Promised!Get, Promised!Nullopt, Nullopt, OrderOf, ContentOf
<1> QED BY <1>4, <1>5

(* put of a new url keeps as many others as fit beside it. *)
LEMMA PutNewAsPromised ==
  ASSUME IInv, NEW url \in Url, NEW data \in Data, putNew(url, data)
  PROVE  Promised!PutNew(url, data)
<1> DEFINE urls == OrderOf(lruList, entries)
           content == ContentOf(cacheMap, entries)
           with == [ v \in DOMAIN content \cup {url} |-> IF v = url THEN data ELSE content[v] ]
           room == evictIfNeeded(Cache(lruList, cacheMap, currentSize), entries, DataSize[data])
           held(node) == Put(entries, node, [url |-> url, data |-> data, size |-> DataSize[data]])
<1>1. Sound(lruList, cacheMap, entries, currentSize) /\ DataSize[data] \in Nat
  BY SizeAssumption DEF IInv, Data
<1>2. url \notin DOMAIN cacheMap
  BY DEF putNew
<1>3. PICK node \in Node \ ToSet(room.list) :
        Leave(Cache(<<node>> \o room.list, Put(room.map, url, node), room.bytes + DataSize[data]), held(node))
  BY DEF putNew
<1>4. /\ Sound(room.list, room.map, entries, room.bytes)
      /\ \A u \in DOMAIN room.map : u \in DOMAIN cacheMap
  <2>1. PICK t \in 0..Len(lruList) : room = After(t, Cache(lruList, cacheMap, currentSize), entries)
    BY <1>1, Evicted
  <2> QED BY <1>1, <2>1, AfterSound
<1>5. Describes(content, lruList, entries)
  BY <1>1, Described
<1> HIDE DEF content
<1>6. FirstToFit(room.list, lruList, entries, content, MaxBytes - DataSize[data])
  BY <1>1, <1>5, KeptFits
<1> HIDE DEF room
<1> DEFINE longer == <<node>> \o room.list
           wider == Put(room.map, url, node)
           h == held(node)
<1>7. /\ Sound(longer, wider, h, room.bytes + DataSize[data])
      /\ ToSet(longer) = ToSet(room.list) \cup {node}
      /\ Len(longer) = Len(room.list) + 1
      /\ \A i \in 1..Len(room.list) + 1 : longer[i] = IF i = 1 THEN node ELSE room.list[i - 1]
      /\ h[node] = [url |-> url, data |-> data, size |-> DataSize[data]]
      /\ \A other \in ToSet(room.list) : h[other] = entries[other]
  BY <1>2, <1>4, InsertedSound
<1> HIDE DEF longer, wider, h, held, content
<1>8. Describes(with, longer, h)
  <2> SUFFICES ASSUME NEW other \in ToSet(longer)
               PROVE  h[other].url \in DOMAIN with /\ with[h[other].url] = h[other].data
    BY DEF Describes
  <2>1. CASE other = node
    BY <1>7, <2>1
  <2>2. CASE other # node
    <3>1. other \in ToSet(room.list) /\ other \in ToSet(lruList) /\ h[other] = entries[other]
      BY <1>6, <1>7, <2>2 DEF FirstToFit
    <3>2. entries[other].url \in DOMAIN cacheMap
      BY <1>1, <3>1 DEF Sound
    <3> QED BY <1>2, <1>5, <3>1, <3>2 DEF Describes
  <2> QED BY <2>1, <2>2
<1>9. OrderOf(longer, h) = <<url>> \o OrderOf(room.list, entries)
  <2> DEFINE short == OrderOf(room.list, entries)
             one == <<url>>
             m == Len(room.list)
  <2>1. short \in Seq(Url) /\ Len(short) = m /\ \A i \in 1..m : short[i] = entries[room.list[i]].url
    BY <1>4, Described
  <2>2. /\ OrderOf(longer, h) \in Seq(Url) /\ Len(OrderOf(longer, h)) = m + 1
        /\ \A i \in 1..m + 1 : OrderOf(longer, h)[i] = h[longer[i]].url
    BY <1>7, Described
  <2>3. one \in Seq(Url) /\ Len(one) = 1 /\ one[1] = url
    OBVIOUS
  <2>4. m \in Nat /\ DOMAIN room.list = 1..m
    BY <1>4, LenProperties DEF Sound
  <2> HIDE DEF short, one, m
  <2>5. /\ one \o short \in Seq(Url) /\ Len(one \o short) = Len(one) + Len(short)
        /\ \A i \in 1..Len(one) + Len(short) :
             (one \o short)[i] = IF i <= Len(one) THEN one[i] ELSE short[i - Len(one)]
    BY <2>1, <2>3, ConcatProperties
  <2>6. Len(one \o short) = m + 1
    BY <2>1, <2>3, <2>4, <2>5
  <2>7. ASSUME NEW i \in 1..m + 1 PROVE OrderOf(longer, h)[i] = (one \o short)[i]
    <3>1. (one \o short)[i] = IF i <= 1 THEN one[i] ELSE short[i - 1]
      BY <2>1, <2>3, <2>4, <2>5
    <3>2. CASE i = 1
      BY <1>7, <2>2, <2>3, <2>4, <3>1, <3>2 DEF m
    <3>3. CASE i # 1
      <4>1. i - 1 \in 1..m /\ ~ (i <= 1)
        BY <2>4, <3>3
      <4>2. longer[i] = room.list[i - 1] /\ room.list[i - 1] \in ToSet(room.list)
        BY <1>7, <2>4, <3>3, <4>1 DEF ToSet, m
      <4>3. OrderOf(longer, h)[i] = entries[room.list[i - 1]].url
        BY <1>7, <2>2, <4>2
      <4>4. (one \o short)[i] = entries[room.list[i - 1]].url
        BY <2>1, <3>1, <4>1
      <4> QED BY <4>3, <4>4
    <3> QED BY <3>2, <3>3
  <2> QED BY <2>2, <2>5, <2>6, <2>7, SeqEqual DEF short, one
<1>10. /\ OrderOf(lruList', entries') = <<url>> \o OrderOf(room.list, entries)
       /\ ContentOf(cacheMap', entries') = [ v \in ToSet(<<url>> \o OrderOf(room.list, entries)) |-> with[v] ]
       /\ answer' = Nullopt
  <2>1. /\ OrderOf(lruList', entries') = OrderOf(longer, h)
        /\ ContentOf(cacheMap', entries') = [ v \in ToSet(OrderOf(longer, h)) |-> with[v] ]
        /\ answer' = Nullopt
    <3>1. Leave(Cache(longer, wider, room.bytes + DataSize[data]), h)
      BY <1>3 DEF longer, wider, h
    <3> HIDE DEF with
    <3> QED BY <1>7, <1>8, <3>1, LeftDescribed
  <2> HIDE DEF with
  <2> QED BY <1>9, <2>1
<1>11. PICK n \in 0..Len(urls) :
         /\ OrderOf(room.list, entries) = SubSeq(urls, 1, n)
         /\ Promised!Fit(n, urls, content, MaxBytes - DataSize[data])
  BY <1>6 DEF FirstToFit
<1> HIDE DEF urls, with
<1> DEFINE limit == MaxBytes - DataSize[data]
           more == <<url>> \o SubSeq(urls, 1, n)
<1>12. /\ n \in 0..Len(urls) /\ Promised!Fit(n, urls, content, limit)
       /\ OrderOf(lruList', entries') = more
       /\ ContentOf(cacheMap', entries') = [ v \in ToSet(more) |-> with[v] ]
  BY <1>10, <1>11
<1> HIDE DEF limit
<1>13. Promised!Keep(more, with)
  <2> HIDE DEF more
  <2> QED BY <1>12 DEF Promised!Keep, OrderOf, ContentOf, Promised!ToSet, ToSet
<1>14. with = Promised!With(url, data)
  BY DEF Promised!With, content, ContentOf, with
<1>15. Promised!Keep(more, Promised!With(url, data))
  BY <1>13, <1>14 DEF Promised!Keep
<1>16. \E k \in 0..Len(urls) :
         /\ Promised!Fit(k, urls, content, limit)
         /\ Promised!Keep(<<url>> \o SubSeq(urls, 1, k), Promised!With(url, data))
  BY <1>12, <1>15
<1>17. url \notin DOMAIN content
  BY <1>2 DEF content, ContentOf
<1> QED BY <1>10, <1>16, <1>17 DEF limit, Promised!PutNew, Promised!Nullopt, Nullopt, urls, content, OrderOf, ContentOf

(* put of a url that is there keeps as many as fit, that url first. *)
LEMMA PutExistingAsPromised ==
  ASSUME IInv, NEW url \in Url, NEW data \in Data, putExisting(url, data)
  PROVE  Promised!PutAgain(url, data)
<1> DEFINE order == OrderOf(lruList, entries)
           content == ContentOf(cacheMap, entries)
           with == [ v \in DOMAIN content \cup {url} |-> IF v = url THEN data ELSE content[v] ]
           node == cacheMap[url]
           held == [entries EXCEPT ![node].data = data, ![node].size = DataSize[data]]
           bytes == currentSize - entries[node].size + DataSize[data]
           list == moveToFront(node)
           left == evictIfNeeded(Cache(list, cacheMap, bytes), held, 0)
<1>1. url \in DOMAIN cacheMap /\ Leave(left, held)
  BY DEF putExisting
<1>2. Sound(lruList, cacheMap, entries, currentSize)
  BY DEF IInv
<1>3. /\ Sound(list, cacheMap, held, bytes)
      /\ node \in ToSet(lruList) /\ held[node] = [entries[node] EXCEPT !.data = data, !.size = DataSize[data]]
      /\ \A other \in ToSet(lruList) \ {node} : held[other] = entries[other]
  <2>1. /\ node = cacheMap[url]
        /\ held = [entries EXCEPT ![node].data = data, ![node].size = DataSize[data]]
        /\ bytes = currentSize - entries[node].size + DataSize[data]
    OBVIOUS
  <2> HIDE DEF node, held, bytes
  <2>2. Sound(list, cacheMap, held, bytes) /\ node \in ToSet(lruList) /\ Updated(held, node, data)
    BY <1>1, <2>1, UpdatedSound
  <2> QED BY <2>2 DEF Updated
<1>4. entries[node] \in Entry /\ entries[node].url = url
  BY <1>1, <1>2, <1>3 DEF Sound
<1>5. ToSet(list) = ToSet(lruList)
  BY <1>2, <1>3, Moved DEF Sound
<1> HIDE DEF held, bytes, node
<1>6. held[node].url = url /\ held[node].data = data
  BY <1>3, <1>4 DEF Entry
<1>7. OrderOf(list, held) = <<url>> \o Promised!Without(url, order)
  <2>1. \A other \in ToSet(lruList) : held[other].url = entries[other].url
    BY <1>3, <1>4, <1>6
  <2> HIDE DEF order
  <2>2. order = OrderOf(lruList, entries)
    BY DEF order
  <2> QED BY <1>2, <1>3, <1>4, <2>1, <2>2, MovedOrder
<1>8. Describes(content, lruList, entries)
  BY <1>2, Described
<1> HIDE DEF list
<1>9. Describes(with, list, held)
  <2> HIDE DEF content
  <2> SUFFICES ASSUME NEW other \in ToSet(list)
               PROVE  held[other].url \in DOMAIN with /\ with[held[other].url] = held[other].data
    BY DEF Describes
  <2>1. CASE other = node
    BY <1>6, <2>1
  <2>2. CASE other # node
    <3>1. other \in ToSet(lruList) /\ held[other] = entries[other]
      BY <1>3, <1>5, <2>2
    <3>2. entries[other].url # url
      BY <1>2, <1>3, <1>4, <2>2, <3>1 DEF Sound
    <3> QED BY <1>8, <3>1, <3>2 DEF Describes
  <2> QED BY <2>1, <2>2
<1> HIDE DEF with, content
<1>10. FirstToFit(left.list, list, held, with, MaxBytes - 0)
  <2>1. 0 \in Nat
    OBVIOUS
  <2> QED BY <1>3, <1>9, <2>1, KeptFits
<1>11. Sound(left.list, left.map, held, left.bytes) /\ left = Cache(left.list, left.map, left.bytes)
  <2>1. 0 \in Nat
    OBVIOUS
  <2>2. PICK t \in 0..Len(list) : left = After(t, Cache(list, cacheMap, bytes), held)
    <3>1. left = evictIfNeeded(Cache(list, cacheMap, bytes), held, 0)
      OBVIOUS
    <3> HIDE DEF left
    <3> QED BY <1>3, <2>1, <3>1, Evicted
  <2>3. Sound(left.list, left.map, held, left.bytes)
    BY <1>3, <2>2, AfterSound
  <2>4. left = Cache(left.list, left.map, left.bytes)
    BY <2>2 DEF After, Cache
  <2> QED BY <2>3, <2>4
<1> HIDE DEF left
<1>12. Describes(with, left.list, held)
  BY <1>9, <1>10 DEF FirstToFit, Describes
<1>13. /\ OrderOf(lruList', entries') = OrderOf(left.list, held)
       /\ ContentOf(cacheMap', entries') = [ v \in ToSet(OrderOf(left.list, held)) |-> with[v] ]
       /\ answer' = Nullopt
  <2>1. Leave(Cache(left.list, left.map, left.bytes), held)
    BY <1>1, <1>11
  <2> QED BY <1>11, <1>12, <2>1, LeftDescribed
<1> DEFINE urls == OrderOf(list, held)
<1>14. PICK n \in 0..Len(urls) :
         /\ OrderOf(left.list, held) = SubSeq(urls, 1, n)
         /\ Promised!Fit(n, urls, with, MaxBytes)
  <2>1. MaxBytes - 0 = MaxBytes
    BY SizeAssumption
  <2> QED BY <1>10, <2>1 DEF FirstToFit
<1> HIDE DEF urls
<1> DEFINE kept == SubSeq(urls, 1, n)
<1>15. /\ OrderOf(lruList', entries') = kept
       /\ ContentOf(cacheMap', entries') = [ v \in ToSet(kept) |-> with[v] ]
  BY <1>13, <1>14
<1>16. Promised!Keep(kept, with)
  <2> HIDE DEF kept
  <2> QED BY <1>15 DEF Promised!Keep, OrderOf, ContentOf, Promised!ToSet, ToSet
<1>17. with = Promised!With(url, data)
  BY DEF Promised!With, content, ContentOf, with
<1>18. Promised!Keep(kept, Promised!With(url, data))
  BY <1>16, <1>17 DEF Promised!Keep
<1>19. Promised!Fit(n, urls, Promised!With(url, data), MaxBytes)
  BY <1>14, <1>17
<1>20. \E k \in 0..Len(urls) :
         /\ Promised!Fit(k, urls, Promised!With(url, data), MaxBytes)
         /\ Promised!Keep(SubSeq(urls, 1, k), Promised!With(url, data))
  BY <1>18, <1>19
<1>21. urls = <<url>> \o Promised!Without(url, order)
  BY <1>7 DEF urls
<1>22. url \in DOMAIN content
  BY <1>1 DEF content, ContentOf
<1> QED BY <1>13, <1>20, <1>21, <1>22
     DEF Promised!PutAgain, Promised!Nullopt, Nullopt, content, order, OrderOf, ContentOf

(* The cache implements the map it promises: what the caller sees of every  *)
(* get and put, and which urls are kept, is as LRUMap has it.               *)
THEOREM CacheKeepsPromise == Spec => KeepsPromise
<1>1. Init => Promised!Init
  <2> SUFFICES ASSUME Init PROVE Promised!Init
    OBVIOUS
  <2>1. lruList = <<>> /\ entries = <<>> /\ cacheMap = <<>> /\ answer = Nullopt
    BY DEF Init
  <2> QED BY <2>1 DEF Promised!Init, Promised!Nullopt, Nullopt
<1>2. IInv /\ [Next]_vars => [Promised!Next]_Promised!vars
  <2> SUFFICES ASSUME IInv, [Next]_vars PROVE Promised!Next \/ UNCHANGED Promised!vars
    OBVIOUS
  <2>1. ASSUME NEW url \in Url, get(url) PROVE Promised!Next
    BY <2>1, GetAsPromised DEF Promised!Next
  <2>2. ASSUME NEW url \in Url, NEW data \in Data, putExisting(url, data) PROVE Promised!Next
    BY <2>2, PutExistingAsPromised DEF Promised!Next, Promised!Data, Data
  <2>3. ASSUME NEW url \in Url, NEW data \in Data, putNew(url, data) PROVE Promised!Next
    BY <2>3, PutNewAsPromised DEF Promised!Next, Promised!Data, Data
  <2>4. CASE UNCHANGED vars
    BY <2>4 DEF vars, Promised!vars
  <2> QED BY <2>1, <2>2, <2>3, <2>4 DEF Next
<1> QED BY <1>1, <1>2, CacheInvariance, PTL DEF Spec, KeepsPromise, Promised!Spec
=============================================================================
