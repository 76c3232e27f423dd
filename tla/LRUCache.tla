------------------------------ MODULE LRUCache ------------------------------
(***************************************************************************)
(* core/cache/LRUCache.cc: a list of entries, the most recently used one at *)
(* the front, a map from urls to the nodes of the list, and the bytes held.  *)
(*                                                                         *)
(* A node of the list is what an iterator points to.  `entries' has the     *)
(* contents of the nodes that are allocated, so that a map with an iterator *)
(* to a node that is gone, or was allocated again, is a state like another. *)
(***************************************************************************)
EXTENDS Sizes, SequencesExt, Functions

CONSTANTS
  Url,
  DataSize,  \* data -> data.size()
  MaxBytes,  \* the limit given to the constructor
  Node       \* addresses of list nodes

ASSUME SizeAssumption ==
  MaxBytes \in Nat /\ \A d \in DOMAIN DataSize : DataSize[d] \in Nat
ASSUME NodeAssumption == IsFiniteSet(Node) /\ Cardinality(Node) > Cardinality(Url)

VARIABLES
  lruList,      \* the nodes, front to back
  entries,      \* node -> CacheEntry, but for the timestamp nobody reads
  cacheMap,     \* url -> node
  currentSize,
  answer        \* what the last call returned

vars == <<lruList, entries, cacheMap, currentSize, answer>>

Data == DOMAIN DataSize
Nullopt == [ found |-> FALSE ]
Found(d) == [ found |-> TRUE, data |-> d ]

Put(table, k, value) ==
  [ j \in DOMAIN table \cup {k} |-> IF j = k THEN value ELSE table[j] ]

Init ==
  /\ lruList = <<>> /\ entries = <<>> /\ cacheMap = <<>>
  /\ currentSize = 0 /\ answer = Nullopt

-----------------------------------------------------------------------------
(* Mutant: nothing moves. *)
LeftInPlace(node) == lruList

(* splice: the node is taken to the front, those before it move back one. *)
moveToFront(node) ==
  LET at == CHOOSE i \in DOMAIN lruList : lruList[i] = node
  IN [ i \in DOMAIN lruList |->
         IF i = 1 THEN node ELSE lruList[IF i <= at THEN i - 1 ELSE i] ]

(* A cache as evictIfNeeded sees it. *)
Cache(list, table, bytes) == [ list |-> list, map |-> table, bytes |-> bytes ]

(* The t nodes at the back of a list. *)
Back(t, list) == { list[i] : i \in Len(list) - t + 1 .. Len(list) }

Sizes(held) == [ node \in DOMAIN held |-> held[node].size ]

(* Mutant: the entries leave the list and stay in the map. *)
AfterListOnly(t, cache, held) ==
  Cache(SubSeq(cache.list, 1, Len(cache.list) - t), cache.map,
        cache.bytes - SizeOf(Back(t, cache.list), Sizes(held)))

(* What t turns of the loop leave: each takes the entry at the back, of     *)
(* the list and of the map.                                                 *)
After(t, cache, held) ==
  LET gone == Back(t, cache.list)
  IN Cache(SubSeq(cache.list, 1, Len(cache.list) - t),
           Restrict(cache.map, DOMAIN cache.map \ { held[node].url : node \in gone }),
           cache.bytes - SizeOf(gone, Sizes(held)))

(* The condition of the loop. *)
Turns(cache, required) == cache.bytes + required > MaxBytes /\ cache.list # <<>>

(* The loop ends after the first number of turns that falsify it. *)
evictIfNeeded(cache, held, required) ==
  LET last == CHOOSE t \in 0..Len(cache.list) :
                /\ ~ Turns(After(t, cache, held), required)
                /\ \A k \in 0..t-1 : Turns(After(k, cache, held), required)
  IN After(last, cache, held)

-----------------------------------------------------------------------------
get(url) ==
  /\ IF url \in DOMAIN cacheMap
     THEN LET node == cacheMap[url]
          IN lruList' = moveToFront(node) /\ answer' = Found(entries[node].data)
     ELSE lruList' = lruList /\ answer' = Nullopt
  /\ UNCHANGED <<entries, cacheMap, currentSize>>

(* The state that a put leaves: the nodes that are off the list are freed.  *)
Leave(cache, held) ==
  /\ lruList' = cache.list /\ cacheMap' = cache.map /\ currentSize' = cache.bytes
  /\ entries' = Restrict(held, ToSet(cache.list))
  /\ answer' = Nullopt

(* Mutant: the size of the data that are replaced is not taken back. *)
putDoubleCounted(url, data) ==
  /\ url \in DOMAIN cacheMap
  /\ LET node == cacheMap[url]
         held == [entries EXCEPT ![node].data = data, ![node].size = DataSize[data]]
     IN Leave(evictIfNeeded(Cache(moveToFront(node), cacheMap, currentSize + DataSize[data]), held, 0), held)

(* Mutant: nothing is evicted though the data have grown. *)
putUnchecked(url, data) ==
  /\ url \in DOMAIN cacheMap
  /\ LET node == cacheMap[url]
         held == [entries EXCEPT ![node].data = data, ![node].size = DataSize[data]]
     IN Leave(Cache(moveToFront(node), cacheMap,
                    currentSize - entries[node].size + DataSize[data]), held)

(* put for a url that is there. *)
putExisting(url, data) ==
  /\ url \in DOMAIN cacheMap
  /\ LET node == cacheMap[url]
         held == [entries EXCEPT ![node].data = data, ![node].size = DataSize[data]]
         bytes == currentSize - entries[node].size + DataSize[data]
     IN Leave(evictIfNeeded(Cache(moveToFront(node), cacheMap, bytes), held, 0), held)

(* put for a new url: room is made first, the entry then inserted whether   *)
(* there is room now or not, in a node that is not in use.                  *)
putNew(url, data) ==
  /\ url \notin DOMAIN cacheMap
  /\ LET room == evictIfNeeded(Cache(lruList, cacheMap, currentSize), entries, DataSize[data])
     IN \E node \in Node \ ToSet(room.list) :
          Leave(Cache(<<node>> \o room.list, Put(room.map, url, node), room.bytes + DataSize[data]),
                Put(entries, node, [url |-> url, data |-> data, size |-> DataSize[data]]))

Next == \E url \in Url : \/ get(url)
                         \/ \E data \in Data : putExisting(url, data) \/ putNew(url, data)
Spec == Init /\ [][Next]_vars

-----------------------------------------------------------------------------
(* The list and the map hold the same entries: every iterator in the map    *)
(* points to the one node of the list with its url (LRUCache.cc:54-55: an    *)
(* entry is erased from both), and no node is lost.                         *)
ContainersAgree ==
  /\ IsInjective(lruList) /\ DOMAIN entries = ToSet(lruList)
  /\ \A url \in DOMAIN cacheMap :
       cacheMap[url] \in ToSet(lruList) /\ entries[cacheMap[url]].url = url
  /\ { cacheMap[url] : url \in DOMAIN cacheMap } = ToSet(lruList)

(* currentSize is the size of the data held, through updates in place and    *)
(* evictions alike; so the unsigned subtractions never wrap.                *)
SizeCounted ==
  currentSize = SizeOf(ToSet(lruList), [ node \in DOMAIN entries |-> DataSize[entries[node].data] ])

(* The limit is exceeded by an entry that is alone only.                    *)
SizeBounded == currentSize > MaxBytes => Len(lruList) = 1

(* The cache is a map that forgets the least recently used urls first.      *)
Promised == INSTANCE LRUMap WITH
  order <- [ i \in DOMAIN lruList |-> entries[lruList[i]].url ],
  content <- [ url \in DOMAIN cacheMap |-> entries[cacheMap[url]].data ]

KeepsPromise == Promised!Spec
=============================================================================
