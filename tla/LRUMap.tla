------------------------------- MODULE LRUMap -------------------------------
(***************************************************************************)
(* What LRUCache promises its caller: a map that answers with what was put  *)
(* last, forgets the least recently used urls first, and no more of them    *)
(* than the limit asks for.                                                 *)
(***************************************************************************)
EXTENDS Sizes, SequencesExt

CONSTANTS Url, DataSize, MaxBytes

VARIABLES order,    \* the urls held, the most recently used one first
          content,  \* url -> data
          answer    \* what the last call returned

vars == <<order, content, answer>>

Data == DOMAIN DataSize
Nullopt == [ found |-> FALSE ]
Found(d) == [ found |-> TRUE, data |-> d ]

(* The bytes of the data that the urls have. *)
Total(urls, held) == SizeOf(ToSet(urls), [ u \in DOMAIN held |-> DataSize[held[u]] ])

(* The urls without u, which is among them. *)
Without(u, urls) == RemoveAt(urls, CHOOSE i \in DOMAIN urls : urls[i] = u)

Init == order = <<>> /\ content = [ u \in {} |-> {} ] /\ answer = Nullopt

Get(u) ==
  /\ IF u \in DOMAIN content
     THEN answer' = Found(content[u]) /\ order' = <<u>> \o Without(u, order)
     ELSE answer' = Nullopt /\ order' = order
  /\ content' = content

(* The n most recently used urls are the most that fit into the limit.      *)
Fit(n, urls, held, limit) ==
  /\ n \in 0..Len(urls)
  /\ Total(SubSeq(urls, 1, n), held) <= limit \/ n = 0
  /\ n < Len(urls) => Total(SubSeq(urls, 1, n + 1), held) > limit

(* Which data the map holds once u has the data d. *)
With(u, d) == [ v \in DOMAIN content \cup {u} |-> IF v = u THEN d ELSE content[v] ]

Keep(urls, held) == order' = urls /\ content' = [ v \in ToSet(urls) |-> held[v] ]

(* Data for a new url are kept even if they alone exceed the limit.         *)
PutNew(u, d) ==
  /\ u \notin DOMAIN content
  /\ \E n \in 0..Len(order) :
       /\ Fit(n, order, content, MaxBytes - DataSize[d])
       /\ Keep(<<u>> \o SubSeq(order, 1, n), With(u, d))
  /\ answer' = Nullopt

(* Data for a url that is there are not. *)
PutAgain(u, d) ==
  /\ u \in DOMAIN content
  /\ LET urls == <<u>> \o Without(u, order)
     IN \E n \in 0..Len(urls) :
          /\ Fit(n, urls, With(u, d), MaxBytes)
          /\ Keep(SubSeq(urls, 1, n), With(u, d))
  /\ answer' = Nullopt

Next == \E u \in Url : Get(u) \/ \E d \in Data : PutNew(u, d) \/ PutAgain(u, d)
Spec == Init /\ [][Next]_vars
=============================================================================
