------------------------------ MODULE LRUCache ------------------------------
(***************************************************************************)
(* LRUCache of lru-cache.ts: a map from keys to the nodes of a doubly      *)
(* linked list between two sentinels, and the total of the node sizes.     *)
(* set() runs to its end before any other call; its eviction loop is       *)
(* modelled one turn at a time so that each turn can be compared with what *)
(* LRUPolicy promises of the whole call.                                   *)
(***************************************************************************)
EXTENDS LRUOrder, FiniteSets

CONSTANTS
  Nodes,     \* LRUNode objects: one that is in no list may be allocated anew
  Null, HeadNode, TailNode

ASSUME NodeAssumption ==
  /\ IsFiniteSet(Nodes) /\ {Null, HeadNode, TailNode} \cap Nodes = {}
  /\ Null # HeadNode /\ Null # TailNode /\ HeadNode # TailNode

VARIABLES
  cache,             \* the map
  key, data, size,   \* fields of the nodes
  prev, next,        \* pointers of the nodes and the sentinels
  totalSize,
  evicting,          \* in the while loop of set
  evicted            \* keys passed to onEvict by the last set

fields == <<key, data, size>>
contents == <<cache, fields, prev, next, totalSize>>
vars == <<contents, evicting, evicted>>

Cells == Nodes \cup {HeadNode, TailNode}
InMap == {k \in Keys : cache[k] # Null}
Linked == {cache[k] : k \in InMap}

Init ==
  /\ cache = [k \in Keys |-> Null]
  /\ key = [n \in Nodes |-> Null] /\ data = [n \in Nodes |-> Null]
  /\ size = [n \in Nodes |-> 0]
  /\ prev = [c \in Cells |-> IF c = TailNode THEN HeadNode ELSE Null]
  /\ next = [c \in Cells |-> IF c = HeadNode THEN TailNode ELSE Null]
  /\ totalSize = 0 /\ evicting = FALSE /\ evicted = <<>>

-----------------------------------------------------------------------------
(* The list operations, on a pair p of pointer fields.                     *)
AddToHead(p, n) ==
  LET first == p.next[HeadNode]
  IN [prev |-> [p.prev EXCEPT ![n] = HeadNode, ![first] = n],
      next |-> [p.next EXCEPT ![n] = first, ![HeadNode] = n]]

RemoveNode_OneWay(p, n) == [p EXCEPT !.next[p.prev[n]] = p.next[n]]
RemoveNode(p, n) ==
  [prev |-> [p.prev EXCEPT ![p.next[n]] = p.prev[n]],
   next |-> [p.next EXCEPT ![p.prev[n]] = p.next[n]]]

MoveToHead_Stays(p, n) == p
MoveToHead(p, n) == AddToHead(RemoveNode(p, n), n)

Pointers == [prev |-> prev, next |-> next]
SetPointers(p) == prev' = p.prev /\ next' = p.next

\* The last reference to n is gone: the object is free to be allocated anew.
Free(p, n) == [prev |-> [p.prev EXCEPT ![n] = Null], next |-> [p.next EXCEPT ![n] = Null]]
DropNode(n) ==
  /\ cache' = [cache EXCEPT ![key[n]] = Null]
  /\ totalSize' = totalSize - size[n]
  /\ SetPointers(Free(RemoveNode(Pointers, n), n))
  /\ key' = [key EXCEPT ![n] = Null] /\ data' = [data EXCEPT ![n] = Null]
  /\ size' = [size EXCEPT ![n] = 0]

-----------------------------------------------------------------------------
Resized_Forgotten(n, d) == size
Resized(n, d) == [size EXCEPT ![n] = SizeOf[d]]
GrownBy_New(n, d) == totalSize + SizeOf[d]
GrownBy(n, d) == totalSize - size[n] + SizeOf[d]

SetExisting(k, d) ==
  LET n == cache[k]
  IN /\ ~evicting /\ Storable(d) /\ n # Null
     /\ data' = [data EXCEPT ![n] = d]
     /\ totalSize' = GrownBy(n, d)
     /\ size' = Resized(n, d)
     /\ SetPointers(MoveToHead(Pointers, n))
     /\ evicting' = TRUE /\ evicted' = <<>>
     /\ UNCHANGED <<cache, key>>

SetNew(k, d) ==
  /\ ~evicting /\ Storable(d) /\ cache[k] = Null
  /\ \E n \in Nodes \ Linked :
       /\ key' = [key EXCEPT ![n] = k]
       /\ data' = [data EXCEPT ![n] = d]
       /\ size' = [size EXCEPT ![n] = SizeOf[d]]
       /\ cache' = [cache EXCEPT ![k] = n]
       /\ SetPointers(AddToHead(Pointers, n))
  /\ totalSize' = totalSize + SizeOf[d]
  /\ evicting' = TRUE /\ evicted' = <<>>

OverCapacity_Once == totalSize > MaxSize /\ evicted = <<>>
OverCapacity == totalSize > MaxSize /\ InMap # {}

\* removeTail and what the loop does with the node it returns.
EvictOne ==
  /\ evicting /\ OverCapacity
  /\ DropNode(prev[TailNode])
  /\ evicted' = Append(evicted, key[prev[TailNode]])
  /\ UNCHANGED evicting

SetReturns ==
  /\ evicting /\ ~OverCapacity
  /\ evicting' = FALSE /\ UNCHANGED <<contents, evicted>>

Get(k) ==
  /\ ~evicting /\ cache[k] # Null
  /\ SetPointers(MoveToHead(Pointers, cache[k]))
  /\ UNCHANGED <<cache, fields, totalSize, evicting, evicted>>

RemoveKey(k) ==
  /\ ~evicting /\ cache[k] # Null
  /\ DropNode(cache[k])
  /\ UNCHANGED <<evicting, evicted>>

Next ==
  \/ \E k \in Keys : Get(k) \/ RemoveKey(k)
  \/ \E k \in Keys, d \in Data : SetExisting(k, d) \/ SetNew(k, d)
  \/ EvictOne \/ SetReturns

Spec == Init /\ [][Next]_vars

-----------------------------------------------------------------------------
(* The list as the iterator yields it: from head.next along the next       *)
(* pointers up to the tail.                                                *)
IteratedFrom(p) ==
  LET follow == [c \in Cells |-> IF c = TailNode THEN TailNode ELSE p.next[c]]
      visit[i \in Nat] == IF i = 0 THEN HeadNode ELSE follow[visit[i - 1]]
  IN  [i \in {n \in 1..Cardinality(Nodes) : visit[n] # TailNode} |-> visit[i]]
Listed == IteratedFrom(Pointers)
Entries == [i \in DOMAIN Listed |-> [key |-> key[Listed[i]], data |-> data[Listed[i]]]]

(* The cache implements LRUPolicy: in the loop, what will be dropped is    *)
(* gone already for the policy.                                            *)
Policy == INSTANCE LRUPolicy WITH
  order <- IF evicting THEN Kept(Entries) ELSE Entries,
  evicted <- IF evicting THEN evicted \o Dropped(Entries) ELSE evicted

-----------------------------------------------------------------------------
(* Properties.                                                             *)

\* Types; outside the loop the cache is within its capacity.
TypeOK ==
  /\ cache \in [Keys -> Nodes \cup {Null}]
  /\ key \in [Nodes -> Keys \cup {Null}] /\ data \in [Nodes -> Data \cup {Null}]
  /\ size \in [Nodes -> Nat]
  /\ prev \in [Cells -> Cells \cup {Null}] /\ next \in [Cells -> Cells \cup {Null}]
  /\ totalSize \in Nat /\ evicting \in BOOLEAN
  /\ evicting \/ totalSize <= MaxSize

\* The pointers of the cells in use are each other's inverse and lead only to
\* cells in use, so that no operation touches a node that was dropped.
ListShape ==
  /\ \A c \in Linked \cup {HeadNode} : next[c] \in Linked \cup {TailNode} /\ prev[next[c]] = c
  /\ \A c \in Linked \cup {TailNode} : prev[c] \in Linked \cup {HeadNode} /\ next[prev[c]] = c

\* The map and the nodes agree on the keys, and the fields on the sizes.
MapAgrees ==
  \A k \in InMap : LET n == cache[k] IN key[n] = k /\ size[n] = SizeOf[data[n]] /\ Storable(data[n])

\* totalSize is what the entries in the list add up to, and the list and the
\* map hold the same entries.
SizeAgrees == totalSize = TotalSize(Entries) /\ ToSet(Listed) = Linked

\* The linked list is an LRU cache: same entries in the same order, the same
\* evictions reported.
ImplementsPolicy == Policy!Spec
=============================================================================
