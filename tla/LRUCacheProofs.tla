---------------------------- MODULE LRUCacheProofs ----------------------------
(* Proofs about LRUCache, for any keys, values, sizes, capacity and nodes: *)
(* the pointers form a list, the map and the total agree with it, and the  *)
(* linked list implements LRUPolicy.                                       *)
EXTENDS LRUCache, LRUOrderProofs, FiniteSetTheorems

-----------------------------------------------------------------------------
(* The pointers as a sequence of nodes between the two sentinels.          *)
PairType == [prev : [Cells -> Cells \cup {Null}], next : [Cells -> Cells \cup {Null}]]

Cell(L, i) == IF i = 0 THEN HeadNode ELSE IF i = Len(L) + 1 THEN TailNode ELSE L[i]

NoNodeTwice(L) == \A i, j \in 1..Len(L) : L[i] = L[j] => i = j

Chained(L, p) ==
  \A i \in 0..Len(L) : p.next[Cell(L, i)] = Cell(L, i + 1) /\ p.prev[Cell(L, i + 1)] = Cell(L, i)

\* x in front of the sequence s.
InFront(x, s) == <<x>> \o s

IsList(L, p) == L \in Seq(Nodes) /\ NoNodeTwice(L) /\ Chained(L, p)

LEMMA NodeFacts ==
  /\ IsFiniteSet(Nodes) /\ Null \notin Nodes /\ HeadNode \notin Nodes /\ TailNode \notin Nodes
  /\ Null # HeadNode /\ Null # TailNode /\ HeadNode # TailNode
  /\ Cells = Nodes \cup {HeadNode, TailNode}
BY NodeAssumption DEF Cells

\* Every position of a list has a cell of its own.
LEMMA CellFacts ==
  ASSUME NEW L \in Seq(Nodes), NoNodeTwice(L)
  PROVE  /\ Len(L) \in Nat
         /\ Cell(L, 0) = HeadNode /\ Cell(L, Len(L) + 1) = TailNode
         /\ \A i \in 1..Len(L) : Cell(L, i) = L[i] /\ L[i] \in Nodes
         /\ \A i \in 0..(Len(L) + 1) : Cell(L, i) \in Cells
         /\ \A i, j \in 0..(Len(L) + 1) : Cell(L, i) = Cell(L, j) => i = j
PROOF
<1>1. Len(L) \in Nat /\ \A i \in 1..Len(L) : L[i] \in Nodes
  OBVIOUS
<1>2. /\ Cell(L, 0) = HeadNode /\ Cell(L, Len(L) + 1) = TailNode
      /\ \A i \in 1..Len(L) : Cell(L, i) = L[i] /\ L[i] \in Nodes
  BY <1>1 DEF Cell
<1>3. \A i \in 0..(Len(L) + 1) : i = 0 \/ i = Len(L) + 1 \/ i \in 1..Len(L)
  BY <1>1
<1>4. \A i \in 0..(Len(L) + 1) : Cell(L, i) \in Cells
  BY <1>2, <1>3, NodeFacts
<1>5. \A i, j \in 0..(Len(L) + 1) : Cell(L, i) = Cell(L, j) => i = j
  BY <1>2, <1>3, NodeFacts DEF NoNodeTwice
<1> QED BY <1>1, <1>2, <1>4, <1>5

\* A list is not longer than there are nodes.
LEMMA ListIsBounded ==
  ASSUME NEW L \in Seq(Nodes), NoNodeTwice(L)
  PROVE  Len(L) \in Nat /\ Cardinality(Nodes) \in Nat /\ Len(L) <= Cardinality(Nodes)
PROOF
<1>1. Len(L) \in Nat /\ L \in [1..Len(L) -> Nodes]
  OBVIOUS
<1>2. L \in Injection(1..Len(L), Nodes)
  <2>1. DOMAIN L = 1..Len(L)
    BY <1>1
  <2> QED BY <1>1, <2>1 DEF Injection, IsInjective, NoNodeTwice
<1>3. Cardinality(1..Len(L)) <= Cardinality(Nodes)
  BY <1>2, NodeFacts, FS_Injection
<1>4. Cardinality(1..Len(L)) = Len(L)
  <2>1. PICK n \in Nat : n = Len(L)
    BY <1>1
  <2>2. Cardinality(1..n) = IF 1 > n THEN 0 ELSE n - 1 + 1
    BY FS_Interval
  <2>3. Cardinality(1..n) = n
    BY <2>2
  <2> QED BY <2>1, <2>3
<1>5. Cardinality(Nodes) \in Nat
  BY NodeFacts, FS_CardinalityType
<1> QED BY <1>1, <1>3, <1>4, <1>5

\* The iterator yields the nodes of the list, each once.
LEMMA IteratesOverList ==
  ASSUME NEW p \in PairType, NEW L, IsList(L, p)
  PROVE  IteratedFrom(p) = L
PROOF
<1> DEFINE follow == [c \in Cells |-> IF c = TailNode THEN TailNode ELSE p.next[c]]
           Walk(v) == v = [i \in Nat |-> IF i = 0 THEN HeadNode ELSE follow[v[i - 1]]]
           visit == CHOOSE v : Walk(v)
           at == [i \in Nat |-> IF i > Len(L) THEN TailNode ELSE Cell(L, i)]
<1>0. /\ L \in Seq(Nodes) /\ NoNodeTwice(L) /\ Chained(L, p)
      /\ Len(L) \in Nat /\ Cardinality(Nodes) \in Nat /\ Len(L) <= Cardinality(Nodes)
  BY ListIsBounded DEF IsList
<1>1. \A i \in Nat : at[i] = IF i = 0 THEN HeadNode ELSE follow[at[i - 1]]
  <2> TAKE i \in Nat
  <2>1. CASE i = 0
    BY <1>0, <2>1, CellFacts
  <2>2. CASE i # 0 /\ i - 1 > Len(L)
    <3>1. at[i] = TailNode /\ at[i - 1] = TailNode
      BY <1>0, <2>2
    <3>2. follow[TailNode] = TailNode
      BY NodeFacts
    <3> QED BY <2>2, <3>1, <3>2
  <2>3. CASE i # 0 /\ ~(i - 1 > Len(L))
    <3>1. i - 1 \in 0..Len(L) /\ i - 1 \in Nat /\ i - 1 \in 0..(Len(L) + 1) /\ (i - 1) + 1 = i
      BY <1>0, <2>3
    <3>2. at[i - 1] = Cell(L, i - 1) /\ at[i] = Cell(L, i)
      <4>1. at[i - 1] = Cell(L, i - 1)
        BY <2>3, <3>1
      <4>2. i > Len(L) => i = Len(L) + 1
        BY <1>0, <3>1
      <4> QED BY <1>0, <4>1, <4>2, CellFacts
    <3>3. Cell(L, i - 1) \in Cells /\ Cell(L, i - 1) # TailNode
      <4>1. Len(L) + 1 \in 0..(Len(L) + 1) /\ i - 1 # Len(L) + 1
        BY <1>0, <3>1
      <4> QED BY <1>0, <3>1, <4>1, CellFacts
    <3>4. follow[Cell(L, i - 1)] = p.next[Cell(L, i - 1)]
      BY <3>3
    <3>5. p.next[Cell(L, i - 1)] = Cell(L, i)
      BY <1>0, <3>1 DEF Chained
    <3> QED BY <2>3, <3>2, <3>4, <3>5
  <2> QED BY <2>1, <2>2, <2>3
<1>2. Walk(at)
  <2>1. at = [i \in Nat |-> at[i]]
    OBVIOUS
  <2> HIDE DEF at, follow
  <2> QED BY <1>1, <2>1, Zenon
<1>3. Walk(visit)
  BY <1>2, Zenon
<1>4. IteratedFrom(p) = [i \in {n \in 1..Cardinality(Nodes) : visit[n] # TailNode} |-> visit[i]]
  BY DEF IteratedFrom
<1> HIDE DEF visit, follow
<1>5. \A i \in Nat : visit[i] = at[i]
  <2> HIDE DEF at
  <2> DEFINE Bad == {i \in Nat : visit[i] # at[i]}
  <2> SUFFICES ASSUME Bad # {} PROVE FALSE
    OBVIOUS
  <2>1. PICK i \in Bad : \A j \in Bad : i <= j
    BY SmallestElement
  <2>2. visit[i] = IF i = 0 THEN HeadNode ELSE follow[visit[i - 1]]
    BY <1>3, <2>1, Zenon
  <2>3. at[i] = IF i = 0 THEN HeadNode ELSE follow[at[i - 1]]
    BY <1>1, <2>1, Zenon
  <2>4. i # 0 => visit[i - 1] = at[i - 1]
    BY <2>1
  <2> QED BY <2>1, <2>2, <2>3, <2>4
<1>6. \A i \in 1..Cardinality(Nodes) : visit[i] # TailNode <=> i \in 1..Len(L)
  BY <1>0, <1>5, CellFacts, NodeFacts
<1>7. \A i \in 1..Len(L) : visit[i] = L[i]
  BY <1>0, <1>5, CellFacts
<1>8. {n \in 1..Cardinality(Nodes) : visit[n] # TailNode} = 1..Len(L)
  BY <1>0, <1>6
<1>9. L = [i \in 1..Len(L) |-> L[i]]
  BY <1>0
<1> QED BY <1>4, <1>7, <1>8, <1>9
-----------------------------------------------------------------------------
(* What the operations on the pointers do to the list.                     *)

\* addToHead puts a node that is not in the list at its front.
LEMMA AddToHeadFacts ==
  ASSUME NEW p \in PairType, NEW L, IsList(L, p),
         NEW n \in Nodes, \A i \in 1..Len(L) : L[i] # n
  PROVE  AddToHead(p, n) \in PairType /\ IsList(InFront(n, L), AddToHead(p, n))
PROOF
<1> DEFINE q == AddToHead(p, n)
           M == InFront(n, L)
           first == Cell(L, 1)
<1>0. /\ L \in Seq(Nodes) /\ NoNodeTwice(L) /\ Chained(L, p) /\ Len(L) \in Nat
      /\ n \in Cells /\ n # HeadNode /\ n # TailNode /\ HeadNode \in Cells /\ TailNode \in Cells
  BY NodeFacts DEF IsList
<1>1. /\ M \in Seq(Nodes) /\ Len(M) = Len(L) + 1 /\ M[1] = n
      /\ \A i \in 1..Len(L) : M[i + 1] = L[i]
  BY <1>0 DEF InFront
<1>2. first \in Cells /\ first # n /\ first # HeadNode /\ p.next[HeadNode] = first
  <2>1. 1 \in 0..(Len(L) + 1) /\ 0 \in 0..(Len(L) + 1) /\ 0 \in 0..Len(L)
    BY <1>0
  <2>2. first \in Cells /\ first # HeadNode
    BY <1>0, <2>1, CellFacts
  <2>3. first # n
    BY <1>0 DEF Cell
  <2>4. p.next[HeadNode] = first
    BY <1>0, <2>1, CellFacts DEF Chained
  <2> QED BY <2>2, <2>3, <2>4
<1>3. /\ q.prev = [p.prev EXCEPT ![n] = HeadNode, ![first] = n]
      /\ q.next = [p.next EXCEPT ![n] = first, ![HeadNode] = n]
      /\ q = [prev |-> q.prev, next |-> q.next]
  BY <1>2 DEF AddToHead
<1>4. /\ p.prev \in [Cells -> Cells \cup {Null}] /\ p.next \in [Cells -> Cells \cup {Null}]
  BY DEF PairType
<1> HIDE DEF q, M, first
<1>5. /\ q.prev \in [Cells -> Cells \cup {Null}] /\ q.next \in [Cells -> Cells \cup {Null}]
      /\ q \in PairType
  <2>1. /\ q.prev \in [Cells -> Cells \cup {Null}] /\ q.next \in [Cells -> Cells \cup {Null}]
    BY <1>0, <1>2, <1>3, <1>4
  <2> QED BY <1>3, <2>1 DEF PairType
<1>6. /\ \A c \in Cells : q.prev[c] = IF c = first THEN n ELSE IF c = n THEN HeadNode ELSE p.prev[c]
      /\ \A c \in Cells : q.next[c] = IF c = HeadNode THEN n ELSE IF c = n THEN first ELSE p.next[c]
  BY <1>0, <1>2, <1>3, <1>4
<1>7. NoNodeTwice(M)
  <2>1. ASSUME NEW i \in 1..Len(M), NEW j \in 1..Len(M), M[i] = M[j] PROVE i = j
    <3>1. /\ i = 1 \/ (i - 1 \in 1..Len(L) /\ M[i] = L[i - 1])
          /\ j = 1 \/ (j - 1 \in 1..Len(L) /\ M[j] = L[j - 1])
          /\ i \in Int /\ j \in Int
      BY <1>0, <1>1
    <3> QED BY <1>0, <1>1, <2>1, <3>1 DEF NoNodeTwice
  <2> QED BY <2>1 DEF NoNodeTwice
<1>8. /\ Cell(M, 0) = HeadNode /\ Cell(M, 1) = n
      /\ \A i \in 1..(Len(L) + 1) : Cell(M, i + 1) = Cell(L, i)
  <2>1. Cell(M, 0) = HeadNode /\ Cell(M, 1) = n
    BY <1>0, <1>1 DEF Cell
  <2>2. \A i \in 1..(Len(L) + 1) : Cell(M, i + 1) = Cell(L, i)
    BY <1>0, <1>1 DEF Cell
  <2> QED BY <2>1, <2>2
<1>9. Chained(M, q)
  <2> SUFFICES ASSUME NEW i \in 0..Len(M)
               PROVE  q.next[Cell(M, i)] = Cell(M, i + 1) /\ q.prev[Cell(M, i + 1)] = Cell(M, i)
    BY DEF Chained
  <2>1. CASE i = 0
    BY <1>0, <1>2, <1>6, <1>8, <2>1
  <2>2. CASE i = 1
    <3>1. Cell(M, 2) = first
      <4>1. 1 \in 1..(Len(L) + 1) /\ 1 + 1 = 2
        BY <1>0
      <4> QED BY <1>8, <4>1 DEF first
    <3> QED BY <1>0, <1>2, <1>6, <1>8, <2>2, <3>1
  <2>3. CASE i >= 2
    <3> DEFINE a == i - 1
    <3>1. /\ a \in 1..Len(L) /\ a \in 0..Len(L) /\ a + 1 \in 1..(Len(L) + 1) /\ a + 1 = i
          /\ a \in 0..(Len(L) + 1) /\ a + 1 \in 0..(Len(L) + 1) /\ a # 0 /\ a + 1 # 1
          /\ 0 \in 0..(Len(L) + 1) /\ 1 \in 0..(Len(L) + 1) /\ a \in 1..(Len(L) + 1)
      BY <1>0, <1>1, <2>3
    <3> HIDE DEF a
    <3>2. Cell(M, i) = Cell(L, a) /\ Cell(M, i + 1) = Cell(L, a + 1)
      BY <1>8, <3>1
    <3>3. p.next[Cell(L, a)] = Cell(L, a + 1) /\ p.prev[Cell(L, a + 1)] = Cell(L, a)
      BY <1>0, <3>1 DEF Chained
    <3>4. /\ Cell(L, a) \in Cells /\ Cell(L, a) # HeadNode /\ Cell(L, a) # n
          /\ Cell(L, a + 1) \in Cells /\ Cell(L, a + 1) # first /\ Cell(L, a + 1) # n
      <4>1. Cell(L, a) \in Cells /\ Cell(L, a) # HeadNode
        BY <1>0, <3>1, CellFacts
      <4>2. Cell(L, a + 1) \in Cells /\ Cell(L, a + 1) # first
        BY <1>0, <3>1, CellFacts DEF first
      <4>3. Cell(L, a) # n
        BY <1>0, <3>1, CellFacts
      <4>4. Cell(L, a + 1) # n
        BY <1>0, <3>1, <4>2 DEF Cell
      <4> QED BY <4>1, <4>2, <4>3, <4>4
    <3> QED BY <1>6, <3>2, <3>3, <3>4
  <2> QED BY <1>0, <1>1, <2>1, <2>2, <2>3
<1> QED BY <1>1, <1>5, <1>7, <1>9 DEF IsList, q, M

\* removeNode takes a node of the list out of it.
LEMMA RemoveNodeFacts ==
  ASSUME NEW p \in PairType, NEW L, IsList(L, p), NEW m \in 1..Len(L)
  PROVE  /\ RemoveNode(p, L[m]) \in PairType
         /\ IsList(RemoveAt(L, m), RemoveNode(p, L[m]))
         /\ L[m] \in Nodes
         /\ \A i \in 1..Len(RemoveAt(L, m)) : RemoveAt(L, m)[i] # L[m]
PROOF
<1> DEFINE n == L[m]
           q == RemoveNode(p, n)
           M == RemoveAt(L, m)
           before == Cell(L, m - 1)
           after == Cell(L, m + 1)
<1>0. /\ L \in Seq(Nodes) /\ NoNodeTwice(L) /\ Chained(L, p) /\ Len(L) \in Nat
      /\ n \in Nodes /\ n \in Cells
  BY NodeFacts DEF IsList
<1>1. /\ M \in Seq(Nodes) /\ Len(M) = Len(L) - 1
      /\ \A j \in 1..(Len(L) - 1) : M[j] = IF j < m THEN L[j] ELSE L[j + 1]
  BY <1>0, RemoveAtFacts
<1>2. /\ m \in 0..Len(L) /\ m - 1 \in 0..Len(L) /\ (m - 1) + 1 = m
      /\ m \in 0..(Len(L) + 1) /\ m - 1 \in 0..(Len(L) + 1) /\ m + 1 \in 0..(Len(L) + 1)
  BY <1>0
<1>3. /\ p.next[n] = after /\ p.prev[n] = before
      /\ before \in Cells /\ after \in Cells
  <2>1. Cell(L, m) = n /\ before \in Cells /\ after \in Cells
    BY <1>0, <1>2, CellFacts
  <2> QED BY <1>0, <1>2, <2>1 DEF Chained
<1>4. /\ q.prev = [p.prev EXCEPT ![after] = before]
      /\ q.next = [p.next EXCEPT ![before] = after]
      /\ q = [prev |-> q.prev, next |-> q.next]
  BY <1>3 DEF RemoveNode
<1>5. p.prev \in [Cells -> Cells \cup {Null}] /\ p.next \in [Cells -> Cells \cup {Null}]
  BY DEF PairType
<1> HIDE DEF n, q, M, before, after
<1>6. /\ q \in PairType
      /\ \A c \in Cells : q.prev[c] = IF c = after THEN before ELSE p.prev[c]
      /\ \A c \in Cells : q.next[c] = IF c = before THEN after ELSE p.next[c]
  BY <1>3, <1>4, <1>5 DEF PairType
<1>7. \A i \in 1..Len(M) : /\ i \in 1..(Len(L) - 1)
                           /\ (IF i < m THEN i ELSE i + 1) \in 1..Len(L)
                           /\ M[i] = L[IF i < m THEN i ELSE i + 1]
                           /\ (IF i < m THEN i ELSE i + 1) # m
  BY <1>0, <1>1
<1>8. \A i \in 1..Len(M) : M[i] # n
  BY <1>0, <1>7 DEF NoNodeTwice, n
<1>9. NoNodeTwice(M)
  <2>1. ASSUME NEW i \in 1..Len(M), NEW j \in 1..Len(M), M[i] = M[j] PROVE i = j
    <3>1. (IF i < m THEN i ELSE i + 1) = (IF j < m THEN j ELSE j + 1)
      BY <1>0, <1>7, <2>1 DEF NoNodeTwice
    <3> QED BY <1>0, <1>1, <3>1
  <2> QED BY <2>1 DEF NoNodeTwice
<1>10. \A j \in 0..Len(L) : Cell(M, j) = Cell(L, IF j < m THEN j ELSE j + 1)
  <2> TAKE j \in 0..Len(L)
  <2>1. CASE j = 0
    BY <1>0, <2>1 DEF Cell
  <2>2. CASE j = Len(L)
    <3>1. j = Len(M) + 1 /\ j # 0 /\ ~(j < m)
      BY <1>0, <1>1, <2>2
    <3> QED BY <2>2, <3>1 DEF Cell
  <2>3. CASE j # 0 /\ j # Len(L)
    <3>1. j \in 1..Len(M) /\ j # Len(M) + 1
      BY <1>0, <1>1, <2>3
    <3>2. Cell(M, j) = L[IF j < m THEN j ELSE j + 1]
      BY <1>7, <2>3, <3>1 DEF Cell
    <3> QED BY <1>0, <1>7, <3>1, <3>2, CellFacts
  <2> QED BY <2>1, <2>2, <2>3
<1>11. Chained(M, q)
  <2> SUFFICES ASSUME NEW i \in 0..Len(M)
               PROVE  q.next[Cell(M, i)] = Cell(M, i + 1) /\ q.prev[Cell(M, i + 1)] = Cell(M, i)
    BY DEF Chained
  <2>0. i \in 0..Len(L) /\ i + 1 \in 0..Len(L)
    BY <1>0, <1>1
  <2>1. CASE i = m - 1
    <3>1. Cell(M, i) = before /\ Cell(M, i + 1) = after
      <4>1. i < m /\ ~(i + 1 < m) /\ (i + 1) + 1 = m + 1
        BY <1>0, <2>1
      <4> QED BY <1>10, <2>0, <2>1, <4>1 DEF before, after
    <3> QED BY <1>3, <1>6, <3>1
  <2>2. CASE i # m - 1
    <3> DEFINE a == IF i < m THEN i ELSE i + 1
    <3>1. /\ a \in 0..Len(L) /\ a \in 0..(Len(L) + 1) /\ a + 1 \in 0..(Len(L) + 1)
          /\ a # m - 1 /\ a + 1 # m + 1
          /\ (IF i + 1 < m THEN i + 1 ELSE i + 2) = a + 1
      BY <1>0, <1>1, <2>2
    <3>2. Cell(M, i) = Cell(L, a) /\ Cell(M, i + 1) = Cell(L, a + 1)
      <4>1. Cell(M, i) = Cell(L, a)
        BY <1>10, <2>0
      <4>2. (i + 1) + 1 = i + 2
        BY <2>0
      <4>3. Cell(M, i + 1) = Cell(L, IF i + 1 < m THEN i + 1 ELSE i + 2)
        BY <1>10, <2>0, <4>2
      <4> QED BY <3>1, <4>1, <4>3
    <3> HIDE DEF a
    <3>3. p.next[Cell(L, a)] = Cell(L, a + 1) /\ p.prev[Cell(L, a + 1)] = Cell(L, a)
      BY <1>0, <3>1 DEF Chained
    <3>4. /\ Cell(L, a) \in Cells /\ Cell(L, a) # before
          /\ Cell(L, a + 1) \in Cells /\ Cell(L, a + 1) # after
      BY <1>0, <1>2, <3>1, CellFacts DEF before, after
    <3> QED BY <1>6, <3>2, <3>3, <3>4
  <2> QED BY <2>1, <2>2
<1> QED BY <1>0, <1>1, <1>6, <1>8, <1>9, <1>11 DEF IsList, q, M, n

\* The pointers of a node that is in no list are no part of one.
LEMMA FreeFacts ==
  ASSUME NEW p \in PairType, NEW L, IsList(L, p),
         NEW n \in Nodes, \A i \in 1..Len(L) : L[i] # n
  PROVE  Free(p, n) \in PairType /\ IsList(L, Free(p, n))
PROOF
<1> DEFINE q == Free(p, n)
<1>0. /\ L \in Seq(Nodes) /\ NoNodeTwice(L) /\ Chained(L, p) /\ Len(L) \in Nat
      /\ n \in Cells /\ n # HeadNode /\ n # TailNode
  BY NodeFacts DEF IsList
<1>1. /\ q.prev = [p.prev EXCEPT ![n] = Null] /\ q.next = [p.next EXCEPT ![n] = Null]
      /\ q = [prev |-> q.prev, next |-> q.next]
      /\ p.prev \in [Cells -> Cells \cup {Null}] /\ p.next \in [Cells -> Cells \cup {Null}]
  BY DEF Free, PairType
<1> HIDE DEF q
<1>2. /\ q \in PairType
      /\ \A c \in Cells : c # n => q.prev[c] = p.prev[c] /\ q.next[c] = p.next[c]
  BY <1>0, <1>1 DEF PairType
<1>3. \A i \in 0..(Len(L) + 1) : Cell(L, i) # n /\ Cell(L, i) \in Cells
  <2>1. \A i \in 0..(Len(L) + 1) : Cell(L, i) \in Cells
    BY <1>0, CellFacts
  <2>2. \A i \in 0..(Len(L) + 1) : Cell(L, i) # n
    BY <1>0 DEF Cell
  <2> QED BY <2>1, <2>2
<1>4. Chained(L, q)
  <2> SUFFICES ASSUME NEW i \in 0..Len(L)
               PROVE  q.next[Cell(L, i)] = Cell(L, i + 1) /\ q.prev[Cell(L, i + 1)] = Cell(L, i)
    BY DEF Chained
  <2>1. i \in 0..(Len(L) + 1) /\ i + 1 \in 0..(Len(L) + 1)
    BY <1>0
  <2> QED BY <1>0, <1>2, <1>3, <2>1 DEF Chained
<1> QED BY <1>0, <1>2, <1>4 DEF IsList, q

\* moveToHead.
LEMMA MoveToHeadFacts ==
  ASSUME NEW p \in PairType, NEW L, IsList(L, p), NEW m \in 1..Len(L)
  PROVE  /\ MoveToHead(p, L[m]) \in PairType
         /\ IsList(InFront(L[m], RemoveAt(L, m)), MoveToHead(p, L[m]))
BY RemoveNodeFacts, AddToHeadFacts DEF MoveToHead
-----------------------------------------------------------------------------
(* The nodes of a list and its entries.                                    *)
Members(L) == {L[i] : i \in 1..Len(L)}

EntriesOf(L, ky, da) == [i \in DOMAIN L |-> [key |-> ky[L[i]], data |-> da[L[i]]]]

LEMMA MembersOfRemoveAt ==
  ASSUME NEW L \in Seq(Nodes), NoNodeTwice(L), NEW m \in 1..Len(L)
  PROVE  Members(RemoveAt(L, m)) = Members(L) \ {L[m]}
PROOF
<1> DEFINE M == RemoveAt(L, m)
<1>0. Len(L) \in Nat
  OBVIOUS
<1>1. /\ Len(M) = Len(L) - 1
      /\ \A j \in 1..(Len(L) - 1) : M[j] = IF j < m THEN L[j] ELSE L[j + 1]
  BY RemoveAtFacts
<1> HIDE DEF M
<1>2. ASSUME NEW i \in 1..Len(M) PROVE M[i] \in Members(L) \ {L[m]}
  <2>1. PICK j \in 1..Len(L) : j # m /\ M[i] = L[j]
    BY <1>0, <1>1
  <2> QED BY <2>1 DEF Members, NoNodeTwice
<1>3. ASSUME NEW j \in 1..Len(L), L[j] # L[m] PROVE \E i \in 1..Len(M) : M[i] = L[j]
  <2>1. CASE j < m
    BY <1>0, <1>1, <2>1
  <2>2. CASE ~(j < m)
    <3>1. j - 1 \in 1..Len(M) /\ ~(j - 1 < m) /\ (j - 1) + 1 = j
      BY <1>0, <1>1, <1>3, <2>2
    <3> QED BY <1>1, <3>1
  <2> QED BY <2>1, <2>2
<1> QED BY <1>2, <1>3 DEF Members, M

LEMMA MembersOfCons ==
  ASSUME NEW L \in Seq(Nodes), NEW n \in Nodes
  PROVE  Members(InFront(n, L)) = Members(L) \cup {n}
PROOF
<1> DEFINE M == InFront(n, L)
<1>0. Len(L) \in Nat
  OBVIOUS
<1>1. Len(M) = Len(L) + 1 /\ M[1] = n /\ \A i \in 1..Len(L) : M[i + 1] = L[i]
  BY <1>0 DEF InFront
<1> HIDE DEF M
<1>2. \A i \in 1..Len(M) : i = 1 \/ (i - 1 \in 1..Len(L) /\ M[i] = L[i - 1])
  BY <1>0, <1>1
<1>3. 1 \in 1..Len(M) /\ \A i \in 1..Len(L) : i + 1 \in 1..Len(M)
  BY <1>0, <1>1
<1>4. Members(M) \subseteq Members(L) \cup {n}
  BY <1>1, <1>2 DEF Members
<1>5. n \in Members(M)
  BY <1>1, <1>3 DEF Members
<1>6. Members(L) \subseteq Members(M)
  <2>1. \A i \in 1..Len(L) : \E j \in 1..Len(M) : M[j] = L[i]
    BY <1>1, <1>3
  <2> QED BY <2>1 DEF Members
<1> QED BY <1>4, <1>5, <1>6 DEF M

LEMMA EntriesAt ==
  ASSUME NEW L \in Seq(Nodes), NEW ky, NEW da,
         \A n \in Members(L) : ky[n] \in Keys /\ da[n] \in Data
  PROVE  /\ EntriesOf(L, ky, da) \in Seq(Entry)
         /\ Len(EntriesOf(L, ky, da)) = Len(L)
         /\ \A i \in 1..Len(L) :
              /\ EntriesOf(L, ky, da)[i] = [key |-> ky[L[i]], data |-> da[L[i]]]
              /\ EntriesOf(L, ky, da)[i].key = ky[L[i]]
              /\ EntriesOf(L, ky, da)[i].data = da[L[i]]
PROOF
<1> DEFINE s == EntriesOf(L, ky, da)
<1>1. DOMAIN L = 1..Len(L) /\ Len(L) \in Nat
  OBVIOUS
<1>2. \A i \in 1..Len(L) : [key |-> ky[L[i]], data |-> da[L[i]]] \in Entry
  BY DEF Members, Entry
<1>3. s = [i \in 1..Len(L) |-> [key |-> ky[L[i]], data |-> da[L[i]]]]
  BY <1>1 DEF EntriesOf
<1> HIDE DEF s
<1>4. s \in Seq(Entry) /\ Len(s) = Len(L)
  BY <1>1, <1>2, <1>3
<1>5. \A i \in 1..Len(L) : s[i] = [key |-> ky[L[i]], data |-> da[L[i]]]
  BY <1>3
<1>6. \A i \in 1..Len(L) : s[i].key = ky[L[i]] /\ s[i].data = da[L[i]]
  <2> TAKE i \in 1..Len(L)
  <2>1. s[i] = [key |-> ky[L[i]], data |-> da[L[i]]]
    BY <1>5
  <2> QED BY <2>1
<1> QED BY <1>4, <1>5, <1>6 DEF s

\* Only the fields of the nodes in the list matter.
LEMMA SameFieldsSameEntries ==
  ASSUME NEW L \in Seq(Nodes), NEW ky, NEW da, NEW ky2, NEW da2,
         \A n \in Members(L) : ky[n] = ky2[n] /\ da[n] = da2[n]
  PROVE  EntriesOf(L, ky, da) = EntriesOf(L, ky2, da2)
PROOF
<1>1. DOMAIN L = 1..Len(L)
  OBVIOUS
<1>2. \A i \in DOMAIN L : ky[L[i]] = ky2[L[i]] /\ da[L[i]] = da2[L[i]]
  BY <1>1 DEF Members
<1> QED BY <1>2 DEF EntriesOf

LEMMA EntriesOfRemoveAt ==
  ASSUME NEW L \in Seq(Nodes), NEW ky, NEW da, NEW m \in 1..Len(L), NoNodeTwice(L),
         \A n \in Members(L) : ky[n] \in Keys /\ da[n] \in Data
  PROVE  EntriesOf(RemoveAt(L, m), ky, da) = RemoveAt(EntriesOf(L, ky, da), m)
PROOF
<1> DEFINE s == EntriesOf(L, ky, da)
           M == RemoveAt(L, m)
           t == EntriesOf(M, ky, da)
           u == RemoveAt(s, m)
<1>0. Len(L) \in Nat
  OBVIOUS
<1>1. /\ s \in Seq(Entry) /\ Len(s) = Len(L)
      /\ \A i \in 1..Len(L) : s[i] = [key |-> ky[L[i]], data |-> da[L[i]]]
  BY EntriesAt
<1>2. /\ M \in Seq(Nodes) /\ Len(M) = Len(L) - 1
      /\ \A j \in 1..(Len(L) - 1) : M[j] = IF j < m THEN L[j] ELSE L[j + 1]
  BY RemoveAtFacts
<1>3. \A n \in Members(M) : ky[n] \in Keys /\ da[n] \in Data
  BY MembersOfRemoveAt
<1> HIDE DEF s, M
<1>4. /\ t \in Seq(Entry) /\ Len(t) = Len(M)
      /\ \A i \in 1..Len(M) : t[i] = [key |-> ky[M[i]], data |-> da[M[i]]]
  BY <1>2, <1>3, EntriesAt
<1>5. /\ u \in Seq(Entry) /\ Len(u) = Len(s) - 1
      /\ \A j \in 1..(Len(s) - 1) : u[j] = IF j < m THEN s[j] ELSE s[j + 1]
  <2>1. m \in 1..Len(s) /\ s \in Seq(Entry)
    BY <1>1
  <2> QED BY ONLY <2>1, RemoveAtFacts DEF u
<1> HIDE DEF t, u
<1>6. \A j \in 1..Len(t) : t[j] = u[j]
  <2> TAKE j \in 1..Len(t)
  <2>1. CASE j < m
    <3>1. j \in 1..Len(L) /\ j \in 1..(Len(L) - 1)
      BY <1>0, <1>2, <1>4
    <3>2. M[j] = L[j] /\ u[j] = s[j]
      BY <1>1, <1>2, <1>5, <2>1, <3>1
    <3>3. s[j] = [key |-> ky[L[j]], data |-> da[L[j]]]
      BY <1>1, <3>1
    <3>4. t[j] = [key |-> ky[M[j]], data |-> da[M[j]]]
      BY <1>4
    <3> QED BY <3>2, <3>3, <3>4
  <2>2. CASE ~(j < m)
    <3>1. j + 1 \in 1..Len(L) /\ j \in 1..(Len(L) - 1)
      BY <1>0, <1>2, <1>4
    <3>2. M[j] = L[j + 1] /\ u[j] = s[j + 1]
      BY <1>1, <1>2, <1>5, <2>2, <3>1
    <3>3. s[j + 1] = [key |-> ky[L[j + 1]], data |-> da[L[j + 1]]]
      BY <1>1, <3>1
    <3>4. t[j] = [key |-> ky[M[j]], data |-> da[M[j]]]
      BY <1>4
    <3> QED BY <3>2, <3>3, <3>4
  <2> QED BY <2>1, <2>2
<1>7. t = u
  BY <1>1, <1>2, <1>4, <1>5, <1>6, SeqEqual
<1> QED BY <1>7 DEF t, u, s, M

LEMMA EntriesOfCons ==
  ASSUME NEW L \in Seq(Nodes), NEW n \in Nodes, NEW ky, NEW da,
         \A x \in Members(L) : ky[x] \in Keys /\ da[x] \in Data,
         ky[n] \in Keys, da[n] \in Data,
         NEW e, e = [key |-> ky[n], data |-> da[n]]
  PROVE  EntriesOf(InFront(n, L), ky, da) = InFront(e, EntriesOf(L, ky, da))
PROOF
<1> DEFINE s == EntriesOf(L, ky, da)
           M == InFront(n, L)
           t == EntriesOf(M, ky, da)
           u == InFront(e, s)
<1>0. Len(L) \in Nat
  OBVIOUS
<1>1. /\ s \in Seq(Entry) /\ Len(s) = Len(L)
      /\ \A i \in 1..Len(L) : s[i] = [key |-> ky[L[i]], data |-> da[L[i]]]
  BY EntriesAt
<1>2. /\ M \in Seq(Nodes) /\ Len(M) = Len(L) + 1
      /\ M[1] = n /\ \A i \in 1..Len(L) : M[i + 1] = L[i]
  BY <1>0 DEF InFront
<1>3. \A x \in Members(M) : ky[x] \in Keys /\ da[x] \in Data
  BY MembersOfCons
<1>e. e \in Entry
  BY DEF Entry
<1> HIDE DEF s, M
<1>4. /\ t \in Seq(Entry) /\ Len(t) = Len(M)
      /\ \A i \in 1..Len(M) : t[i] = [key |-> ky[M[i]], data |-> da[M[i]]]
  BY <1>2, <1>3, EntriesAt
<1>5. /\ u \in Seq(Entry) /\ Len(u) = Len(s) + 1
      /\ \A i \in 1..(Len(s) + 1) : u[i] = IF i = 1 THEN e ELSE s[i - 1]
  BY <1>1, <1>e, ConsFacts DEF InFront
<1>6. \A i \in 1..Len(t) : t[i] = u[i]
  <2> TAKE i \in 1..Len(t)
  <2> HIDE DEF t, u
  <2>1. CASE i = 1
    BY <1>0, <1>1, <1>2, <1>4, <1>5, <2>1
  <2>2. CASE i # 1
    <3>1. i - 1 \in 1..Len(L) /\ i \in 1..Len(M) /\ i \in 1..(Len(s) + 1) /\ M[i] = L[i - 1]
      BY <1>0, <1>1, <1>2, <1>4, <2>2
    <3>2. t[i] = [key |-> ky[L[i - 1]], data |-> da[L[i - 1]]]
      BY <1>4, <3>1
    <3>3. u[i] = s[i - 1]
      BY <1>5, <2>2, <3>1
    <3> QED BY <1>1, <3>1, <3>2, <3>3
  <2> QED BY <2>1, <2>2
<1>7. t = u
  <2> HIDE DEF t, u
  <2> QED BY <1>1, <1>2, <1>4, <1>5, <1>6, SeqEqual
<1> QED BY <1>7 DEF t, u, s, M
-----------------------------------------------------------------------------
(* The invariant.                                                          *)
FieldType ==
  /\ cache \in [Keys -> Nodes \cup {Null}]
  /\ key \in [Nodes -> Keys \cup {Null}] /\ data \in [Nodes -> Data \cup {Null}]
  /\ size \in [Nodes -> Nat]
  /\ Pointers \in PairType

\* The map holds the nodes of S, each under its key, and their sizes are those
\* of what they hold.
Consistent(S) ==
  /\ \A n \in S : /\ key[n] \in Keys /\ cache[key[n]] = n
                  /\ data[n] \in Data /\ size[n] = SizeOf[data[n]] /\ Storable(data[n])
  /\ \A k \in Keys : cache[k] # Null => cache[k] \in S /\ key[cache[k]] = k

Represents(L) ==
  /\ IsList(L, Pointers) /\ Consistent(Members(L))
  /\ totalSize = TotalSize(EntriesOf(L, key, data))

LoopInv ==
  /\ evicting \in BOOLEAN /\ evicted \in Seq(Keys)
  /\ evicting \/ totalSize <= MaxSize

IInv == FieldType /\ (\E L : Represents(L)) /\ LoopInv

\* A list that represents the cache is the one that the iterator yields.
LEMMA ListedIs ==
  ASSUME FieldType, NEW L, Represents(L)
  PROVE  Listed = L /\ Entries = EntriesOf(L, key, data)
PROOF
<1>1. Listed = L
  BY IteratesOverList DEF FieldType, Represents, Listed
<1> QED BY <1>1 DEF Entries, EntriesOf

LEMMA ListedNextIs ==
  ASSUME FieldType', NEW L, Represents(L)'
  PROVE  Listed' = L /\ Entries' = EntriesOf(L, key', data')
PROOF
<1>1. Listed' = L
  BY IteratesOverList DEF FieldType, Represents, Listed
<1> QED BY <1>1 DEF Entries, EntriesOf

\* What the entries of a represented cache are.
LEMMA EntriesFacts ==
  ASSUME NEW L, Represents(L)
  PROVE  LET s == EntriesOf(L, key, data)
         IN  /\ L \in Seq(Nodes) /\ NoNodeTwice(L) /\ Len(L) \in Nat
             /\ \A n \in Members(L) : key[n] \in Keys /\ data[n] \in Data
             /\ s \in Seq(Entry) /\ Len(s) = Len(L) /\ OnePerKey(s) /\ AllStorable(s)
             /\ \A i \in 1..Len(L) : /\ s[i] = [key |-> key[L[i]], data |-> data[L[i]]]
                                      /\ s[i].key = key[L[i]] /\ s[i].data = data[L[i]]
PROOF
<1> DEFINE s == EntriesOf(L, key, data)
<1>1. L \in Seq(Nodes) /\ NoNodeTwice(L) /\ Len(L) \in Nat
  BY DEF Represents, IsList
<1>2. \A n \in Members(L) : /\ key[n] \in Keys /\ cache[key[n]] = n
                            /\ data[n] \in Data /\ Storable(data[n])
  BY DEF Represents, Consistent
<1>3. /\ s \in Seq(Entry) /\ Len(s) = Len(L)
      /\ \A i \in 1..Len(L) : /\ s[i] = [key |-> key[L[i]], data |-> data[L[i]]]
                               /\ s[i].key = key[L[i]] /\ s[i].data = data[L[i]]
  BY <1>1, <1>2, EntriesAt
<1> HIDE DEF s
<1>4. AllStorable(s)
  <2>1. \A i \in 1..Len(L) : L[i] \in Members(L)
    BY DEF Members
  <2> QED BY <1>2, <1>3, <2>1 DEF AllStorable
<1>5. OnePerKey(s)
  <2>1. ASSUME NEW i \in 1..Len(s), NEW j \in 1..Len(s), s[i].key = s[j].key PROVE i = j
    <3>1. L[i] \in Members(L) /\ L[j] \in Members(L)
      BY <1>3 DEF Members
    <3>2. key[L[i]] = key[L[j]]
      BY <1>3, <2>1
    <3>3. L[i] = L[j]
      BY <1>2, <3>1, <3>2
    <3> QED BY <1>1, <1>3, <3>3 DEF NoNodeTwice
  <2> QED BY <2>1 DEF OnePerKey
<1> QED BY <1>1, <1>2, <1>3, <1>4, <1>5 DEF s

\* A key of the map has one position in the list and among the entries.
LEMMA KeyInMap ==
  ASSUME NEW L, Represents(L), NEW k \in Keys, cache[k] # Null
  PROVE  LET s == EntriesOf(L, key, data)
         IN  /\ Holds(s, k) /\ PositionOf(s, k) \in 1..Len(L)
             /\ cache[k] = L[PositionOf(s, k)]
             /\ s[PositionOf(s, k)] = [key |-> k, data |-> data[cache[k]]]
PROOF
<1> DEFINE s == EntriesOf(L, key, data)
           p == PositionOf(s, k)
<1>1. /\ s \in Seq(Entry) /\ Len(s) = Len(L) /\ OnePerKey(s) /\ Len(L) \in Nat
      /\ \A i \in 1..Len(L) : /\ s[i] = [key |-> key[L[i]], data |-> data[L[i]]]
                               /\ s[i].key = key[L[i]]
  BY EntriesFacts
<1> HIDE DEF s
<1>2. PICK m \in 1..Len(L) : cache[k] = L[m] /\ key[L[m]] = k
  BY DEF Represents, Consistent, Members
<1>3. s[m].key = k
  BY <1>1, <1>2
<1>4. Holds(s, k)
  BY <1>1, <1>2, <1>3, DomainIsInterval DEF Holds
<1>5. p \in 1..Len(s) /\ s[p].key = k
  BY <1>1, <1>4, PositionFacts
<1>6. p = m
  BY <1>1, <1>2, <1>3, <1>5 DEF OnePerKey
<1> QED BY <1>1, <1>2, <1>4, <1>6 DEF s

LEMMA KeyNotInMap ==
  ASSUME NEW L, Represents(L), NEW k, cache[k] = Null
  PROVE  ~Holds(EntriesOf(L, key, data), k)
PROOF
<1> DEFINE s == EntriesOf(L, key, data)
<1>1. /\ s \in Seq(Entry) /\ Len(s) = Len(L)
      /\ \A i \in 1..Len(L) : /\ s[i] = [key |-> key[L[i]], data |-> data[L[i]]]
                               /\ s[i].key = key[L[i]]
  BY EntriesFacts
<1>2. \A i \in 1..Len(L) : L[i] \in Nodes /\ cache[key[L[i]]] = L[i]
  BY EntriesFacts DEF Represents, Consistent, Members
<1> HIDE DEF s
<1>3. \A i \in 1..Len(L) : s[i].key # k
  <2> TAKE i \in 1..Len(L)
  <2>1. s[i].key = key[L[i]] /\ cache[key[L[i]]] = L[i] /\ L[i] # Null
    BY <1>1, <1>2, NodeFacts
  <2> QED BY <2>1
<1> QED BY <1>1, <1>3, DomainIsInterval DEF Holds, s

\* The total is an integer.
LEMMA TotalIsInt ==
  ASSUME NEW s \in Seq(Entry)
  PROVE  TotalSize(s) \in Int
PROOF
<1>1. Len(s) \in 0..Len(s)
  <2>1. Len(s) \in Nat
    OBVIOUS
  <2> QED BY <2>1
<1> QED BY <1>1, SizeUpToDef DEF TotalSize

LEMMA LinkedIsMembers ==
  ASSUME NEW L, Represents(L)
  PROVE  Linked = Members(L)
PROOF
<1>1. \A n \in Members(L) : n \in Nodes
  BY EntriesFacts DEF Members
<1> QED BY <1>1, NodeFacts DEF Represents, Consistent, Linked, InMap

LEMMA InitInv == Init => IInv
PROOF
<1> SUFFICES ASSUME Init PROVE IInv
  OBVIOUS
<1> USE DEF Init
<1>1. <<>> \in Seq(Nodes) /\ Len(<<>>) = 0 /\ <<>> \in Seq(Keys)
  OBVIOUS
<1>2. FieldType
  BY <1>1, NodeFacts DEF FieldType, PairType, Pointers
<1>3. IsList(<<>>, Pointers)
  <2>1. NoNodeTwice(<<>>)
    BY <1>1 DEF NoNodeTwice
  <2>2. Cell(<<>>, 0) = HeadNode /\ Cell(<<>>, 1) = TailNode
    BY <1>1 DEF Cell
  <2>3. Pointers.next[HeadNode] = TailNode /\ Pointers.prev[TailNode] = HeadNode
    BY NodeFacts DEF Pointers
  <2>4. Chained(<<>>, Pointers)
    BY <1>1, <2>2, <2>3 DEF Chained
  <2> QED BY <1>1, <2>1, <2>4 DEF IsList
<1>4. Members(<<>>) = {}
  BY <1>1 DEF Members
<1>5. Consistent({})
  BY DEF Consistent
<1>6. EntriesOf(<<>>, key, data) = <<>>
  BY DEF EntriesOf
<1>7. TotalSize(<<>>) = 0
  <2>1. <<>> \in Seq(Entry)
    OBVIOUS
  <2> QED BY <1>1, <2>1, SizeUpToDef DEF TotalSize
<1>8. Represents(<<>>)
  BY <1>3, <1>4, <1>5, <1>6, <1>7 DEF Represents
<1>9. LoopInv
  <2>1. totalSize <= MaxSize
    BY MaxSizeIsNat
  <2> QED BY <1>1, <2>1 DEF LoopInv
<1> QED BY <1>2, <1>8, <1>9 DEF IInv
-----------------------------------------------------------------------------
(* Steps.                                                                  *)
LEMMA SetPointersFacts ==
  ASSUME NEW p \in PairType, SetPointers(p)
  PROVE  Pointers' = p
BY DEF SetPointers, Pointers, PairType

\* A node that holds d for k is put in front of the other nodes of the cache.
LEMMA PutInFront ==
  ASSUME NEW L, Represents(L), NEW n \in Nodes, NEW B \in Seq(Nodes),
         Members(B) = Members(L) \ {n}, IsList(InFront(n, B), Pointers)',
         NEW k \in Keys, NEW d \in Data, Storable(d),
         cache[k] = n \/ (cache[k] = Null /\ n \notin Members(L)),
         \A j \in Keys : cache'[j] = IF j = k THEN n ELSE cache[j],
         \A x \in Nodes : /\ key'[x] = IF x = n THEN k ELSE key[x]
                          /\ data'[x] = IF x = n THEN d ELSE data[x]
                          /\ size'[x] = IF x = n THEN SizeOf[d] ELSE size[x],
         totalSize' = SizeOf[d] + TotalSize(EntriesOf(B, key, data))
  PROVE  /\ Represents(InFront(n, B))'
         /\ EntriesOf(InFront(n, B), key', data') =
              InFront([key |-> k, data |-> d], EntriesOf(B, key, data))
PROOF
<1> DEFINE e == [key |-> k, data |-> d]
           M == InFront(n, B)
<1>0. /\ \A x \in Members(L) : /\ key[x] \in Keys /\ cache[key[x]] = x /\ x \in Nodes
                               /\ data[x] \in Data /\ size[x] = SizeOf[data[x]]
                               /\ Storable(data[x])
      /\ \A j \in Keys : cache[j] # Null => cache[j] \in Members(L) /\ key[cache[j]] = j
  <2>1. \A x \in Members(L) : x \in Nodes
    BY EntriesFacts DEF Members
  <2>2. Consistent(Members(L))
    BY DEF Represents
  <2> QED BY <2>1, <2>2 DEF Consistent
<1>1. Members(M) = Members(B) \cup {n} /\ Members(M) = Members(L) \cup {n}
  BY MembersOfCons
<1>2. \A x \in Members(B) : x \in Members(L) /\ x # n /\ x \in Nodes /\ key[x] # k
  BY <1>0, NodeFacts
<1> HIDE DEF M
<1>3. Consistent(Members(M))'
  <2>1. ASSUME NEW x \in Members(M)
        PROVE  /\ key'[x] \in Keys /\ cache'[key'[x]] = x
               /\ data'[x] \in Data /\ size'[x] = SizeOf[data'[x]] /\ Storable(data'[x])
    <3>1. CASE x = n
      BY <3>1
    <3>2. CASE x # n
      BY <1>0, <1>1, <1>2, <3>2
    <3> QED BY <3>1, <3>2
  <2>2. ASSUME NEW j \in Keys, cache'[j] # Null
        PROVE  cache'[j] \in Members(M) /\ key'[cache'[j]] = j
    <3>1. CASE j = k
      BY <1>1, <3>1
    <3>2. CASE j # k
      <4>1. cache'[j] = cache[j] /\ cache[j] \in Members(L) /\ key[cache[j]] = j
        BY <1>0, <2>2, <3>2
      <4>2. cache[j] # n
        BY <1>0, <3>2, <4>1, NodeFacts
      <4> QED BY <1>0, <1>1, <4>1, <4>2
    <3> QED BY <3>1, <3>2
  <2> QED BY <2>1, <2>2 DEF Consistent
<1>4. \A x \in Members(B) \cup {n} : key'[x] \in Keys /\ data'[x] \in Data
  BY <1>0, <1>2
<1>5. EntriesOf(M, key', data') = InFront(e, EntriesOf(B, key', data'))
  <2>1. M = InFront(n, B) /\ e = [key |-> key'[n], data |-> data'[n]]
    BY DEF M
  <2> HIDE DEF e
  <2> QED BY <1>4, <2>1, EntriesOfCons
<1>6. EntriesOf(B, key', data') = EntriesOf(B, key, data)
  BY <1>2, SameFieldsSameEntries
<1>7. EntriesOf(M, key', data') = InFront(e, EntriesOf(B, key, data))
  BY <1>5, <1>6
<1>8. TotalSize(EntriesOf(M, key', data')) = SizeOf[d] + TotalSize(EntriesOf(B, key, data))
  <2>1. EntriesOf(B, key, data) \in Seq(Entry)
    BY <1>0, <1>2, EntriesAt
  <2>2. e \in Entry /\ e.data = d
    BY DEF Entry
  <2> HIDE DEF e
  <2>3. TotalSize(InFront(e, EntriesOf(B, key, data))) = SizeOf[d] + TotalSize(EntriesOf(B, key, data))
    BY <2>1, <2>2, SizeOfCons DEF InFront
  <2> QED BY <1>7, <2>3
<1>9. Represents(M)'
  BY <1>3, <1>8 DEF Represents, M
<1> QED BY <1>7, <1>9 DEF M

\* The list without a node that it holds, and its entries.
LEMMA TakenOut ==
  ASSUME FieldType, NEW L, Represents(L), NEW m \in 1..Len(L)
  PROVE  LET n == L[m]
             B == RemoveAt(L, m)
             s == EntriesOf(L, key, data)
         IN  /\ n \in Nodes /\ n \in Members(L) /\ B \in Seq(Nodes) /\ Members(B) = Members(L) \ {n}
             /\ IsList(B, RemoveNode(Pointers, n)) /\ RemoveNode(Pointers, n) \in PairType
             /\ EntriesOf(B, key, data) = RemoveAt(s, m)
             /\ TotalSize(RemoveAt(s, m)) = totalSize - size[n]
             /\ size[n] = SizeOf[data[n]] /\ size[n] \in Int /\ size[n] > 0 /\ totalSize \in Int
PROOF
<1> DEFINE n == L[m]
           B == RemoveAt(L, m)
           s == EntriesOf(L, key, data)
<1>1. /\ L \in Seq(Nodes) /\ NoNodeTwice(L) /\ Len(L) \in Nat /\ IsList(L, Pointers)
      /\ \A x \in Members(L) : key[x] \in Keys /\ data[x] \in Data
      /\ s \in Seq(Entry) /\ Len(s) = Len(L) /\ s[m].data = data[n]
  BY EntriesFacts DEF Represents
<1>2. n \in Members(L) /\ n \in Nodes
  BY <1>1 DEF Members
<1>3. B \in Seq(Nodes) /\ Members(B) = Members(L) \ {n}
  BY <1>1, RemoveAtFacts, MembersOfRemoveAt
<1>4. IsList(B, RemoveNode(Pointers, n)) /\ RemoveNode(Pointers, n) \in PairType
  BY <1>1, RemoveNodeFacts DEF FieldType
<1>5. EntriesOf(B, key, data) = RemoveAt(s, m)
  BY <1>1, EntriesOfRemoveAt
<1>6. size[n] = SizeOf[data[n]] /\ data[n] \in Data /\ Storable(data[n])
  BY <1>2 DEF Represents, Consistent
<1>7. size[n] \in Int /\ size[n] > 0
  BY <1>6, StorableIsInt DEF Storable
<1>8. TotalSize(RemoveAt(s, m)) = TotalSize(s) - SizeOf[s[m].data]
  <2> HIDE DEF s
  <2> QED BY <1>1, SizeOfRemoveAt
<1>9. totalSize = TotalSize(s) /\ totalSize \in Int
  <2>1. totalSize = TotalSize(s)
    BY DEF Represents
  <2> HIDE DEF s
  <2> QED BY <1>1, <2>1, TotalIsInt
<1> QED BY <1>1, <1>2, <1>3, <1>4, <1>5, <1>6, <1>7, <1>8, <1>9
\* The same in terms of the operators of LRUOrder.
LEMMA TakenOutIsWithout ==
  ASSUME FieldType, NEW L, Represents(L), NEW k \in Keys, cache[k] # Null,
         NEW m, m = PositionOf(EntriesOf(L, key, data), k)
  PROVE  LET s == EntriesOf(L, key, data)
         IN  /\ m \in 1..Len(L) /\ cache[k] = L[m] /\ key[L[m]] = k
             /\ RemoveAt(s, m) = Without(s, k)
             /\ Touched(s, k) = InFront([key |-> k, data |-> data[L[m]]], RemoveAt(s, m))
PROOF
<1> DEFINE s == EntriesOf(L, key, data)
<1>1. /\ Holds(s, k) /\ m \in 1..Len(L) /\ cache[k] = L[m]
      /\ s[m] = [key |-> k, data |-> data[L[m]]]
  BY KeyInMap
<1>2. key[L[m]] = k
  BY <1>1 DEF Represents, Consistent
<1>3. RemoveAt(s, m) = Without(s, k)
  BY <1>1 DEF Without
<1>4. Touched(s, k) = InFront(s[m], RemoveAt(s, m))
  BY <1>1, <1>3 DEF Touched, InFront
<1> QED BY <1>1, <1>2, <1>3, <1>4

LEMMA RemovedIsWithout ==
  ASSUME FieldType, NEW L, Represents(L), NEW k \in Keys, cache[k] # Null,
         NEW s, s = EntriesOf(L, key, data), NEW m, m = PositionOf(s, k)
  PROVE  RemoveAt(s, m) = Without(s, k)
PROOF
<1>1. Holds(s, k)
  BY KeyInMap
<1> QED BY <1>1 DEF Without

\* set, for a key that the map has: its node moves to the front.
LEMMA SetExistingFacts ==
  ASSUME IInv, NEW k \in Keys, NEW d \in Data, SetExisting(k, d)
  PROVE  IInv' /\ Entries' = Written(Entries, k, d)
PROOF
<1>0. Storable(d) /\ cache[k] # Null /\ FieldType
  BY DEF SetExisting, IInv
<1> USE DEF SetExisting, Resized, GrownBy
<1>1. PICK L : Represents(L)
  BY DEF IInv
<1> DEFINE s == EntriesOf(L, key, data)
<1>2. PICK m : m = PositionOf(s, k)
  OBVIOUS
<1>3. PICK n : n = L[m]
  OBVIOUS
<1>4. /\ m \in 1..Len(L) /\ cache[k] = n /\ key[n] = k
      /\ RemoveAt(s, m) = Without(s, k)
  <2> HIDE DEF SetExisting, Resized, GrownBy
  <2>1. m \in 1..Len(L) /\ cache[k] = L[m]
    BY <1>0, <1>1, <1>2, KeyInMap
  <2>2. RemoveAt(s, m) = Without(s, k)
    <3>1. Holds(s, k)
      BY <1>0, <1>1, KeyInMap
    <3> QED BY <1>2, <3>1 DEF Without
  <2>3. key[cache[k]] = k
    BY <1>0, <1>1 DEF Represents, Consistent
  <2> QED BY <1>3, <2>1, <2>2, <2>3
<1> DEFINE B == RemoveAt(L, m)
<1>5. /\ n \in Nodes /\ n \in Members(L) /\ B \in Seq(Nodes) /\ Members(B) = Members(L) \ {n}
      /\ EntriesOf(B, key, data) = RemoveAt(s, m)
      /\ TotalSize(RemoveAt(s, m)) = totalSize - size[n]
      /\ size[n] \in Int /\ totalSize \in Int
  BY <1>1, <1>3, <1>4, TakenOut DEF IInv
<1>6. IsList(InFront(n, B), MoveToHead(Pointers, n)) /\ MoveToHead(Pointers, n) \in PairType
  BY <1>1, <1>3, <1>4, MoveToHeadFacts DEF IInv, FieldType, Represents
<1>7. Pointers' = MoveToHead(Pointers, n)
  BY <1>4, <1>6, SetPointersFacts
<1>8. SizeOf[d] \in Int /\ SizeOf[d] \in Nat
  BY StorableIsInt DEF Storable
<1>9. FieldType'
  BY <1>4, <1>5, <1>6, <1>7, <1>8 DEF IInv, FieldType
<1> HIDE DEF B
<1>10. IsList(InFront(n, B), Pointers)'
  BY <1>6, <1>7
<1>11. /\ \A j \in Keys : cache'[j] = IF j = k THEN n ELSE cache[j]
       /\ \A x \in Nodes : /\ key'[x] = IF x = n THEN k ELSE key[x]
                           /\ data'[x] = IF x = n THEN d ELSE data[x]
                           /\ size'[x] = IF x = n THEN SizeOf[d] ELSE size[x]
  BY <1>4, <1>5 DEF IInv, FieldType
<1>12. totalSize' = SizeOf[d] + TotalSize(EntriesOf(B, key, data))
  BY <1>4, <1>5, <1>8
<1>13. /\ Represents(InFront(n, B))'
       /\ EntriesOf(InFront(n, B), key', data') = InFront([key |-> k, data |-> d], EntriesOf(B, key, data))
  <2> HIDE DEF SetExisting
  <2> QED BY <1>0, <1>1, <1>4, <1>5, <1>10, <1>11, <1>12, PutInFront
<1>14. Entries = s
  BY <1>1, ListedIs DEF IInv
<1>15. Entries' = EntriesOf(InFront(n, B), key', data')
  BY <1>9, <1>13, ListedNextIs
<1>16. Entries' = Written(Entries, k, d)
  BY <1>4, <1>5, <1>13, <1>14, <1>15 DEF Written, InFront
<1>17. LoopInv'
  BY DEF LoopInv
<1> QED BY <1>9, <1>13, <1>16, <1>17 DEF IInv

\* set, for a key that the map does not have: a new node at the front.
LEMMA SetNewFacts ==
  ASSUME IInv, NEW k \in Keys, NEW d \in Data, SetNew(k, d)
  PROVE  IInv' /\ Entries' = Written(Entries, k, d)
PROOF
<1>0. Storable(d) /\ cache[k] = Null
  BY DEF SetNew
<1> USE DEF SetNew
<1>1. PICK L : Represents(L)
  BY DEF IInv
<1> DEFINE s == EntriesOf(L, key, data)
<1>2. /\ L \in Seq(Nodes) /\ s \in Seq(Entry) /\ ~Holds(s, k) /\ totalSize = TotalSize(s)
      /\ IsList(L, Pointers)
  BY <1>1, EntriesFacts, KeyNotInMap DEF Represents
<1>3. PICK n \in Nodes \ Members(L) :
        /\ key' = [key EXCEPT ![n] = k]
        /\ data' = [data EXCEPT ![n] = d]
        /\ size' = [size EXCEPT ![n] = SizeOf[d]]
        /\ cache' = [cache EXCEPT ![k] = n]
        /\ SetPointers(AddToHead(Pointers, n))
  BY <1>1, LinkedIsMembers
<1>4. AddToHead(Pointers, n) \in PairType /\ IsList(InFront(n, L), AddToHead(Pointers, n))
  <2>1. \A i \in 1..Len(L) : L[i] # n
    BY <1>3 DEF Members
  <2> QED BY <1>2, <1>3, <2>1, AddToHeadFacts DEF IInv, FieldType
<1>5. Pointers' = AddToHead(Pointers, n)
  BY <1>3, <1>4, SetPointersFacts
<1>6. SizeOf[d] \in Int /\ SizeOf[d] \in Nat
  BY StorableIsInt DEF Storable
<1>7. FieldType'
  BY <1>3, <1>4, <1>5, <1>6 DEF IInv, FieldType
<1>8. IsList(InFront(n, L), Pointers)'
  BY <1>4, <1>5
<1>9. /\ \A j \in Keys : cache'[j] = IF j = k THEN n ELSE cache[j]
      /\ \A x \in Nodes : /\ key'[x] = IF x = n THEN k ELSE key[x]
                          /\ data'[x] = IF x = n THEN d ELSE data[x]
                          /\ size'[x] = IF x = n THEN SizeOf[d] ELSE size[x]
  BY <1>3 DEF IInv, FieldType
<1>10. totalSize' = SizeOf[d] + TotalSize(EntriesOf(L, key, data))
  <2>1. TotalSize(s) \in Int
    BY <1>2, TotalIsInt
  <2> QED BY <1>2, <1>6, <2>1
<1>11. /\ Represents(InFront(n, L))'
       /\ EntriesOf(InFront(n, L), key', data') = InFront([key |-> k, data |-> d], s)
  <2>1. Members(L) = Members(L) \ {n} /\ n \in Nodes /\ n \notin Members(L)
    BY <1>3
  <2> HIDE DEF SetNew
  <2> QED BY <1>0, <1>1, <1>2, <1>8, <1>9, <1>10, <2>1, PutInFront
<1>12. Entries = s
  BY <1>1, ListedIs DEF IInv
<1>13. Entries' = EntriesOf(InFront(n, L), key', data')
  BY <1>7, <1>11, ListedNextIs
<1>14. Entries' = Written(Entries, k, d)
  BY <1>2, <1>11, <1>12, <1>13 DEF Written, Without, InFront
<1>15. LoopInv'
  BY DEF LoopInv
<1> QED BY <1>7, <1>11, <1>14, <1>15 DEF IInv

\* get: the node moves to the front.
LEMMA GetFacts ==
  ASSUME IInv, NEW k \in Keys, Get(k)
  PROVE  IInv' /\ Entries' = Touched(Entries, k)
PROOF
<1> USE DEF Get, fields
<1>1. PICK L : Represents(L)
  BY DEF IInv
<1> DEFINE s == EntriesOf(L, key, data)
<1>2. PICK m : m = PositionOf(s, k)
  OBVIOUS
<1>3. PICK n : n = L[m]
  OBVIOUS
<1>4. PICK d : d = data[n]
  OBVIOUS
<1>5. /\ m \in 1..Len(L) /\ cache[k] = n /\ key[n] = k
      /\ Touched(s, k) = InFront([key |-> k, data |-> d], RemoveAt(s, m))
  BY <1>1, <1>2, <1>3, <1>4, TakenOutIsWithout DEF IInv
<1> DEFINE B == RemoveAt(L, m)
<1>6. /\ n \in Nodes /\ n \in Members(L) /\ B \in Seq(Nodes) /\ Members(B) = Members(L) \ {n}
      /\ EntriesOf(B, key, data) = RemoveAt(s, m)
      /\ TotalSize(RemoveAt(s, m)) = totalSize - size[n]
      /\ size[n] = SizeOf[d] /\ size[n] \in Int /\ totalSize \in Int
  BY <1>1, <1>3, <1>4, <1>5, TakenOut DEF IInv
<1>7. d \in Data /\ Storable(d)
  BY <1>1, <1>4, <1>6 DEF Represents, Consistent
<1>8. IsList(InFront(n, B), MoveToHead(Pointers, n)) /\ MoveToHead(Pointers, n) \in PairType
  BY <1>1, <1>3, <1>5, MoveToHeadFacts DEF IInv, FieldType, Represents
<1>9. Pointers' = MoveToHead(Pointers, n)
  BY <1>5, <1>8, SetPointersFacts
<1>10. FieldType'
  BY <1>8, <1>9 DEF IInv, FieldType
<1> HIDE DEF B
<1>11. IsList(InFront(n, B), Pointers)'
  BY <1>8, <1>9
<1>12. /\ \A j \in Keys : cache'[j] = IF j = k THEN n ELSE cache[j]
       /\ \A x \in Nodes : /\ key'[x] = IF x = n THEN k ELSE key[x]
                           /\ data'[x] = IF x = n THEN d ELSE data[x]
                           /\ size'[x] = IF x = n THEN SizeOf[d] ELSE size[x]
  BY <1>4, <1>5, <1>6
<1>13. totalSize' = SizeOf[d] + TotalSize(EntriesOf(B, key, data))
  BY <1>6
<1>14. /\ Represents(InFront(n, B))'
       /\ EntriesOf(InFront(n, B), key', data') = InFront([key |-> k, data |-> d], EntriesOf(B, key, data))
  BY <1>1, <1>5, <1>6, <1>7, <1>11, <1>12, <1>13, PutInFront
<1>15. Entries = s
  BY <1>1, ListedIs DEF IInv
<1>16. Entries' = EntriesOf(InFront(n, B), key', data')
  BY <1>10, <1>14, ListedNextIs
<1>17. Entries' = Touched(Entries, k)
  BY <1>5, <1>6, <1>14, <1>15, <1>16
<1>18. LoopInv'
  BY DEF IInv, LoopInv
<1> QED BY <1>10, <1>14, <1>17, <1>18 DEF IInv
\* A node is taken out of the map and of the list.
LEMMA DropFacts ==
  ASSUME FieldType, NEW L, Represents(L), NEW m \in 1..Len(L), NEW n, n = L[m], DropNode(n)
  PROVE  /\ FieldType' /\ Represents(RemoveAt(L, m))'
         /\ Entries' = RemoveAt(EntriesOf(L, key, data), m)
         /\ totalSize' < totalSize
PROOF
<1> DEFINE B == RemoveAt(L, m)
           s == EntriesOf(L, key, data)
           p == Free(RemoveNode(Pointers, n), n)
<1>1. /\ n \in Nodes /\ n \in Members(L) /\ B \in Seq(Nodes) /\ Members(B) = Members(L) \ {n}
      /\ IsList(B, RemoveNode(Pointers, n)) /\ RemoveNode(Pointers, n) \in PairType
      /\ EntriesOf(B, key, data) = RemoveAt(s, m)
      /\ TotalSize(RemoveAt(s, m)) = totalSize - size[n]
      /\ size[n] \in Int /\ size[n] > 0 /\ totalSize \in Int
  BY TakenOut
<1>2. /\ \A x \in Members(L) : /\ key[x] \in Keys /\ cache[key[x]] = x
                               /\ data[x] \in Data /\ size[x] = SizeOf[data[x]] /\ Storable(data[x])
      /\ \A j \in Keys : cache[j] # Null => cache[j] \in Members(L) /\ key[cache[j]] = j
  BY DEF Represents, Consistent
<1>3. \A x \in Members(L) : x \in Nodes /\ x # Null
  BY EntriesFacts, NodeFacts DEF Members
<1> HIDE DEF B, s, p
<1>4. p \in PairType /\ IsList(B, p)
  <2>1. \A i \in 1..Len(B) : B[i] # n
    BY <1>1 DEF Members
  <2> QED BY <1>1, <2>1, FreeFacts DEF p
<1>5. /\ cache' = [cache EXCEPT ![key[n]] = Null]
      /\ totalSize' = totalSize - size[n]
      /\ key' = [key EXCEPT ![n] = Null] /\ data' = [data EXCEPT ![n] = Null]
      /\ size' = [size EXCEPT ![n] = 0]
      /\ Pointers' = p
  BY <1>4, SetPointersFacts DEF DropNode, p
<1>6. FieldType'
  BY <1>1, <1>4, <1>5 DEF FieldType
<1>7. IsList(B, Pointers)'
  BY <1>4, <1>5
<1>8. /\ \A j \in Keys : cache'[j] = IF j = key[n] THEN Null ELSE cache[j]
      /\ \A x \in Nodes : x # n => key'[x] = key[x] /\ data'[x] = data[x] /\ size'[x] = size[x]
  BY <1>5 DEF FieldType
<1>9. \A x \in Members(B) : x \in Members(L) /\ x # n /\ key[x] # key[n]
  BY <1>1, <1>2
<1>10. Consistent(Members(B))'
  <2>1. ASSUME NEW x \in Members(B)
        PROVE  /\ key'[x] \in Keys /\ cache'[key'[x]] = x
               /\ data'[x] \in Data /\ size'[x] = SizeOf[data'[x]] /\ Storable(data'[x])
    BY <1>2, <1>3, <1>8, <1>9
  <2>2. ASSUME NEW j \in Keys, cache'[j] # Null
        PROVE  cache'[j] \in Members(B) /\ key'[cache'[j]] = j
    <3>1. j # key[n] /\ cache'[j] = cache[j] /\ cache[j] \in Members(L) /\ key[cache[j]] = j
      BY <1>2, <1>8, <2>2
    <3> QED BY <1>1, <1>3, <1>8, <3>1
  <2> QED BY <2>1, <2>2 DEF Consistent
<1>11. EntriesOf(B, key', data') = RemoveAt(s, m)
  <2>1. \A x \in Members(B) : key'[x] = key[x] /\ data'[x] = data[x]
    BY <1>3, <1>8, <1>9
  <2>2. EntriesOf(B, key', data') = EntriesOf(B, key, data)
    BY <1>1, <2>1, SameFieldsSameEntries
  <2> QED BY <1>1, <2>2
<1>12. Represents(B)'
  BY <1>1, <1>5, <1>7, <1>10, <1>11 DEF Represents
<1>13. Entries' = RemoveAt(s, m)
  BY <1>6, <1>11, <1>12, ListedNextIs
<1>14. totalSize' < totalSize
  BY <1>1, <1>5
<1> QED BY <1>6, <1>12, <1>13, <1>14 DEF B, s

LEMMA RemoveKeyFacts ==
  ASSUME IInv, NEW k \in Keys, RemoveKey(k)
  PROVE  IInv' /\ Entries' = Without(Entries, k)
PROOF
<1>1. PICK L : Represents(L)
  BY DEF IInv
<1> DEFINE s == EntriesOf(L, key, data)
<1>2. PICK m : m = PositionOf(s, k)
  OBVIOUS
<1>3. PICK n : n = L[m]
  OBVIOUS
<1>4. /\ FieldType /\ LoopInv /\ cache[k] # Null /\ ~evicting
      /\ DropNode(cache[k]) /\ evicting' = evicting /\ evicted' = evicted
  BY DEF IInv, RemoveKey
<1>5. m \in 1..Len(L) /\ cache[k] = L[m]
  BY <1>1, <1>2, <1>4, KeyInMap
<1>6. RemoveAt(s, m) = Without(s, k)
  BY <1>1, <1>2, <1>4, RemovedIsWithout
<1>7. /\ FieldType' /\ Represents(RemoveAt(L, m))'
      /\ Entries' = RemoveAt(s, m) /\ totalSize' < totalSize
  BY <1>1, <1>3, <1>4, <1>5, DropFacts
<1>8. Entries = s
  BY <1>1, <1>4, ListedIs
<1>9. LoopInv'
  <2>1. totalSize \in Int /\ totalSize' \in Int
    <3>1. EntriesOf(L, key, data) \in Seq(Entry) /\ totalSize = TotalSize(EntriesOf(L, key, data))
      BY <1>1, EntriesFacts DEF Represents
    <3>2. totalSize \in Int
      BY <3>1, TotalIsInt
    <3>3. size[cache[k]] \in Int
      BY <1>1, <1>4, <1>5, TakenOut
    <3> QED BY <1>4, <3>2, <3>3 DEF DropNode
  <2> QED BY <1>4, <1>7, <2>1, MaxSizeIsNat DEF LoopInv
<1> QED BY <1>6, <1>7, <1>8, <1>9 DEF IInv

\* A turn of the eviction loop drops the last entry.
LEMMA EvictOneFacts ==
  ASSUME IInv, EvictOne
  PROVE  /\ IInv' /\ evicting /\ evicting'
         /\ Entries \in Seq(Entry) /\ AllStorable(Entries)
         /\ TotalSize(Entries) > MaxSize /\ Len(Entries) # 0
         /\ Entries' = RemoveAt(Entries, Len(Entries))
         /\ evicted' = Append(evicted, Entries[Len(Entries)].key)
PROOF
<1>1. PICK L : Represents(L)
  BY DEF IInv
<1> DEFINE s == EntriesOf(L, key, data)
<1>2. PICK m : m = Len(L)
  OBVIOUS
<1>3. PICK n : n = L[m]
  OBVIOUS
<1>4. /\ FieldType /\ LoopInv /\ evicting /\ evicting' = evicting
      /\ totalSize > MaxSize /\ InMap # {} /\ DropNode(prev[TailNode])
      /\ evicted' = Append(evicted, key[prev[TailNode]])
  BY DEF IInv, EvictOne, OverCapacity
<1>5. /\ L \in Seq(Nodes) /\ NoNodeTwice(L) /\ Len(L) \in Nat
      /\ s \in Seq(Entry) /\ Len(s) = Len(L) /\ AllStorable(s)
      /\ \A i \in 1..Len(L) : s[i].key = key[L[i]]
      /\ \A x \in Members(L) : key[x] \in Keys
  BY <1>1, EntriesFacts
<1>6. m \in 1..Len(L) /\ m # 0
  <2>1. \E k \in Keys : cache[k] \in Members(L)
    BY <1>1, <1>4 DEF InMap, Represents, Consistent
  <2> QED BY <1>2, <1>5, <2>1 DEF Members
<1>7. prev[TailNode] = n
  <2>1. Chained(L, Pointers) /\ m \in 0..Len(L)
    BY <1>1, <1>5, <1>6 DEF Represents, IsList
  <2>2. Cell(L, m) = n /\ Cell(L, m + 1) = TailNode
    BY <1>2, <1>3, <1>5, <1>6, CellFacts
  <2> QED BY <2>1, <2>2 DEF Chained, Pointers
<1>8. /\ FieldType' /\ Represents(RemoveAt(L, m))' /\ Entries' = RemoveAt(s, m)
  BY <1>1, <1>3, <1>4, <1>6, <1>7, DropFacts
<1>9. Entries = s
  BY <1>1, <1>4, ListedIs
<1>10. evicted' = Append(evicted, s[m].key) /\ key[n] \in Keys
  BY <1>3, <1>4, <1>5, <1>6, <1>7 DEF Members
<1>11. LoopInv'
  BY <1>3, <1>4, <1>5, <1>6, <1>10 DEF LoopInv
<1>12. TotalSize(s) = totalSize
  BY <1>1 DEF Represents
<1>13. IInv'
  BY <1>8, <1>11 DEF IInv
<1> HIDE DEF s
<1> QED BY <1>2, <1>4, <1>5, <1>6, <1>8, <1>9, <1>10, <1>12, <1>13

\* The loop ends when what is left fits.
LEMMA SetReturnsFacts ==
  ASSUME IInv, SetReturns
  PROVE  /\ IInv' /\ evicting /\ ~evicting' /\ Entries' = Entries /\ evicted' = evicted
         /\ Entries \in Seq(Entry) /\ AllStorable(Entries) /\ TotalSize(Entries) <= MaxSize
PROOF
<1>1. PICK L : Represents(L)
  BY DEF IInv
<1> DEFINE s == EntriesOf(L, key, data)
<1>2. /\ FieldType /\ evicting /\ evicting' = FALSE /\ ~OverCapacity /\ evicted \in Seq(Keys)
      /\ UNCHANGED <<cache, key, data, size, prev, next, totalSize, evicted>>
  BY DEF IInv, LoopInv, SetReturns, contents, fields
<1>3. s \in Seq(Entry) /\ AllStorable(s) /\ Len(s) = Len(L) /\ Len(L) \in Nat
  BY <1>1, EntriesFacts
<1>4. Entries = s /\ totalSize = TotalSize(s)
  BY <1>1, <1>2, ListedIs DEF Represents
<1>5. FieldType'
  BY <1>2 DEF FieldType, Pointers
<1>6. Represents(L)'
  BY <1>1, <1>2 DEF Represents, Consistent, Pointers
<1>7. Entries' = s
  BY <1>2, <1>5, <1>6, ListedNextIs
<1> HIDE DEF s
<1>8. TotalSize(s) <= MaxSize
  <2>1. CASE InMap # {}
    <3>1. TotalSize(s) \in Int
      BY <1>3, TotalIsInt
    <3> QED BY <1>2, <1>4, <2>1, <3>1, MaxSizeIsNat DEF OverCapacity
  <2>2. CASE InMap = {}
    <3>1. Members(L) = {}
      BY <1>1, <2>2, LinkedIsMembers DEF Linked
    <3>2. Len(s) = 0
      <4>1. Len(L) # 0 => L[1] \in Members(L)
        <5>1. Len(L) # 0 => 1 \in 1..Len(L)
          BY <1>3
        <5> QED BY <5>1 DEF Members
      <4> QED BY <1>3, <3>1, <4>1
    <3>3. TotalSize(s) = 0
      BY <1>3, <3>2, SizeUpToDef DEF TotalSize
    <3> QED BY <3>3, MaxSizeIsNat
  <2> QED BY <2>1, <2>2
<1>9. LoopInv'
  BY <1>2, <1>4, <1>8 DEF LoopInv
<1> QED BY <1>2, <1>3, <1>4, <1>5, <1>6, <1>7, <1>8, <1>9 DEF IInv
LEMMA StutterInv ==
  ASSUME IInv, UNCHANGED vars
  PROVE  IInv' /\ Entries' = Entries
PROOF
<1> USE DEF vars, contents, fields
<1>1. PICK L : Represents(L)
  BY DEF IInv
<1>2. FieldType' /\ LoopInv'
  BY DEF IInv, FieldType, LoopInv, Pointers
<1>3. Represents(L)'
  BY <1>1 DEF Represents, Consistent, Pointers
<1>4. Entries = EntriesOf(L, key, data) /\ Entries' = EntriesOf(L, key', data')
  BY <1>1, <1>2, <1>3, ListedIs, ListedNextIs DEF IInv
<1> QED BY <1>2, <1>3, <1>4 DEF IInv

LEMMA NextInv == IInv /\ [Next]_vars => IInv'
PROOF
<1> SUFFICES ASSUME IInv, [Next]_vars PROVE IInv'
  OBVIOUS
<1>1. CASE UNCHANGED vars
  BY <1>1, StutterInv
<1>2. ASSUME NEW k \in Keys, Get(k) \/ RemoveKey(k) PROVE IInv'
  BY <1>2, GetFacts, RemoveKeyFacts
<1>3. ASSUME NEW k \in Keys, NEW d \in Data, SetExisting(k, d) \/ SetNew(k, d) PROVE IInv'
  BY <1>3, SetExistingFacts, SetNewFacts
<1>4. CASE EvictOne
  BY <1>4, EvictOneFacts
<1>5. CASE SetReturns
  BY <1>5, SetReturnsFacts
<1> QED BY <1>1, <1>2, <1>3, <1>4, <1>5 DEF Next

LEMMA Invariance == Spec => []IInv
PROOF
<1>1. IInv /\ [Next]_vars => IInv'
  BY NextInv
<1> QED BY InitInv, <1>1, PTL DEF Spec
-----------------------------------------------------------------------------
(* Safety.                                                                 *)

\* lru-cache.ts: the fields have their types, the total is a natural number,
\* and between calls the cache is within its capacity.
THEOREM Types == Spec => []TypeOK
PROOF
<1>1. IInv => TypeOK
  <2> SUFFICES ASSUME IInv PROVE TypeOK
    OBVIOUS
  <2>1. PICK L : Represents(L)
    BY DEF IInv
  <2> DEFINE s == EntriesOf(L, key, data)
  <2>2. s \in Seq(Entry) /\ AllStorable(s) /\ totalSize = TotalSize(s)
    BY <2>1, EntriesFacts DEF Represents
  <2> HIDE DEF s
  <2>3. totalSize \in Nat
    <3>1. Len(s) \in Nat /\ SizeUpTo(s, 0) = 0 /\ TotalSize(s) \in Int
      BY <2>2, SizeUpToDef, TotalIsInt
    <3>2. CASE Len(s) = 0
      BY <2>2, <3>1, <3>2 DEF TotalSize
    <3>3. CASE Len(s) # 0
      <4>1. 0 \in 0..Len(s) /\ Len(s) \in 0..Len(s) /\ 0 < Len(s)
        BY <3>1, <3>3
      <4>2. SizeUpTo(s, 0) < SizeUpTo(s, Len(s))
        BY <2>2, <4>1, SizeGrows
      <4> QED BY <2>2, <3>1, <4>2 DEF TotalSize
    <3> QED BY <3>2, <3>3
  <2>4. /\ prev \in [Cells -> Cells \cup {Null}] /\ next \in [Cells -> Cells \cup {Null}]
    BY DEF IInv, FieldType, Pointers, PairType
  <2> QED BY <2>3, <2>4 DEF IInv, FieldType, LoopInv, TypeOK
<1> QED BY <1>1, Invariance, PTL

\* lru-cache.ts, addToHead, removeNode, moveToHead: next and prev are each
\* other's inverse on the nodes of the map and the sentinels and lead nowhere
\* else, through every step of the eviction loop.
THEOREM Linking == Spec => []ListShape
PROOF
<1>1. IInv => ListShape
  <2> SUFFICES ASSUME IInv PROVE ListShape
    OBVIOUS
  <2>1. PICK L : Represents(L)
    BY DEF IInv
  <2>2. L \in Seq(Nodes) /\ NoNodeTwice(L) /\ Chained(L, Pointers) /\ Linked = Members(L)
    BY <2>1, LinkedIsMembers DEF Represents, IsList
  <2>3. \A i \in 0..Len(L) : next[Cell(L, i)] = Cell(L, i + 1) /\ prev[Cell(L, i + 1)] = Cell(L, i)
    BY <2>2 DEF Chained, Pointers
  <2>4. Len(L) \in Nat /\ Cell(L, 0) = HeadNode /\ Cell(L, Len(L) + 1) = TailNode
    BY <2>2, CellFacts
  <2>5. \A i \in 1..Len(L) : Cell(L, i) = L[i] /\ L[i] \in Linked
    BY <2>2, CellFacts DEF Members
  <2>6. /\ \A i \in 0..Len(L) : Cell(L, i) \in Linked \cup {HeadNode}
        /\ \A i \in 0..Len(L) : Cell(L, i + 1) \in Linked \cup {TailNode}
    <3>1. \A i \in 0..Len(L) : /\ i = 0 \/ i \in 1..Len(L)
                               /\ i + 1 = Len(L) + 1 \/ i + 1 \in 1..Len(L)
      BY <2>4
    <3>2. ASSUME NEW i \in 0..Len(L)
          PROVE  Cell(L, i) \in Linked \cup {HeadNode} /\ Cell(L, i + 1) \in Linked \cup {TailNode}
      BY <2>4, <2>5, <3>1
    <3> QED BY <3>2
  <2>7. ASSUME NEW c \in Linked \cup {HeadNode} PROVE \E i \in 0..Len(L) : c = Cell(L, i)
    <3>1. 0 \in 0..Len(L) /\ \A i \in 1..Len(L) : i \in 0..Len(L)
      BY <2>4
    <3>2. CASE c = HeadNode
      BY <2>4, <3>1, <3>2
    <3>3. CASE c # HeadNode
      <4>1. PICK i \in 1..Len(L) : c = L[i]
        BY <2>2, <2>7, <3>3 DEF Members
      <4> QED BY <2>5, <3>1, <4>1
    <3> QED BY <3>2, <3>3
  <2>8. ASSUME NEW c \in Linked \cup {TailNode} PROVE \E i \in 0..Len(L) : c = Cell(L, i + 1)
    <3>1. CASE c = TailNode
      <4>1. Len(L) \in 0..Len(L)
        BY <2>4
      <4> QED BY <2>4, <3>1, <4>1
    <3>2. CASE c # TailNode
      <4>1. PICK i \in 1..Len(L) : c = L[i]
        BY <2>2, <2>8, <3>2 DEF Members
      <4>2. i - 1 \in 0..Len(L) /\ (i - 1) + 1 = i
        BY <2>4
      <4>3. c = Cell(L, (i - 1) + 1)
        BY <2>5, <4>1, <4>2
      <4> QED BY <4>2, <4>3
    <3> QED BY <3>1, <3>2
  <2>9. ASSUME NEW c \in Linked \cup {HeadNode}
        PROVE  next[c] \in Linked \cup {TailNode} /\ prev[next[c]] = c
    BY <2>3, <2>6, <2>7
  <2>10. ASSUME NEW c \in Linked \cup {TailNode}
         PROVE  prev[c] \in Linked \cup {HeadNode} /\ next[prev[c]] = c
    BY <2>3, <2>6, <2>8
  <2> QED BY <2>9, <2>10 DEF ListShape
<1> QED BY <1>1, Invariance, PTL

\* lru-cache.ts: the map has each node under its own key, with the size of the
\* value it holds.
THEOREM MapAgreement == Spec => []MapAgrees
PROOF
<1>1. IInv => MapAgrees
  <2> SUFFICES ASSUME IInv, NEW k \in InMap
               PROVE  LET n == cache[k]
                      IN  key[n] = k /\ size[n] = SizeOf[data[n]] /\ Storable(data[n])
    BY DEF MapAgrees
  <2>1. PICK L : Represents(L)
    BY DEF IInv
  <2> QED BY <2>1 DEF Represents, Consistent, InMap
<1> QED BY <1>1, Invariance, PTL

\* lru-cache.ts: the total that eviction goes by is what the entries in the
\* list add up to, and the list and the map have the same nodes.
THEOREM SizeAgreement == Spec => []SizeAgrees
PROOF
<1>1. IInv => SizeAgrees
  <2> SUFFICES ASSUME IInv PROVE SizeAgrees
    OBVIOUS
  <2>1. PICK L : Represents(L)
    BY DEF IInv
  <2>2. Listed = L /\ Entries = EntriesOf(L, key, data) /\ totalSize = TotalSize(Entries)
    BY <2>1, ListedIs DEF IInv, Represents
  <2>3. ToSet(L) = Members(L)
    <3>1. DOMAIN L = 1..Len(L)
      BY <2>1, EntriesFacts
    <3> QED BY <3>1 DEF ToSet, Members
  <2>4. Linked = Members(L)
    BY <2>1, LinkedIsMembers
  <2> QED BY <2>2, <2>3, <2>4 DEF SizeAgrees
<1> QED BY <1>1, Invariance, PTL
-----------------------------------------------------------------------------
(* Refinement.                                                             *)

\* The operators of LRUOrder are the same for the policy.
LEMMA PolicyOperators ==
  /\ \A s : Policy!Kept(s) = Kept(s) /\ Policy!Dropped(s) = Dropped(s)
  /\ \A s, k : Policy!Without(s, k) = Without(s, k) /\ Policy!Touched(s, k) = Touched(s, k)
  /\ \A s, k, d : Policy!Written(s, k, d) = Written(s, k, d)
  /\ \A d : Policy!Storable(d) <=> Storable(d)
PROOF
<1> USE DEF Policy!SizeUpTo, SizeUpTo, Policy!Fitting, Fitting, Policy!Holds, Holds,
            Policy!PositionOf, PositionOf, Policy!KeysOf, KeysOf,
            Policy!RemoveAt, RemoveAt, Policy!Reverse, Reverse
<1>1. \A s : Policy!Kept(s) = Kept(s)
  BY DEF Policy!Kept, Kept
<1>2. \A s : Policy!Dropped(s) = Dropped(s)
  BY DEF Policy!Dropped, Dropped
<1>3. \A s, k : Policy!Without(s, k) = Without(s, k)
  BY DEF Policy!Without, Without
<1>4. \A s, k : Policy!Touched(s, k) = Touched(s, k)
  BY DEF Policy!Touched, Touched, Policy!Without, Without
<1>5. \A s, k, d : Policy!Written(s, k, d) = Written(s, k, d)
  BY DEF Policy!Written, Written, Policy!Without, Without
<1>6. \A d : Policy!Storable(d) <=> Storable(d)
  BY DEF Policy!Storable, Storable
<1> QED BY <1>1, <1>2, <1>3, <1>4, <1>5, <1>6

\* What is left for the policy to see while the loop runs and after it.
order == IF evicting THEN Kept(Entries) ELSE Entries
reported == IF evicting THEN evicted \o Dropped(Entries) ELSE evicted

LEMMA SetRefines ==
  ASSUME IInv, NEW k \in Keys, NEW d \in Data, SetExisting(k, d) \/ SetNew(k, d)
  PROVE  Policy!Set(k, d)
PROOF
<1>1. Entries' = Written(Entries, k, d) /\ IInv'
  BY SetExistingFacts, SetNewFacts
<1>2. ~evicting /\ evicting' /\ evicted' = <<>> /\ Storable(d)
  BY DEF SetExisting, SetNew
<1>3. PICK L : Represents(L)
  BY DEF IInv
<1>4. Entries \in Seq(Entry)
  BY <1>3, ListedIs, EntriesFacts DEF IInv
<1>5. Written(Entries, k, d) \in Seq(Entry)
  BY <1>4, WrittenFacts
<1>6. Dropped(Written(Entries, k, d)) \in Seq(Keys)
  BY <1>5, DroppedType
<1>7. order' = Kept(Written(order, k, d))
  BY <1>1, <1>2 DEF order
<1>8. reported' = Dropped(Written(order, k, d))
  <2>1. reported' = <<>> \o Dropped(Written(Entries, k, d))
    BY <1>1, <1>2 DEF reported
  <2> QED BY <1>2, <1>6, <2>1 DEF order
<1> QED BY <1>2, <1>7, <1>8, PolicyOperators DEF Policy!Set, order, reported

LEMMA EvictOneRefines ==
  ASSUME IInv, EvictOne
  PROVE  order' = order /\ reported' = reported
PROOF
<1> DEFINE s == Entries
           t == Entries'
           n == Len(s)
<1>1. /\ evicting /\ evicting' /\ s \in Seq(Entry) /\ AllStorable(s)
      /\ TotalSize(s) > MaxSize /\ n # 0
      /\ t = RemoveAt(s, n) /\ evicted' = Append(evicted, s[n].key)
      /\ evicted \in Seq(Keys)
  BY EvictOneFacts DEF IInv, LoopInv
<1> HIDE DEF s, t
<1>2. n \in Nat /\ n \in 1..n
  BY <1>1
<1>3. Kept(t) = Kept(s) /\ Dropped(s) = <<s[n].key>> \o Dropped(t)
  BY <1>1, KeptFront
<1>4. t \in Seq(Entry) /\ s[n].key \in Keys
  BY <1>1, <1>2, RemoveAtFacts, EntryAt
<1>5. Dropped(t) \in Seq(Keys)
  BY <1>4, DroppedType
<1>6. Append(evicted, s[n].key) \o Dropped(t) = evicted \o (<<s[n].key>> \o Dropped(t))
  <2>1. ASSUME NEW a \in Seq(Keys), NEW x \in Keys, NEW b \in Seq(Keys)
        PROVE  Append(a, x) \o b = a \o (<<x>> \o b)
    OBVIOUS
  <2> QED BY <1>1, <1>4, <1>5, <2>1
<1>7. order' = Kept(t) /\ order = Kept(s)
  BY <1>1 DEF order, s, t
<1>8. reported' = evicted' \o Dropped(t) /\ reported = evicted \o Dropped(s)
  BY <1>1 DEF reported, s, t
<1> QED BY <1>1, <1>3, <1>6, <1>7, <1>8

LEMMA SetReturnsRefines ==
  ASSUME IInv, SetReturns
  PROVE  order' = order /\ reported' = reported
PROOF
<1>1. /\ evicting /\ ~evicting' /\ Entries' = Entries /\ evicted' = evicted
      /\ Entries \in Seq(Entry) /\ AllStorable(Entries) /\ TotalSize(Entries) <= MaxSize
      /\ evicted \in Seq(Keys)
  BY SetReturnsFacts DEF IInv, LoopInv
<1>2. Kept(Entries) = Entries /\ Dropped(Entries) = <<>>
  BY <1>1, KeptWhole
<1>3. evicted \o <<>> = evicted
  BY <1>1
<1> QED BY <1>1, <1>2, <1>3 DEF order, reported

\* lru-cache.ts: with its linked list, its map and its eviction loop, the cache
\* does what LRUPolicy says: a set is the policy's write, each turn of the loop
\* and its end change nothing of what is promised, and get and remove are the
\* policy's.  What stays, in which order, and what is reported as evicted is so
\* for any keys, values, sizes and capacity.
THEOREM Refinement == Spec => ImplementsPolicy
PROOF
<1>1. Init => Policy!Init
  <2> SUFFICES ASSUME Init PROVE Policy!Init
    OBVIOUS
  <2>1. PICK L : Represents(L)
    BY InitInv DEF IInv
  <2>2. Entries \in Seq(Entry) /\ Entries = EntriesOf(L, key, data) /\ Linked = Members(L)
        /\ Len(Entries) = Len(L) /\ L \in Seq(Nodes)
    BY <2>1, InitInv, ListedIs, EntriesFacts, LinkedIsMembers DEF IInv
  <2>3. Members(L) = {}
    BY <2>2 DEF Init, Linked, InMap
  <2>4. Len(L) = 0
    <3>1. Len(L) \in Nat
      BY <2>2
    <3>2. 1 \in 1..Len(L) => L[1] \in Members(L)
      BY DEF Members
    <3> QED BY <2>3, <3>1, <3>2
  <2>5. Entries = <<>>
    BY <2>2, <2>4
  <2> QED BY <2>5 DEF Policy!Init, Init
<1>2. IInv /\ [Next]_vars => [Policy!Next]_<<order, reported>>
  <2> SUFFICES ASSUME IInv, [Next]_vars PROVE [Policy!Next]_<<order, reported>>
    OBVIOUS
  <2>1. CASE UNCHANGED vars
    <3>1. Entries' = Entries /\ evicting' = evicting /\ evicted' = evicted
      BY <2>1, StutterInv DEF vars
    <3> QED BY <3>1 DEF order, reported
  <2>2. ASSUME NEW k \in Keys, Get(k) PROVE Policy!Get(k)
    <3>1. Entries' = Touched(Entries, k) /\ ~evicting /\ evicting' = evicting /\ evicted' = evicted
      BY <2>2, GetFacts DEF Get
    <3> QED BY <3>1, PolicyOperators DEF Policy!Get
  <2>3. ASSUME NEW k \in Keys, RemoveKey(k) PROVE Policy!RemoveKey(k)
    <3>1. Entries' = Without(Entries, k) /\ ~evicting /\ evicting' = evicting /\ evicted' = evicted
      BY <2>3, RemoveKeyFacts DEF RemoveKey
    <3> QED BY <3>1, PolicyOperators DEF Policy!RemoveKey
  <2>4. CASE EvictOne
    BY <2>4, EvictOneRefines
  <2>5. CASE SetReturns
    BY <2>5, SetReturnsRefines
  <2> QED BY <2>1, <2>2, <2>3, <2>4, <2>5, SetRefines DEF Next, Policy!Next
<1>3. [Policy!Next]_<<order, reported>> =>
        [Policy!Next]_<<IF evicting THEN Kept(Entries) ELSE Entries,
                        IF evicting THEN evicted \o Dropped(Entries) ELSE evicted>>
  BY DEF order, reported
<1> QED BY <1>1, <1>2, <1>3, Invariance, PTL DEF Spec, ImplementsPolicy, Policy!Spec
=============================================================================
