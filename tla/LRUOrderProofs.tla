--------------------------- MODULE LRUOrderProofs ---------------------------
(* Lemmas about the operators of LRUOrder, for any keys and values: what   *)
(* removing, writing and touching an entry does to a sequence of entries   *)
(* and to its size, and that the longest prefix that fits exists.          *)
EXTENDS LRUOrder, TLAPS, WellFoundedInduction, SequenceTheorems

Entry == [key : Keys, data : Data]

\* At most one entry per key.
OnePerKey(s) == \A i, j \in 1..Len(s) : s[i].key = s[j].key => i = j

AllStorable(s) == \A i \in 1..Len(s) : Storable(s[i].data)
-----------------------------------------------------------------------------
(* Induction over the naturals, in the form the provers can use: a set of  *)
(* counterexamples that is not empty has a smallest element.               *)
LEMMA SmallestElement ==
  ASSUME NEW T, T \subseteq Nat, T # {}
  PROVE  \E x \in T : \A y \in T : x <= y
PROOF
<1>1. PICK x \in T : \A y \in T : ~(<<y, x>> \in OpToRel(<, Nat))
  BY WFMin, NatLessThanWellFounded
<1>2. \A y \in T : ~(y < x)
  BY <1>1 DEF OpToRel
<1> QED BY <1>2

\* A function that adds up the first numbers of w exists, for any length.
LEMMA SumExists ==
  ASSUME NEW w, NEW N \in Nat
  PROVE  \E f : f = [i \in 0..N |-> IF i = 0 THEN 0 ELSE f[i - 1] + w[i]]
PROOF
<1> DEFINE Sums(f, n) == f = [i \in 0..n |-> IF i = 0 THEN 0 ELSE f[i - 1] + w[i]]
           Bad == {n \in Nat : ~ \E f : Sums(f, n)}
<1> SUFFICES Bad = {}
  OBVIOUS
<1> SUFFICES ASSUME Bad # {} PROVE FALSE
  OBVIOUS
<1>1. PICK n \in Bad : \A m \in Bad : n <= m
  BY SmallestElement
<1>2. n # 0
  <2>1. Sums([i \in 0..0 |-> 0], 0)
    OBVIOUS
  <2> QED BY <2>1, <1>1
<1>3. n - 1 \in Nat /\ n - 1 \notin Bad
  BY <1>1, <1>2
<1>4. PICK f : Sums(f, n - 1)
  BY <1>3
<1> DEFINE g == [i \in 0..n |-> IF i = n THEN f[n - 1] + w[n] ELSE f[i]]
<1>5. Sums(g, n)
  <2>1. \A i \in 0..n : g[i] = IF i = 0 THEN 0 ELSE g[i - 1] + w[i]
    <3> TAKE i \in 0..n
    <3>1. CASE i = n
      BY <3>1, <1>2, <1>3
    <3>2. CASE i # n
      <4>1. i \in 0..(n - 1) /\ g[i] = f[i]
        BY <3>2
      <4>2. f[i] = IF i = 0 THEN 0 ELSE f[i - 1] + w[i]
        BY <4>1, <1>4
      <4>3. i # 0 => g[i - 1] = f[i - 1]
        BY <3>2, <4>1
      <4> QED BY <4>1, <4>2, <4>3
    <3> QED BY <3>1, <3>2
  <2> QED BY <2>1
<1> QED BY <1>5, <1>1
-----------------------------------------------------------------------------
(* Sizes.                                                                  *)
LEMMA StorableIsInt == \A d \in Data : SizeOf[d] \in Int
BY SizeAssumption

\* What an entry of a sequence is made of.
LEMMA EntryAt ==
  ASSUME NEW s \in Seq(Entry)
  PROVE  /\ Len(s) \in Nat
         /\ \A i \in 1..Len(s) :
              /\ s[i] \in Entry /\ s[i].key \in Keys /\ s[i].data \in Data
              /\ SizeOf[s[i].data] \in Int
PROOF
<1>1. \A i \in 1..Len(s) : s[i] \in Entry
  OBVIOUS
<1>2. \A e \in Entry : e.key \in Keys /\ e.data \in Data
  BY DEF Entry
<1> QED BY <1>1, <1>2, StorableIsInt

LEMMA MaxSizeIsNat == MaxSize \in Nat
BY SizeAssumption

\* The definition of SizeUpTo as two equations, and its type.
LEMMA SizeUpToDef ==
  ASSUME NEW s \in Seq(Entry)
  PROVE  /\ SizeUpTo(s, 0) = 0
         /\ \A i \in 1..Len(s) : SizeUpTo(s, i) = SizeUpTo(s, i - 1) + SizeOf[s[i].data]
         /\ \A i \in 0..Len(s) : SizeUpTo(s, i) \in Int
PROOF
<1> DEFINE w == [i \in 1..Len(s) |-> SizeOf[s[i].data]]
           Sums(f) == f = [i \in 0..Len(s) |-> IF i = 0 THEN 0 ELSE f[i - 1] + SizeOf[s[i].data]]
           sum == CHOOSE f : Sums(f)
<1>0. Len(s) \in Nat
  OBVIOUS
<1>w. \A i \in 1..Len(s) : w[i] = SizeOf[s[i].data]
  OBVIOUS
<1> HIDE DEF w
<1>1. PICK f : f = [i \in 0..Len(s) |-> IF i = 0 THEN 0 ELSE f[i - 1] + w[i]]
  BY <1>0, SumExists
<1>2. Sums(f)
  <2>1. \A i \in 0..Len(s) : i = 0 \/ i \in 1..Len(s)
    BY <1>0
  <2>2. [i \in 0..Len(s) |-> IF i = 0 THEN 0 ELSE f[i - 1] + w[i]]
         = [i \in 0..Len(s) |-> IF i = 0 THEN 0 ELSE f[i - 1] + SizeOf[s[i].data]]
    BY <1>w, <2>1, Zenon
  <2> QED BY <1>1, <2>2
<1>3. Sums(sum)
  BY <1>2
<1>4. \A n : SizeUpTo(s, n) = sum[n]
  BY DEF SizeUpTo
<1> HIDE DEF sum
<1>5. SizeUpTo(s, 0) = 0
  <2>1. 0 \in 0..Len(s)
    BY <1>0
  <2> QED BY <1>3, <1>4, <2>1, Zenon
<1>6. \A i \in 1..Len(s) : SizeUpTo(s, i) = SizeUpTo(s, i - 1) + SizeOf[s[i].data]
  <2> TAKE i \in 1..Len(s)
  <2>1. i \in 0..Len(s) /\ i # 0
    BY <1>0
  <2>2. sum[i] = sum[i - 1] + SizeOf[s[i].data]
    BY <1>3, <2>1, Zenon
  <2> QED BY <1>4, <2>2, Zenon
<1>7. \A i \in 0..Len(s) : SizeUpTo(s, i) \in Int
  <2> DEFINE Bad == {i \in 0..Len(s) : SizeUpTo(s, i) \notin Int}
  <2> SUFFICES ASSUME Bad # {} PROVE FALSE
    OBVIOUS
  <2>0a. Bad \subseteq Nat
    BY <1>0
  <2>1. PICK n \in Bad : \A m \in Bad : n <= m
    BY <2>0a, SmallestElement
  <2>2. n # 0
    BY <1>5, <2>1
  <2>3. SizeUpTo(s, n - 1) \in Int
    BY <2>1, <2>2
  <2>4. s[n].data \in Data
    BY <2>1, <2>2, EntryAt
  <2> QED BY <2>1, <2>2, <2>3, <2>4, <1>6, StorableIsInt
<1> QED BY <1>5, <1>6, <1>7

\* The size of the first entries does not depend on the others.
LEMMA SamePrefixSameSize ==
  ASSUME NEW s \in Seq(Entry), NEW t \in Seq(Entry), NEW n \in Nat,
         n <= Len(s), n <= Len(t), \A i \in 1..n : s[i] = t[i]
  PROVE  SizeUpTo(s, n) = SizeUpTo(t, n)
PROOF
<1>0. Len(s) \in Nat
  OBVIOUS
<1> DEFINE Bad == {i \in 0..n : SizeUpTo(s, i) # SizeUpTo(t, i)}
<1> SUFFICES ASSUME Bad # {} PROVE FALSE
  OBVIOUS
<1>0a. Bad \subseteq Nat
  BY <1>0
<1>1. PICK i \in Bad : \A m \in Bad : i <= m
  BY <1>0a, SmallestElement
<1>2. i # 0
  BY <1>1, SizeUpToDef
<1>3. SizeUpTo(s, i - 1) = SizeUpTo(t, i - 1)
  BY <1>1, <1>2
<1>4. i \in 1..Len(s) /\ i \in 1..Len(t) /\ s[i] = t[i]
  BY <1>0, <1>1, <1>2
<1>5. SizeUpTo(s, i) # SizeUpTo(t, i)
  BY <1>1
<1> HIDE DEF Bad
<1>6. SizeUpTo(s, i) = SizeUpTo(s, i - 1) + SizeOf[s[i].data]
  BY <1>4, SizeUpToDef
<1>7. SizeUpTo(t, i) = SizeUpTo(t, i - 1) + SizeOf[t[i].data]
  BY <1>4, SizeUpToDef
<1> QED BY <1>3, <1>4, <1>5, <1>6, <1>7

\* Sizes of storable entries only add up.
LEMMA SizeGrows ==
  ASSUME NEW s \in Seq(Entry), AllStorable(s),
         NEW m \in 0..Len(s), NEW n \in 0..Len(s), m < n
  PROVE  SizeUpTo(s, m) < SizeUpTo(s, n)
PROOF
<1>0. Len(s) \in Nat
  OBVIOUS
<1> DEFINE Bad == {i \in 0..Len(s) : m < i /\ ~(SizeUpTo(s, m) < SizeUpTo(s, i))}
<1> SUFFICES ASSUME Bad # {} PROVE FALSE
  OBVIOUS
<1>0a. Bad \subseteq Nat
  BY <1>0
<1>1. PICK i \in Bad : \A j \in Bad : i <= j
  BY <1>0a, SmallestElement
<1>2. SizeUpTo(s, i) = SizeUpTo(s, i - 1) + SizeOf[s[i].data]
  BY <1>1, SizeUpToDef
<1>3. SizeOf[s[i].data] > 0 /\ SizeOf[s[i].data] \in Int
  BY <1>1, EntryAt DEF AllStorable, Storable
<1>4. /\ SizeUpTo(s, i - 1) \in Int /\ SizeUpTo(s, i) \in Int /\ SizeUpTo(s, m) \in Int
  BY <1>1, SizeUpToDef
<1>5. i - 1 = m \/ SizeUpTo(s, m) < SizeUpTo(s, i - 1)
  BY <1>1
<1> QED BY <1>1, <1>2, <1>3, <1>4, <1>5

\* One entry in front.
LEMMA SizeOfCons ==
  ASSUME NEW s \in Seq(Entry), NEW e \in Entry
  PROVE  TotalSize(<<e>> \o s) = SizeOf[e.data] + TotalSize(s)
PROOF
<1> DEFINE t == <<e>> \o s
<1>0. Len(s) \in Nat
  OBVIOUS
<1>1. /\ t \in Seq(Entry) /\ Len(t) = Len(s) + 1 /\ t[1] = e
      /\ \A i \in 1..Len(s) : t[i + 1] = s[i]
  OBVIOUS
<1> HIDE DEF t
<1> DEFINE Bad == {i \in 0..Len(s) : SizeUpTo(t, i + 1) # SizeOf[e.data] + SizeUpTo(s, i)}
<1>2. Bad = {}
  <2> SUFFICES ASSUME Bad # {} PROVE FALSE
    OBVIOUS
  <2>0a. Bad \subseteq Nat
    BY <1>0
  <2>1. PICK i \in Bad : \A j \in Bad : i <= j
    BY <2>0a, SmallestElement
  <2>2. SizeOf[e.data] \in Int
    BY StorableIsInt DEF Entry
  <2>3. SizeUpTo(t, 1) = SizeUpTo(t, 0) + SizeOf[e.data]
    <3>1. 1 \in 1..Len(t) /\ 1 - 1 = 0 /\ t \in Seq(Entry) /\ t[1] = e
      BY <1>0, <1>1
    <3> HIDE DEF Bad
    <3>2. SizeUpTo(t, 1) = SizeUpTo(t, 1 - 1) + SizeOf[t[1].data]
      BY <3>1, SizeUpToDef
    <3> QED BY <3>1, <3>2
  <2>4. i # 0
    BY <2>1, <2>2, <2>3, <1>1, SizeUpToDef
  <2>5. SizeUpTo(t, i) = SizeOf[e.data] + SizeUpTo(s, i - 1)
    BY <1>0, <2>1, <2>4
  <2>6. SizeUpTo(t, i + 1) = SizeUpTo(t, i) + SizeOf[s[i].data]
    <3>1. i + 1 \in 1..Len(t) /\ t[i + 1] = s[i] /\ (i + 1) - 1 = i
      BY <1>0, <1>1, <2>1, <2>4
    <3> QED BY <1>1, <3>1, SizeUpToDef
  <2>7. SizeUpTo(s, i) = SizeUpTo(s, i - 1) + SizeOf[s[i].data]
    BY <2>1, <2>4, SizeUpToDef
  <2>8. SizeOf[s[i].data] \in Int /\ SizeUpTo(s, i - 1) \in Int
    BY <2>1, <2>4, EntryAt, SizeUpToDef
  <2> QED BY <2>1, <2>2, <2>5, <2>6, <2>7, <2>8
<1>3. SizeUpTo(t, Len(s) + 1) = SizeOf[e.data] + SizeUpTo(s, Len(s))
  BY <1>2
<1> QED BY <1>1, <1>3 DEF TotalSize, t

\* The concatenation of two sequences.
LEMMA ConcatFacts ==
  ASSUME NEW S, NEW a \in Seq(S), NEW b \in Seq(S)
  PROVE  /\ a \o b \in Seq(S)
         /\ Len(a \o b) = Len(a) + Len(b)
         /\ \A j \in 1..(Len(a) + Len(b)) :
              (a \o b)[j] = IF j <= Len(a) THEN a[j] ELSE b[j - Len(a)]
PROOF
<1>1. a \o b \in Seq(S)
  OBVIOUS
<1>2. Len(a \o b) = Len(a) + Len(b)
  OBVIOUS
<1>3. \A j \in 1..(Len(a) + Len(b)) :
        (a \o b)[j] = IF j <= Len(a) THEN a[j] ELSE b[j - Len(a)]
  OBVIOUS
<1> QED BY <1>1, <1>2, <1>3

\* The sequence without its i-th entry.
LEMMA RemoveAtFacts ==
  ASSUME NEW S, NEW s \in Seq(S), NEW i \in 1..Len(s)
  PROVE  /\ RemoveAt(s, i) \in Seq(S)
         /\ Len(RemoveAt(s, i)) = Len(s) - 1
         /\ \A j \in 1..(Len(s) - 1) :
              RemoveAt(s, i)[j] = IF j < i THEN s[j] ELSE s[j + 1]
PROOF
<1>0. Len(s) \in Nat
  OBVIOUS
<1> DEFINE a == SubSeq(s, 1, i - 1)
           b == SubSeq(s, i + 1, Len(s))
<1>1. /\ a \in Seq(S) /\ Len(a) = i - 1
      /\ \A j \in 1..(i - 1) : a[j] = s[j]
  BY <1>0
<1>2. /\ b \in Seq(S) /\ Len(b) = Len(s) - i
      /\ \A j \in 1..(Len(s) - i) : b[j] = s[i + j]
  BY <1>0
<1>3. RemoveAt(s, i) = a \o b
  BY DEF RemoveAt
<1> HIDE DEF a, b
<1>4. /\ a \o b \in Seq(S) /\ Len(a \o b) = Len(s) - 1
      /\ \A j \in 1..(Len(s) - 1) : (a \o b)[j] = IF j < i THEN a[j] ELSE b[j - i + 1]
  <2>0. a \in Seq(S) /\ b \in Seq(S)
    BY <1>1, <1>2
  <2>1. a \o b \in Seq(S) /\ Len(a \o b) = Len(a) + Len(b)
    BY <2>0, ConcatFacts
  <2>2. \A j \in 1..(Len(a) + Len(b)) :
          (a \o b)[j] = IF j <= Len(a) THEN a[j] ELSE b[j - Len(a)]
    BY <2>0, ConcatFacts
  <2>3. \A j \in 1..(Len(s) - 1) :
          j \in 1..(Len(a) + Len(b)) /\ (j < i <=> j <= Len(a)) /\ j - Len(a) = j - i + 1
    BY <1>0, <1>1, <1>2
  <2>4. Len(a) + Len(b) = Len(s) - 1
    BY <1>0, <1>1, <1>2
  <2> QED BY <2>1, <2>2, <2>3, <2>4
<1>5. \A j \in 1..(Len(s) - 1) : (a \o b)[j] = IF j < i THEN s[j] ELSE s[j + 1]
  <2> TAKE j \in 1..(Len(s) - 1)
  <2>1. CASE j < i
    BY <1>0, <1>1, <1>4, <2>1
  <2>2. CASE ~(j < i)
    <3>1. j - i + 1 \in 1..(Len(s) - i) /\ i + (j - i + 1) = j + 1
      BY <1>0, <2>2
    <3> QED BY <1>0, <1>2, <1>4, <2>2, <3>1
  <2> QED BY <2>1, <2>2
<1> QED BY <1>3, <1>4, <1>5

LEMMA SizeOfRemoveAt ==
  ASSUME NEW s \in Seq(Entry), NEW i \in 1..Len(s)
  PROVE  TotalSize(RemoveAt(s, i)) = TotalSize(s) - SizeOf[s[i].data]
PROOF
<1> DEFINE t == RemoveAt(s, i)
<1>0. Len(s) \in Nat
  OBVIOUS
<1>1. /\ t \in Seq(Entry) /\ Len(t) = Len(s) - 1
      /\ \A j \in 1..(Len(s) - 1) : t[j] = IF j < i THEN s[j] ELSE s[j + 1]
  BY RemoveAtFacts
<1> HIDE DEF t
<1>2. SizeOf[s[i].data] \in Int
  BY EntryAt
<1> DEFINE Bad == {j \in (i - 1)..Len(t) :
                     SizeUpTo(t, j) # SizeUpTo(s, j + 1) - SizeOf[s[i].data]}
<1>3. Bad = {}
  <2> SUFFICES ASSUME Bad # {} PROVE FALSE
    OBVIOUS
  <2>0a. Bad \subseteq Nat
    BY <1>0, <1>1
  <2>1. PICK j \in Bad : \A m \in Bad : j <= m
    BY <2>0a, SmallestElement
  <2>2. /\ SizeUpTo(s, j + 1) = SizeUpTo(s, j) + SizeOf[s[j + 1].data]
        /\ SizeUpTo(s, j) \in Int
    <3>1. j + 1 \in 1..Len(s) /\ j \in 0..Len(s) /\ (j + 1) - 1 = j
      BY <1>0, <1>1, <2>1
    <3> QED BY <3>1, SizeUpToDef
  <2>3. CASE j = i - 1
    <3>1. SizeUpTo(t, j) = SizeUpTo(s, j)
      <4>1. \A m \in 1..j : t[m] = s[m]
        <5> SUFFICES ASSUME NEW m \in 1..j PROVE t[m] = s[m]
          OBVIOUS
        <5> HIDE DEF Bad
        <5>1. m \in 1..(Len(s) - 1) /\ m < i
          BY <1>0, <2>3
        <5> QED BY <1>1, <5>1
      <4> QED BY <1>1, <2>1, <2>3, <4>1, SamePrefixSameSize
    <3> QED BY <1>2, <2>1, <2>2, <2>3, <3>1
  <2>4. CASE j # i - 1
    <3>1. SizeUpTo(t, j - 1) = SizeUpTo(s, j) - SizeOf[s[i].data]
      BY <1>0, <2>1, <2>4
    <3>2. SizeUpTo(t, j) = SizeUpTo(t, j - 1) + SizeOf[s[j + 1].data]
      <4>1. j \in 1..Len(t) /\ t[j] = s[j + 1]
        <5>1. i \in 1..Len(s) /\ j \in (i - 1)..Len(t)
          BY <2>1
        <5> HIDE DEF Bad
        <5>2. j \in 1..Len(t) /\ j \in 1..(Len(s) - 1) /\ ~(j < i)
          BY <1>0, <1>1, <2>4, <5>1
        <5> QED BY <1>1, <5>2
      <4> QED BY <1>1, <4>1, SizeUpToDef
    <3>3. SizeOf[s[j + 1].data] \in Int
      <4>1. j + 1 \in 1..Len(s)
        BY <1>0, <1>1, <2>1
      <4> HIDE DEF Bad
      <4> QED BY <4>1, EntryAt
    <3>4. SizeUpTo(t, j) # SizeUpTo(s, j + 1) - SizeOf[s[i].data]
      BY <2>1
    <3> HIDE DEF Bad
    <3> QED BY <1>2, <2>2, <3>1, <3>2, <3>3, <3>4
  <2> QED BY <2>3, <2>4
<1>4. SizeUpTo(t, Len(t)) = SizeUpTo(s, Len(t) + 1) - SizeOf[s[i].data]
  BY <1>1, <1>3
<1> QED BY <1>1, <1>4 DEF TotalSize, t
-----------------------------------------------------------------------------
(* Reading, writing and removing an entry.                                 *)
LEMMA DomainIsInterval ==
  ASSUME NEW s \in Seq(Entry)
  PROVE  DOMAIN s = 1..Len(s) /\ Len(s) \in Nat
OBVIOUS

LEMMA PositionFacts ==
  ASSUME NEW s \in Seq(Entry), NEW k, Holds(s, k)
  PROVE  PositionOf(s, k) \in 1..Len(s) /\ s[PositionOf(s, k)].key = k
BY DomainIsInterval DEF Holds, PositionOf

\* Everything in t is somewhere in s.
DrawnFrom(t, s) == \A i \in 1..Len(t) : \E j \in 1..Len(s) : t[i] = s[j]

LEMMA WithoutFacts ==
  ASSUME NEW s \in Seq(Entry), NEW k
  PROVE  /\ Without(s, k) \in Seq(Entry)
         /\ DrawnFrom(Without(s, k), s)
         /\ TotalSize(Without(s, k)) =
              IF Holds(s, k) THEN TotalSize(s) - SizeOf[s[PositionOf(s, k)].data]
              ELSE TotalSize(s)
         /\ OnePerKey(s) => /\ OnePerKey(Without(s, k))
                            /\ \A i \in 1..Len(Without(s, k)) : Without(s, k)[i].key # k
PROOF
<1>0. Len(s) \in Nat
  OBVIOUS
<1>1. CASE ~Holds(s, k)
  <2>1. \A i \in 1..Len(s) : s[i].key # k
    BY <1>1, DomainIsInterval DEF Holds
  <2> QED BY <1>1, <2>1 DEF Without, DrawnFrom
<1>2. CASE Holds(s, k)
  <2> DEFINE p == PositionOf(s, k)
             t == Without(s, k)
  <2>1. p \in 1..Len(s) /\ s[p].key = k
    BY <1>2, PositionFacts
  <2>2. t = RemoveAt(s, p)
    BY <1>2 DEF Without
  <2> HIDE DEF p, t
  <2>3. /\ t \in Seq(Entry) /\ Len(t) = Len(s) - 1
        /\ \A j \in 1..(Len(s) - 1) : t[j] = IF j < p THEN s[j] ELSE s[j + 1]
    BY <2>1, <2>2, RemoveAtFacts
  <2>4. \A j \in 1..Len(t) : \E i \in 1..Len(s) :
          i # p /\ t[j] = s[i] /\ i = IF j < p THEN j ELSE j + 1
    BY <1>0, <2>1, <2>3
  <2>5. TotalSize(t) = TotalSize(s) - SizeOf[s[p].data]
    BY <2>1, <2>2, SizeOfRemoveAt
  <2>6. ASSUME OnePerKey(s)
        PROVE  OnePerKey(t) /\ \A i \in 1..Len(t) : t[i].key # k
    <3>1. \A i \in 1..Len(t) : t[i].key # k
      BY <2>1, <2>4, <2>6 DEF OnePerKey
    <3>2. ASSUME NEW i \in 1..Len(t), NEW j \in 1..Len(t), t[i].key = t[j].key
          PROVE  i = j
      <4>1. PICK ii \in 1..Len(s) : t[i] = s[ii] /\ ii = IF i < p THEN i ELSE i + 1
        BY <2>4
      <4>2. PICK jj \in 1..Len(s) : t[j] = s[jj] /\ jj = IF j < p THEN j ELSE j + 1
        BY <2>4
      <4>3. ii = jj
        BY <2>6, <3>2, <4>1, <4>2 DEF OnePerKey
      <4> QED BY <1>0, <2>1, <2>3, <4>1, <4>2, <4>3
    <3> QED BY <3>1, <3>2 DEF OnePerKey
  <2>7. DrawnFrom(t, s)
    BY <2>4 DEF DrawnFrom
  <2> QED BY <1>2, <2>3, <2>5, <2>6, <2>7 DEF p, t
<1> QED BY <1>1, <1>2

\* Putting an entry in front of a sequence without its key.
LEMMA ConsFacts ==
  ASSUME NEW s \in Seq(Entry), NEW e \in Entry
  PROVE  /\ <<e>> \o s \in Seq(Entry)
         /\ Len(<<e>> \o s) = Len(s) + 1
         /\ \A i \in 1..(Len(s) + 1) : (<<e>> \o s)[i] = IF i = 1 THEN e ELSE s[i - 1]
         /\ (OnePerKey(s) /\ \A i \in 1..Len(s) : s[i].key # e.key)
              => OnePerKey(<<e>> \o s)
PROOF
<1> DEFINE t == <<e>> \o s
<1>0. Len(s) \in Nat
  OBVIOUS
<1>1. /\ t \in Seq(Entry) /\ Len(t) = Len(s) + 1
      /\ \A i \in 1..(Len(s) + 1) : t[i] = IF i = 1 THEN e ELSE s[i - 1]
  <2>1. <<e>> \in Seq(Entry) /\ Len(<<e>>) = 1 /\ <<e>>[1] = e
    OBVIOUS
  <2>2. /\ t \in Seq(Entry) /\ Len(t) = 1 + Len(s)
        /\ \A j \in 1..(1 + Len(s)) : t[j] = IF j <= 1 THEN <<e>>[j] ELSE s[j - 1]
    BY <2>1, ConcatFacts
  <2> QED BY <1>0, <2>1, <2>2
<1> HIDE DEF t
<1>2. ASSUME OnePerKey(s), \A i \in 1..Len(s) : s[i].key # e.key,
             NEW i \in 1..Len(t), NEW j \in 1..Len(t), t[i].key = t[j].key
      PROVE  i = j
  <2>1. /\ i = 1 \/ (i - 1 \in 1..Len(s) /\ t[i] = s[i - 1])
        /\ j = 1 \/ (j - 1 \in 1..Len(s) /\ t[j] = s[j - 1])
        /\ t[1] = e /\ i \in Int /\ j \in Int
    BY <1>0, <1>1
  <2>2. CASE i = 1 \/ j = 1
    BY <1>2, <2>1, <2>2
  <2>3. CASE i # 1 /\ j # 1
    <3>1. i - 1 = j - 1
      BY <1>2, <2>1, <2>3 DEF OnePerKey
    <3> QED BY <2>1, <3>1
  <2> QED BY <2>2, <2>3
<1>3. (OnePerKey(s) /\ \A i \in 1..Len(s) : s[i].key # e.key) => OnePerKey(t)
  BY <1>2 DEF OnePerKey
<1> QED BY <1>1, <1>3 DEF t

LEMMA WrittenFacts ==
  ASSUME NEW s \in Seq(Entry), NEW k \in Keys, NEW d \in Data
  PROVE  /\ Written(s, k, d) \in Seq(Entry)
         /\ OnePerKey(s) => OnePerKey(Written(s, k, d))
PROOF
<1> DEFINE e == [key |-> k, data |-> d]
<1>1. e \in Entry /\ e.key = k
  BY DEF Entry
<1>2. Written(s, k, d) = <<e>> \o Without(s, k)
  BY DEF Written
<1> HIDE DEF e
<1> QED BY <1>1, <1>2, WithoutFacts, ConsFacts

LEMMA TouchedFacts ==
  ASSUME NEW s \in Seq(Entry), NEW k
  PROVE  /\ Touched(s, k) \in Seq(Entry)
         /\ DrawnFrom(Touched(s, k), s)
         /\ TotalSize(Touched(s, k)) = TotalSize(s)
         /\ OnePerKey(s) => OnePerKey(Touched(s, k))
PROOF
<1>0. Len(s) \in Nat
  OBVIOUS
<1>1. CASE ~Holds(s, k)
  BY <1>1 DEF Touched, DrawnFrom
<1>2. CASE Holds(s, k)
  <2> DEFINE p == PositionOf(s, k)
             e == s[p]
             r == Without(s, k)
             t == Touched(s, k)
  <2>1. p \in 1..Len(s) /\ e.key = k /\ e \in Entry /\ e = s[p] /\ SizeOf[e.data] \in Int
    BY <1>2, PositionFacts, EntryAt
  <2>2. t = <<e>> \o r
    BY <1>2 DEF Touched
  <2>3. /\ r \in Seq(Entry) /\ DrawnFrom(r, s) /\ Len(r) \in Nat
        /\ TotalSize(r) = TotalSize(s) - SizeOf[e.data]
        /\ OnePerKey(s) => (OnePerKey(r) /\ \A i \in 1..Len(r) : r[i].key # k)
    BY <1>2, WithoutFacts
  <2> HIDE DEF p, e, r, t
  <2>4. /\ t \in Seq(Entry) /\ Len(t) = Len(r) + 1
        /\ \A i \in 1..(Len(r) + 1) : t[i] = IF i = 1 THEN e ELSE r[i - 1]
        /\ OnePerKey(s) => OnePerKey(t)
    <3>1. OnePerKey(s) => OnePerKey(r) /\ \A i \in 1..Len(r) : r[i].key # e.key
      BY <2>1, <2>3
    <3>2. /\ <<e>> \o r \in Seq(Entry) /\ Len(<<e>> \o r) = Len(r) + 1
          /\ \A i \in 1..(Len(r) + 1) : (<<e>> \o r)[i] = IF i = 1 THEN e ELSE r[i - 1]
          /\ OnePerKey(r) /\ (\A i \in 1..Len(r) : r[i].key # e.key) => OnePerKey(<<e>> \o r)
      BY <2>1, <2>3, ConsFacts
    <3> QED BY <2>2, <3>1, <3>2
  <2>5. TotalSize(t) = TotalSize(s)
    <3>1. TotalSize(t) = SizeOf[e.data] + TotalSize(r)
      BY <2>1, <2>2, <2>3, SizeOfCons
    <3>2. Len(s) \in 0..Len(s)
      BY <1>0
    <3>3. TotalSize(s) \in Int
      BY <3>2, SizeUpToDef DEF TotalSize
    <3> QED BY <2>1, <2>3, <3>1, <3>3
  <2>6. DrawnFrom(t, s)
    <3>1. ASSUME NEW i \in 1..Len(t) PROVE \E j \in 1..Len(s) : t[i] = s[j]
      <4>1. i = 1 \/ (i - 1 \in 1..Len(r) /\ t[i] = r[i - 1])
        BY <2>3, <2>4
      <4>2. CASE i = 1
        BY <2>1, <2>3, <2>4, <4>2
      <4>3. CASE i - 1 \in 1..Len(r) /\ t[i] = r[i - 1]
        BY <2>3, <4>3 DEF DrawnFrom
      <4> QED BY <4>1, <4>2, <4>3
    <3> QED BY <3>1 DEF DrawnFrom
  <2> QED BY <2>4, <2>5, <2>6 DEF t
<1> QED BY <1>1, <1>2

LEMMA DrawnIsStorable ==
  ASSUME NEW s, NEW t, AllStorable(s), DrawnFrom(t, s)
  PROVE  AllStorable(t)
BY DEF AllStorable, DrawnFrom
-----------------------------------------------------------------------------
(* The prefix that fits.                                                   *)
Fits(s, n) ==
  /\ SizeUpTo(s, n) <= MaxSize
  /\ n = Len(s) \/ SizeUpTo(s, n + 1) > MaxSize

LEMMA FittingExists ==
  ASSUME NEW s \in Seq(Entry)
  PROVE  Fitting(s) \in 0..Len(s) /\ Fits(s, Fitting(s))
PROOF
<1>0. Len(s) \in Nat
  OBVIOUS
<1> DEFINE Stops == {n \in 0..Len(s) : n = Len(s) \/ SizeUpTo(s, n + 1) > MaxSize}
<1>1. Stops \subseteq Nat /\ Len(s) \in Stops
  BY <1>0
<1>2. PICK n \in Stops : \A m \in Stops : n <= m
  BY <1>1, SmallestElement
<1>3. SizeUpTo(s, n) <= MaxSize
  <2>1. CASE n = 0
    BY <2>1, SizeUpToDef, MaxSizeIsNat
  <2>2. CASE n # 0
    <3>0. n \in 0..Len(s)
      BY <1>2
    <3>1. /\ n - 1 \in 0..Len(s) /\ n - 1 \notin Stops /\ n \in 0..Len(s)
          /\ (n - 1) + 1 = n
      <4> HIDE DEF Stops
      <4> QED BY <1>0, <1>2, <2>2, <3>0
    <3>2. ~(SizeUpTo(s, n) > MaxSize)
      BY <3>1
    <3>3. SizeUpTo(s, n) \in Int
      BY <3>1, SizeUpToDef
    <3> QED BY <3>2, <3>3, MaxSizeIsNat
  <2> QED BY <2>1, <2>2
<1>4. n \in 0..Len(s) /\ Fits(s, n)
  BY <1>2, <1>3 DEF Fits
<1>5. Fitting(s) = CHOOSE m \in 0..Len(s) : Fits(s, m)
  BY DEF Fitting, Fits
<1> QED BY <1>4, <1>5

LEMMA FittingUnique ==
  ASSUME NEW s \in Seq(Entry), AllStorable(s), NEW n \in 0..Len(s), Fits(s, n)
  PROVE  Fitting(s) = n
PROOF
<1>0. Len(s) \in Nat
  OBVIOUS
<1>1. ASSUME NEW a \in 0..Len(s), NEW b \in 0..Len(s), Fits(s, a), Fits(s, b), a < b
      PROVE  FALSE
  <2>1. a + 1 \in 0..Len(s) /\ a # Len(s) /\ (a + 1 = b \/ a + 1 < b)
    BY <1>0, <1>1
  <2>2. SizeUpTo(s, a + 1) \in Int /\ SizeUpTo(s, b) \in Int
    BY <2>1, SizeUpToDef
  <2>3. SizeUpTo(s, a + 1) <= SizeUpTo(s, b)
    BY <2>1, <2>2, SizeGrows
  <2> QED BY <1>1, <2>1, <2>2, <2>3, MaxSizeIsNat DEF Fits
<1>2. Fitting(s) \in 0..Len(s) /\ Fits(s, Fitting(s))
  BY FittingExists
<1> QED BY <1>0, <1>1, <1>2

\* What is kept is a prefix of the entries and is within the capacity.
LEMMA KeptFacts ==
  ASSUME NEW s \in Seq(Entry)
  PROVE  /\ Kept(s) \in Seq(Entry)
         /\ DrawnFrom(Kept(s), s)
         /\ TotalSize(Kept(s)) <= MaxSize
         /\ OnePerKey(s) => OnePerKey(Kept(s))
PROOF
<1> DEFINE n == Fitting(s)
           t == Kept(s)
<1>0. Len(s) \in Nat
  OBVIOUS
<1>1. n \in 0..Len(s) /\ Fits(s, n)
  BY FittingExists
<1>2. t = SubSeq(s, 1, n)
  BY DEF Kept
<1> HIDE DEF n, t
<1>3. /\ t \in Seq(Entry) /\ Len(t) = n
      /\ \A i \in 1..n : t[i] = s[i] /\ i \in 1..Len(s)
  BY <1>0, <1>1, <1>2
<1>4. TotalSize(t) = SizeUpTo(s, n)
  BY <1>0, <1>1, <1>3, SamePrefixSameSize DEF TotalSize
<1>5. OnePerKey(s) => OnePerKey(t)
  BY <1>3 DEF OnePerKey
<1> QED BY <1>1, <1>3, <1>4, <1>5 DEF Fits, DrawnFrom, t

\* The keys of a sequence of entries, last first.
LEMMA ReversedKeys ==
  ASSUME NEW x \in Seq(Entry)
  PROVE  /\ Reverse(KeysOf(x)) = [i \in 1..Len(x) |-> x[Len(x) - i + 1].key]
         /\ Reverse(KeysOf(x)) \in Seq(Keys)
PROOF
<1> DEFINE n == Len(x)
           k == KeysOf(x)
<1>1. n \in Nat /\ DOMAIN x = 1..n
  BY EntryAt
<1>2. \A j \in 1..n : x[j].key \in Keys
  BY EntryAt
<1>3. k = [i \in 1..n |-> x[i].key]
  BY <1>1 DEF KeysOf
<1> HIDE DEF n, k
<1>4. k \in Seq(Keys)
  BY <1>1, <1>2, <1>3
<1>5. Len(k) = n
  BY <1>1, <1>3
<1>6. \A i \in 1..n : n - i + 1 \in 1..n
  BY <1>1
<1>7. Reverse(k) = [i \in 1..n |-> k[n - i + 1]]
  BY <1>5 DEF Reverse
<1>8. Reverse(k) = [i \in 1..n |-> x[n - i + 1].key]
  BY <1>3, <1>6, <1>7
<1>9. Reverse(k) \in Seq(Keys)
  BY <1>1, <1>2, <1>6, <1>8
<1> QED BY <1>8, <1>9 DEF n, k

\* What is dropped is a sequence of keys.
LEMMA DroppedType ==
  ASSUME NEW s \in Seq(Entry)
  PROVE  Dropped(s) \in Seq(Keys)
PROOF
<1> DEFINE x == SubSeq(s, Fitting(s) + 1, Len(s))
<1>1. Len(s) \in Nat /\ Fitting(s) \in 0..Len(s)
  BY FittingExists
<1>2. x \in Seq(Entry)
  BY <1>1
<1> QED BY <1>2, ReversedKeys DEF Dropped

\* Nothing is dropped when everything fits.
LEMMA KeptWhole ==
  ASSUME NEW s \in Seq(Entry), AllStorable(s), TotalSize(s) <= MaxSize
  PROVE  Kept(s) = s /\ Dropped(s) = <<>>
PROOF
<1>0. Len(s) \in Nat
  OBVIOUS
<1>1. Fitting(s) = Len(s)
  <2>1. Len(s) \in 0..Len(s) /\ Fits(s, Len(s))
    BY <1>0 DEF Fits, TotalSize
  <2> QED BY <2>1, FittingUnique
<1>2. Kept(s) = s
  BY <1>0, <1>1 DEF Kept
<1>3. Dropped(s) = <<>>
  <2>1. SubSeq(s, Len(s) + 1, Len(s)) = <<>>
    BY <1>0
  <2>2. KeysOf(<<>>) = <<>>
    BY DEF KeysOf
  <2>3. Reverse(<<>>) = <<>>
    BY DEF Reverse
  <2> QED BY <1>1, <2>1, <2>2, <2>3 DEF Dropped
<1> QED BY <1>2, <1>3

\* Taking the last entry of a sequence that does not fit changes nothing of
\* what is kept, and it is the first of those that are dropped.
LEMMA KeptFront ==
  ASSUME NEW s \in Seq(Entry), AllStorable(s), TotalSize(s) > MaxSize, Len(s) # 0
  PROVE  LET t == RemoveAt(s, Len(s))
         IN  /\ Kept(t) = Kept(s)
             /\ Dropped(s) = <<s[Len(s)].key>> \o Dropped(t)
PROOF
<1> DEFINE t == RemoveAt(s, Len(s))
           n == Len(s)
           m == Fitting(s)
<1>0. n \in Nat /\ n # 0 /\ n \in 1..n
  OBVIOUS
<1>1. /\ t \in Seq(Entry) /\ Len(t) = n - 1
      /\ \A j \in 1..(n - 1) : t[j] = s[j]
  BY <1>0, RemoveAtFacts
<1>2. m \in 0..n /\ Fits(s, m)
  BY FittingExists
<1> HIDE DEF t, m
<1>3. m # n
  BY <1>2, SizeUpToDef, MaxSizeIsNat DEF Fits, TotalSize
<1>4. \A i \in 0..(n - 1) : SizeUpTo(t, i) = SizeUpTo(s, i)
  <2> TAKE i \in 0..(n - 1)
  <2>1. i \in Nat /\ i <= Len(s) /\ i <= Len(t) /\ \A j \in 1..i : t[j] = s[j]
    BY <1>0, <1>1
  <2> QED BY <1>1, <2>1, SamePrefixSameSize
<1>5. AllStorable(t)
  BY <1>0, <1>1 DEF AllStorable
<1>6. m \in 0..(n - 1) /\ m \in 0..Len(t)
  BY <1>0, <1>1, <1>2, <1>3
<1>7. Fitting(t) = m
  <2>1. m = n - 1 \/ (m + 1 \in 0..(n - 1))
    BY <1>0, <1>6
  <2>2. Fits(t, m)
    BY <1>1, <1>2, <1>3, <1>4, <1>6, <2>1 DEF Fits
  <2> QED BY <1>1, <1>5, <1>6, <2>2, FittingUnique
<1>8. Kept(t) = Kept(s)
  <2>1. SubSeq(t, 1, m) = SubSeq(s, 1, m)
    BY <1>0, <1>1, <1>6
  <2> QED BY <1>7, <2>1 DEF Kept, m
<1>9. Dropped(s) = <<s[n].key>> \o Dropped(t)
  <2> DEFINE x == SubSeq(s, m + 1, n)
             y == SubSeq(t, m + 1, n - 1)
  <2>1. /\ x \in Seq(Entry) /\ Len(x) = n - m
        /\ \A i \in 1..(n - m) : x[i] = s[m + i]
    BY <1>0, <1>6
  <2>2. /\ y \in Seq(Entry) /\ Len(y) = n - 1 - m
        /\ \A i \in 1..(n - 1 - m) : y[i] = t[m + i]
    BY <1>0, <1>1, <1>6
  <2>3. Dropped(s) = Reverse(KeysOf(x)) /\ Dropped(t) = Reverse(KeysOf(y))
    BY <1>1, <1>7 DEF Dropped, m
  <2> HIDE DEF x, y
  <2>4. /\ Reverse(KeysOf(x)) = [i \in 1..(n - m) |-> x[n - m - i + 1].key]
        /\ Reverse(KeysOf(x)) \in Seq(Keys)
    BY <2>1, ReversedKeys
  <2>5. /\ Reverse(KeysOf(y)) = [i \in 1..(n - 1 - m) |-> y[n - 1 - m - i + 1].key]
        /\ Reverse(KeysOf(y)) \in Seq(Keys)
    BY <2>2, ReversedKeys
  <2> DEFINE a == Dropped(s)
             b == Dropped(t)
             c == <<s[n].key>>
  <2>6. /\ a \in Seq(Keys) /\ Len(a) = n - m
        /\ \A i \in 1..(n - m) : a[i] = x[n - m - i + 1].key
    BY <1>0, <1>6, <2>3, <2>4
  <2>7. /\ b \in Seq(Keys) /\ Len(b) = n - 1 - m
        /\ \A i \in 1..(n - 1 - m) : b[i] = y[n - 1 - m - i + 1].key
    BY <1>0, <1>6, <2>3, <2>5
  <2>8. c \in Seq(Keys) /\ Len(c) = 1 /\ c[1] = s[n].key
    BY <1>0, EntryAt
  <2> HIDE DEF a, b, c
  <2>9. /\ c \o b \in Seq(Keys) /\ Len(c \o b) = n - m
        /\ \A i \in 1..(n - m) : (c \o b)[i] = IF i <= 1 THEN c[i] ELSE b[i - 1]
    <3>1. /\ c \o b \in Seq(Keys) /\ Len(c \o b) = Len(c) + Len(b)
          /\ \A i \in 1..(Len(c) + Len(b)) :
               (c \o b)[i] = IF i <= Len(c) THEN c[i] ELSE b[i - Len(c)]
      BY <2>7, <2>8, ConcatFacts
    <3>2. Len(c) + Len(b) = n - m
      BY <1>0, <1>6, <2>7, <2>8
    <3> QED BY <2>8, <3>1, <3>2
  <2>10. \A i \in 1..(n - m) : a[i] = (c \o b)[i]
    <3> TAKE i \in 1..(n - m)
    <3>1. CASE i = 1
      <4>1. n - m - i + 1 = n - m /\ n - m \in 1..(n - m) /\ m + (n - m) = n
        BY <1>0, <1>6, <3>1
      <4> QED BY <2>1, <2>6, <2>8, <2>9, <3>1, <4>1
    <3>2. CASE i # 1
      <4>1. /\ i - 1 \in 1..(n - 1 - m) /\ n - 1 - m - (i - 1) + 1 = n - m - i + 1
            /\ n - m - i + 1 \in 1..(n - m) /\ n - m - i + 1 \in 1..(n - 1 - m)
            /\ m + (n - m - i + 1) \in 1..(n - 1) /\ ~(i <= 1)
        BY <1>0, <1>6, <3>2
      <4>2. a[i] = s[m + (n - m - i + 1)].key
        BY <2>1, <2>6, <4>1
      <4>3. b[i - 1] = t[m + (n - m - i + 1)].key
        BY <2>2, <2>7, <4>1
      <4> QED BY <1>1, <2>9, <4>1, <4>2, <4>3
    <3> QED BY <3>1, <3>2
  <2>11. a = c \o b
    BY <2>6, <2>9, <2>10, SeqEqual
  <2> QED BY <2>11 DEF a, b, c
<1> QED BY <1>8, <1>9 DEF t
=============================================================================
