----------------------- MODULE TurboPersistenceProofs -----------------------
(***************************************************************************)
(* Proofs about TurboPersistence, for any keys, batches and bounds: types, *)
(* what readers see, that what they follow is there, and that commits are  *)
(* atomic and durable.                                                     *)
(*                                                                         *)
(* First what the model's functions on sequences return (Without, LiveSsts, *)
(* Filters, FilterAll, Removed, Newest), then what it means that a directory *)
(* holds a complete state (Core) and which changes leave it complete, the  *)
(* inductive invariant (Inv), and one lemma for each action; last the      *)
(* theorems.                                                               *)
(***************************************************************************)
EXTENDS TurboPersistence, TLAPS, WellFoundedInduction, SequenceTheorems, FiniteSetTheorems

-----------------------------------------------------------------------------
(* Induction over the naturals, in the form the provers can use: a set of  *)
(* counterexamples that is not empty has a smallest element.               *)
LEMMA SmallestElement ==
  ASSUME NEW T, T \subseteq Nat, T # {}
  PROVE  \E x \in T : \A y \in T : x <= y
PROOF
<1>1. PICK x \in T : \A y \in T : ~(<<y, x>> \in OpToRel(<, Nat))
  BY WFMin, NatLessThanWellFounded, Zenon
<1>2. \A y \in T : ~(y < x)
  BY <1>1, Zenon DEF OpToRel
<1> QED BY <1>2

\* A set with 0 that has every successor of its elements has all naturals.
LEMMA NatInduct ==
  ASSUME NEW T, 0 \in T, \A n \in Nat : n \in T => n + 1 \in T
  PROVE  Nat \subseteq T
PROOF
<1> DEFINE Bad == Nat \ T
<1> SUFFICES ASSUME Bad # {} PROVE FALSE
  OBVIOUS
<1>1. PICK n \in Bad : \A m \in Bad : n <= m
  BY SmallestElement, Zenon
<1>2. n \in Nat /\ n # 0
  BY <1>1
<1>3. n - 1 \in Nat /\ n - 1 \notin Bad
  <2> HIDE DEF Bad
  <2> QED BY <1>1, <1>2
<1>4. n - 1 \in T
  BY <1>3
<1>5. n \in T
  BY <1>2, <1>3, <1>4
<1> QED BY <1>1, <1>5

\* The same for sequences: T holds the empty one and is closed under Append.
LEMMA SeqInduct ==
  ASSUME NEW S, NEW T, <<>> \in T,
         \A s \in Seq(S), e \in S : s \in T => Append(s, e) \in T
  PROVE  Seq(S) \subseteq T
PROOF
<1> DEFINE N == {n \in Nat : \A s \in Seq(S) : Len(s) = n => s \in T}
<1>1. 0 \in N
  <2>1. \A s \in Seq(S) : Len(s) = 0 => s = <<>>
    OBVIOUS
  <2> QED BY <2>1
<1>2. ASSUME NEW n \in Nat, n \in N PROVE n + 1 \in N
  <2> SUFFICES ASSUME NEW s \in Seq(S), Len(s) = n + 1 PROVE s \in T
    OBVIOUS
  <2>1. s # <<>>
    OBVIOUS
  <2>2. PICK r \in Seq(S), e \in S : s = Append(r, e)
    BY <2>1, SequenceEmptyOrAppend
  <2>3. Len(r) = n
    BY <2>2
  <2> QED BY <1>2, <2>2, <2>3
<1>3. Nat \subseteq N
  <2> HIDE DEF N
  <2> QED BY <1>1, <1>2, NatInduct
<1>4. \A s \in Seq(S) : Len(s) \in N
  BY <1>3
<1> QED BY <1>4

\* A set of numbers that is bounded and not empty has a largest element.
LEMMA LargestElement ==
  ASSUME NEW n \in Nat, NEW T, T \subseteq 0..n, T # {}
  PROVE  \E x \in T : \A y \in T : y <= x
PROOF
<1> DEFINE U == {n - x : x \in T}
<1>1. U \subseteq Nat /\ U # {}
  <2>1. \A x \in T : x \in 0..n /\ n - x \in Nat
    OBVIOUS
  <2>2. PICK x \in T : TRUE
    BY Zenon
  <2>3. n - x \in U
    OBVIOUS
  <2> QED BY <2>1, <2>3
<1>2. PICK u \in U : \A w \in U : u <= w
  <2> HIDE DEF U
  <2> QED BY <1>1, SmallestElement, Zenon
<1>3. PICK x \in T : u = n - x
  BY <1>2
<1>4. \A y \in T : u <= n - y
  BY <1>2
<1> QED BY <1>3, <1>4

-----------------------------------------------------------------------------
(* Without.                                                                *)

\* What upTo of Without satisfies.
IsWithout(f, s, K) ==
  f = [n \in 0..Len(s) |->
         IF n = 0 THEN <<>>
         ELSE IF s[n] \in K THEN f[n - 1] ELSE Append(f[n - 1], s[n])]

\* There is a function that has each prefix of s without the elements in K ...
LEMMA WithoutExists ==
  ASSUME NEW s, Len(s) \in Nat, NEW K
  PROVE  \E f : IsWithout(f, s, K)
PROOF
<1> DEFINE Built(f, n) == f = [m \in 0..n |-> IF m = 0 THEN <<>>
                               ELSE IF s[m] \in K THEN f[m - 1] ELSE Append(f[m - 1], s[m])]
           Bad == {n \in Nat : ~ \E f : Built(f, n)}
<1>1. Bad = {}
  <2> SUFFICES ASSUME Bad # {} PROVE FALSE
    BY Zenon
  <2>1. PICK n \in Bad : \A m \in Bad : n <= m
    BY SmallestElement, Zenon
  <2>2. n # 0
    <3>1. Built([m \in 0..0 |-> <<>>], 0)
      OBVIOUS
    <3> QED BY <3>1, <2>1, Zenon
  <2>3. n - 1 \in Nat /\ n - 1 \notin Bad
    <3> HIDE DEF Bad
    <3>1. n \in Nat
      BY <2>1 DEF Bad
    <3> QED BY <2>1, <2>2, <3>1
  <2>4. PICK f : Built(f, n - 1)
    BY <2>3, Zenon
  <2> DEFINE last == IF s[n] \in K THEN f[n - 1] ELSE Append(f[n - 1], s[n])
             g == [m \in 0..n |-> IF m = n THEN last ELSE f[m]]
  <2>5. \A m \in 0..n : g[m] = IF m = 0 THEN <<>>
                               ELSE IF s[m] \in K THEN g[m - 1] ELSE Append(g[m - 1], s[m])
    <3> TAKE m \in 0..n
    <3>1. CASE m = n
      <4>1. m # 0 /\ n - 1 \in 0..n /\ n - 1 # n
        BY <3>1, <2>2, <2>3
      <4>2. g[n - 1] = f[n - 1] /\ g[m] = last
        BY <3>1, <4>1
      <4> QED BY <4>1, <4>2, <3>1
    <3>2. CASE m # n
      <4>1. m \in 0..(n - 1) /\ g[m] = f[m]
        BY <3>2, <2>3
      <4>2. m # 0 => m - 1 \in 0..n /\ m - 1 # n
        BY <3>2, <4>1
      <4>3. m # 0 => g[m - 1] = f[m - 1]
        BY <4>2
      <4>4. f[m] = IF m = 0 THEN <<>>
                   ELSE IF s[m] \in K THEN f[m - 1] ELSE Append(f[m - 1], s[m])
        BY <4>1, <2>4, Zenon
      <4> QED BY <4>1, <4>3, <4>4
    <3> QED BY <3>1, <3>2
  <2>6. Built(g, n)
    BY <2>5, Zenon
  <2> QED BY <2>6, <2>1, Zenon
<1> QED BY <1>1 DEF IsWithout

\* ... so Without(s, K) is what it has for the whole of s.
LEMMA WithoutDef ==
  ASSUME NEW s, Len(s) \in Nat, NEW K
  PROVE  \E f : IsWithout(f, s, K) /\ Without(s, K) = f[Len(s)]
PROOF
<1> DEFINE up == CHOOSE f : IsWithout(f, s, K)
<1>1. IsWithout(up, s, K)
  BY WithoutExists
<1>2. Without(s, K) = up[Len(s)]
  BY DEF Without, IsWithout
<1> QED BY <1>1, <1>2, Zenon

\* The two equations by which everything else about Without follows.
LEMMA WithoutEmpty == ASSUME NEW K PROVE Without(<<>>, K) = <<>>
PROOF
<1>1. PICK f : IsWithout(f, <<>>, K) /\ Without(<<>>, K) = f[Len(<<>>)]
  BY WithoutDef
<1> QED BY <1>1 DEF IsWithout

\* One more element at the end stays or goes by itself.
LEMMA WithoutAppend ==
  ASSUME NEW S, NEW s \in Seq(S), NEW e \in S, NEW K
  PROVE  Without(Append(s, e), K) = IF e \in K THEN Without(s, K) ELSE Append(Without(s, K), e)
PROOF
<1> DEFINE t == Append(s, e)
<1>1. t \in Seq(S) /\ Len(t) = Len(s) + 1 /\ Len(s) \in Nat /\ t[Len(s) + 1] = e
      /\ \A i \in 1..Len(s) : t[i] = s[i]
  OBVIOUS
<1> HIDE DEF t
<1>2. PICK f : IsWithout(f, s, K) /\ Without(s, K) = f[Len(s)]
  BY <1>1, WithoutDef
<1>3. PICK g : IsWithout(g, t, K) /\ Without(t, K) = g[Len(t)]
  BY <1>1, WithoutDef
<1>4. \A n \in 0..Len(s) : f[n] = IF n = 0 THEN <<>>
                           ELSE IF s[n] \in K THEN f[n - 1] ELSE Append(f[n - 1], s[n])
  BY <1>2, <1>1, Zenon DEF IsWithout
<1>5. \A n \in 0..Len(t) : g[n] = IF n = 0 THEN <<>>
                           ELSE IF t[n] \in K THEN g[n - 1] ELSE Append(g[n - 1], t[n])
  BY <1>3, <1>1, Zenon DEF IsWithout
<1> DEFINE T == {n \in Nat : n <= Len(s) => f[n] = g[n]}
<1>6. 0 \in T
  BY <1>4, <1>5, <1>1
<1>7. ASSUME NEW n \in Nat, n \in T PROVE n + 1 \in T
  <2> SUFFICES ASSUME n + 1 <= Len(s) PROVE f[n + 1] = g[n + 1]
    OBVIOUS
  <2>1. n + 1 \in 0..Len(s) /\ n + 1 \in 0..Len(t) /\ n + 1 # 0 /\ n + 1 \in 1..Len(s)
    BY <1>1
  <2>2. f[n] = g[n] /\ (n + 1) - 1 = n
    BY <1>7, <1>1
  <2> QED BY <1>4, <1>5, <1>1, <2>1, <2>2
<1>8. Nat \subseteq T
  <2> HIDE DEF T
  <2> QED BY <1>6, <1>7, NatInduct
<1>9. f[Len(s)] = g[Len(s)]
  BY <1>8, <1>1
<1>10. g[Len(t)] = IF e \in K THEN g[Len(s)] ELSE Append(g[Len(s)], e)
  <2>1. Len(t) \in 0..Len(t) /\ Len(t) # 0 /\ Len(t) - 1 = Len(s) /\ t[Len(t)] = e
    BY <1>1
  <2> QED BY <1>5, <2>1
<1> QED BY <1>2, <1>3, <1>9, <1>10 DEF t

-----------------------------------------------------------------------------
(* Elements of sequences.                                                  *)
LEMMA ToSetOf ==
  ASSUME NEW S, NEW s \in Seq(S)
  PROVE  /\ ToSet(s) = {s[i] : i \in 1..Len(s)} /\ ToSet(s) \subseteq S
         /\ ToSet(s) = {} <=> s = <<>>
         /\ Len(s) \in Nat /\ DOMAIN s = 1..Len(s)
PROOF
<1>1. DOMAIN s = 1..Len(s) /\ Len(s) \in Nat /\ \A i \in 1..Len(s) : s[i] \in S
  OBVIOUS
<1>2. ToSet(s) = {s[i] : i \in 1..Len(s)}
  BY <1>1 DEF ToSet
<1>3. s # <<>> => 1 \in 1..Len(s)
  OBVIOUS
<1>4. s = <<>> => 1..Len(s) = {}
  OBVIOUS
<1>5. ToSet(s) = {} <=> s = <<>>
  <2>1. s # <<>> => s[1] \in ToSet(s)
    BY <1>2, <1>3
  <2>2. s = <<>> => ToSet(s) = {}
    BY <1>2, <1>4
  <2> QED BY <2>1, <2>2
<1> QED BY <1>1, <1>2, <1>5, Zenon

\* The elements after an append.
LEMMA ToSetAppend ==
  ASSUME NEW S, NEW s \in Seq(S), NEW e \in S
  PROVE  ToSet(Append(s, e)) = ToSet(s) \cup {e}
PROOF
<1> DEFINE t == Append(s, e)
<1>1. t \in Seq(S) /\ Len(t) = Len(s) + 1 /\ Len(s) \in Nat /\ t[Len(s) + 1] = e
      /\ \A i \in 1..Len(s) : t[i] = s[i]
  OBVIOUS
<1> HIDE DEF t
<1>2. ToSet(t) = {t[i] : i \in 1..Len(s) + 1} /\ ToSet(s) = {s[i] : i \in 1..Len(s)}
  BY <1>1, ToSetOf
<1>3. 1..Len(s) + 1 = 1..Len(s) \cup {Len(s) + 1}
  BY <1>1
<1>4. ToSet(t) = ToSet(s) \cup {e}
  BY <1>1, <1>2, <1>3
<1> QED BY <1>4 DEF t

\* The elements of a concatenation.
LEMMA ToSetConcat ==
  ASSUME NEW S, NEW s \in Seq(S), NEW t \in Seq(S)
  PROVE  ToSet(s \o t) = ToSet(s) \cup ToSet(t)
PROOF
<1> DEFINE u == s \o t
<1>1. u \in Seq(S) /\ Len(u) = Len(s) + Len(t) /\ Len(s) \in Nat /\ Len(t) \in Nat
      /\ \A i \in 1..Len(u) : u[i] = IF i <= Len(s) THEN s[i] ELSE t[i - Len(s)]
  BY ConcatProperties
<1> HIDE DEF u
<1>2. ToSet(u) = {u[i] : i \in 1..Len(u)} /\ ToSet(s) = {s[i] : i \in 1..Len(s)}
      /\ ToSet(t) = {t[i] : i \in 1..Len(t)}
  BY <1>1, ToSetOf, Zenon
<1>3. \A x \in ToSet(u) : x \in ToSet(s) \cup ToSet(t)
  <2> TAKE x \in ToSet(u)
  <2>1. PICK i \in 1..Len(u) : x = u[i]
    BY <1>2
  <2>2. i <= Len(s) \/ i - Len(s) \in 1..Len(t)
    BY <1>1
  <2>3. CASE i <= Len(s)
    <3>1. x = s[i] /\ i \in 1..Len(s)
      BY <1>1, <2>1, <2>3
    <3> QED BY <1>2, <3>1, Zenon
  <2>4. CASE ~ (i <= Len(s))
    <3>1. x = t[i - Len(s)] /\ i - Len(s) \in 1..Len(t)
      BY <1>1, <2>1, <2>2, <2>4
    <3> QED BY <1>2, <3>1, Zenon
  <2> QED BY <2>3, <2>4
<1>4. \A i \in 1..Len(s) : s[i] \in ToSet(u)
  <2> TAKE i \in 1..Len(s)
  <2>1. i \in 1..Len(u) /\ u[i] = s[i]
    BY <1>1
  <2> QED BY <1>2, <2>1
<1>5. \A i \in 1..Len(t) : t[i] \in ToSet(u)
  <2> TAKE i \in 1..Len(t)
  <2>1. i + Len(s) \in 1..Len(u) /\ ~(i + Len(s) <= Len(s)) /\ (i + Len(s)) - Len(s) = i
    BY <1>1
  <2>2. u[i + Len(s)] = t[i]
    BY <1>1, <2>1
  <2> QED BY <1>2, <2>1, <2>2
<1>6. ToSet(u) = ToSet(s) \cup ToSet(t)
  BY <1>2, <1>3, <1>4, <1>5, Zenon
<1> QED BY <1>6 DEF u

-----------------------------------------------------------------------------
(* What Without keeps.                                                     *)
LEMMA WithoutType ==
  ASSUME NEW S, NEW s \in Seq(S), NEW K
  PROVE  Without(s, K) \in Seq(S) /\ ToSet(Without(s, K)) = ToSet(s) \ K
PROOF
<1> DEFINE Good(x) == Without(x, K) \in Seq(S) /\ ToSet(Without(x, K)) = ToSet(x) \ K
           T == {x \in Seq(S) : Good(x)}
<1>1. <<>> \in T
  <2>1. <<>> \in Seq(S) /\ ToSet(<<>>) = {}
    BY ToSetOf, <<>> \in Seq(S)
  <2>2. Without(<<>>, K) = <<>>
    BY WithoutEmpty
  <2>3. Good(<<>>)
    BY <2>1, <2>2, Zenon
  <2> QED BY <2>1, <2>3
<1>2. ASSUME NEW x \in Seq(S), NEW e \in S, x \in T PROVE Append(x, e) \in T
  <2> DEFINE w == Without(x, K)
  <2>1. w \in Seq(S) /\ ToSet(w) = ToSet(x) \ K
    BY <1>2
  <2>2. Append(x, e) \in Seq(S) /\ ToSet(Append(x, e)) = ToSet(x) \cup {e}
    BY ToSetAppend
  <2> HIDE DEF w
  <2>3. Append(w, e) \in Seq(S) /\ ToSet(Append(w, e)) = ToSet(w) \cup {e}
    BY <2>1, ToSetAppend
  <2>4. Without(Append(x, e), K) = IF e \in K THEN w ELSE Append(w, e)
    BY WithoutAppend DEF w
  <2>5. Good(Append(x, e))
    <3>1. CASE e \in K
      BY <3>1, <2>1, <2>2, <2>4
    <3>2. CASE e \notin K
      BY <3>2, <2>1, <2>2, <2>3, <2>4
    <3> QED BY <3>1, <3>2
  <2> HIDE DEF Good
  <2> QED BY <2>2, <2>5
<1>3. Seq(S) \subseteq T
  <2> HIDE DEF T
  <2> QED BY <1>1, <1>2, SeqInduct
<1> QED BY <1>3

\* Only the elements of s in K matter, and not even those when there are none.
LEMMA WithoutSame ==
  ASSUME NEW S, NEW s \in Seq(S), NEW K, NEW M, ToSet(s) \cap K = ToSet(s) \cap M
  PROVE  Without(s, K) = Without(s, M)
PROOF
<1> DEFINE T == {x \in Seq(S) : ToSet(x) \cap K = ToSet(x) \cap M => Without(x, K) = Without(x, M)}
<1>1. <<>> \in T
  BY WithoutEmpty
<1>2. ASSUME NEW x \in Seq(S), NEW e \in S, x \in T PROVE Append(x, e) \in T
  <2>1. Append(x, e) \in Seq(S) /\ ToSet(Append(x, e)) = ToSet(x) \cup {e}
    BY ToSetAppend
  <2> SUFFICES ASSUME ToSet(Append(x, e)) \cap K = ToSet(Append(x, e)) \cap M
               PROVE  Without(Append(x, e), K) = Without(Append(x, e), M)
    BY <2>1
  <2>2. ToSet(x) \cap K = ToSet(x) \cap M /\ (e \in K <=> e \in M)
    BY <2>1
  <2>3. Without(x, K) = Without(x, M)
    BY <1>2, <2>2
  <2>4. Without(Append(x, e), K) = IF e \in K THEN Without(x, K) ELSE Append(Without(x, K), e)
    BY WithoutAppend
  <2>5. Without(Append(x, e), M) = IF e \in M THEN Without(x, M) ELSE Append(Without(x, M), e)
    BY WithoutAppend
  <2> QED BY <2>2, <2>3, <2>4, <2>5
<1>3. Seq(S) \subseteq T
  <2> HIDE DEF T
  <2> QED BY <1>1, <1>2, SeqInduct
<1> QED BY <1>3

\* Nothing goes when no element is in K.
LEMMA WithoutNothing ==
  ASSUME NEW S, NEW s \in Seq(S), NEW K, ToSet(s) \cap K = {}
  PROVE  Without(s, K) = s
PROOF
<1> DEFINE T == {x \in Seq(S) : Without(x, {}) = x}
<1>1. <<>> \in T
  BY WithoutEmpty
<1>2. ASSUME NEW x \in Seq(S), NEW e \in S, x \in T PROVE Append(x, e) \in T
  BY <1>2, WithoutAppend
<1>3. Seq(S) \subseteq T
  <2> HIDE DEF T
  <2> QED BY <1>1, <1>2, SeqInduct
<1>4. Without(s, K) = Without(s, {})
  BY WithoutSame
<1> QED BY <1>3, <1>4

\* Nothing is left when every element is in K.
LEMMA WithoutAll ==
  ASSUME NEW S, NEW s \in Seq(S), NEW K, ToSet(s) \subseteq K
  PROVE  Without(s, K) = <<>>
PROOF
<1>1. Without(s, K) \in Seq(S) /\ ToSet(Without(s, K)) = {}
  BY WithoutType
<1> QED BY <1>1, ToSetOf

\* Filtering twice is filtering by both sets.
LEMMA WithoutTwice ==
  ASSUME NEW S, NEW s \in Seq(S), NEW K, NEW M
  PROVE  Without(Without(s, K), M) = Without(s, K \cup M)
PROOF
<1> DEFINE T == {x \in Seq(S) : Without(Without(x, K), M) = Without(x, K \cup M)}
<1>1. <<>> \in T
  BY WithoutEmpty
<1>2. ASSUME NEW x \in Seq(S), NEW e \in S, x \in T PROVE Append(x, e) \in T
  <2> DEFINE w == Without(x, K)
  <2>1. w \in Seq(S) /\ Append(x, e) \in Seq(S)
    BY WithoutType
  <2>2. Without(w, M) = Without(x, K \cup M)
    BY <1>2
  <2>3. Without(Append(x, e), K) = IF e \in K THEN w ELSE Append(w, e)
    BY WithoutAppend
  <2>4. Without(Append(x, e), K \cup M) = IF e \in K \cup M THEN Without(w, M)
                                          ELSE Append(Without(w, M), e)
    BY <2>2, WithoutAppend
  <2> HIDE DEF w
  <2>5. Without(Append(w, e), M) = IF e \in M THEN Without(w, M) ELSE Append(Without(w, M), e)
    BY <2>1, WithoutAppend
  <2>6. Without(Without(Append(x, e), K), M) = Without(Append(x, e), K \cup M)
    <3>1. CASE e \in K
      BY <3>1, <2>3, <2>4
    <3>2. CASE e \notin K
      BY <3>2, <2>3, <2>4, <2>5, Zenon
    <3> QED BY <3>1, <3>2
  <2> QED BY <2>1, <2>6
<1>3. Seq(S) \subseteq T
  <2> HIDE DEF T
  <2> QED BY <1>1, <1>2, SeqInduct
<1> QED BY <1>3, Zenon

\* A concatenation is filtered part by part.
LEMMA WithoutConcat ==
  ASSUME NEW S, NEW s \in Seq(S), NEW t \in Seq(S), NEW K
  PROVE  Without(s \o t, K) = Without(s, K) \o Without(t, K)
PROOF
<1> DEFINE w == Without(s, K)
           T == {x \in Seq(S) : Without(s \o x, K) = w \o Without(x, K)}
<1>1. w \in Seq(S)
  BY WithoutType
<1>2. <<>> \in T
  <2>1. s \o <<>> = s /\ w \o <<>> = w
    BY <1>1, ConcatEmptySeq
  <2>2. <<>> \in Seq(S) /\ Without(<<>>, K) = <<>>
    BY WithoutEmpty
  <2>3. Without(s \o <<>>, K) = w \o Without(<<>>, K)
    BY <2>1, <2>2, Zenon
  <2> HIDE DEF w
  <2> QED BY <2>2, <2>3
<1>3. ASSUME NEW x \in Seq(S), NEW e \in S, x \in T PROVE Append(x, e) \in T
  <2> DEFINE v == Without(x, K)
  <2>1. v \in Seq(S) /\ s \o x \in Seq(S)
    BY WithoutType
  <2>2. s \o Append(x, e) = Append(s \o x, e)
    OBVIOUS
  <2>3. w \o Append(v, e) = Append(w \o v, e)
    <3> HIDE DEF w, v
    <3> QED BY <1>1, <2>1
  <2>4. Without(Append(s \o x, e), K) = IF e \in K THEN w \o v ELSE Append(w \o v, e)
    <3> DEFINE u == s \o x
    <3>1. u \in Seq(S)
      BY <1>3, <2>1
    <3>2. Without(u, K) = w \o v
      BY <1>3, <2>1
    <3> HIDE DEF u, w, v
    <3>3. Without(Append(u, e), K) = IF e \in K THEN Without(u, K) ELSE Append(Without(u, K), e)
      BY <3>1, WithoutAppend, ZenonT(40)
    <3> QED BY <3>2, <3>3 DEF u
  <2>5. Without(Append(x, e), K) = IF e \in K THEN v ELSE Append(v, e)
    BY WithoutAppend
  <2>6. Without(s \o Append(x, e), K) = w \o Without(Append(x, e), K)
    BY <2>2, <2>3, <2>4, <2>5, Zenon
  <2> QED BY <2>6
<1>4. Seq(S) \subseteq T
  <2> HIDE DEF T
  <2> QED BY <1>2, <1>3, SeqInduct
<1> QED BY <1>4

\* Without keeps the order.
Ordered(w, x) ==
  \A i, j \in 1..Len(w) : i < j => \E a, b \in 1..Len(x) : a < b /\ w[i] = x[a] /\ w[j] = x[b]

\* What is left is in the order it had.
LEMMA WithoutOrder ==
  ASSUME NEW S, NEW s \in Seq(S), NEW K
  PROVE  Ordered(Without(s, K), s)
PROOF
<1> USE DEF Ordered
<1> DEFINE T == {x \in Seq(S) : Ordered(Without(x, K), x)}
<1>1. <<>> \in T
  BY WithoutEmpty
<1>2. ASSUME NEW x \in Seq(S), NEW e \in S, x \in T PROVE Append(x, e) \in T
  <2> DEFINE w == Without(x, K)
             y == Append(x, e)
  <2>1. w \in Seq(S) /\ ToSet(w) = ToSet(x) \ K
    BY WithoutType
  <2>2. Ordered(w, x)
    BY <1>2
  <2>3. Without(y, K) = IF e \in K THEN w ELSE Append(w, e)
    BY WithoutAppend
  <2>4. y \in Seq(S) /\ Len(y) = Len(x) + 1 /\ Len(x) \in Nat /\ y[Len(x) + 1] = e
        /\ \A i \in 1..Len(x) : y[i] = x[i]
    OBVIOUS
  <2> HIDE DEF w, y
  <2>5. Ordered(w, y)
    <3> SUFFICES ASSUME NEW i \in 1..Len(w), NEW j \in 1..Len(w), i < j
                 PROVE  \E a, b \in 1..Len(y) : a < b /\ w[i] = y[a] /\ w[j] = y[b]
      OBVIOUS
    <3>1. PICK a \in 1..Len(x), b \in 1..Len(x) : a < b /\ w[i] = x[a] /\ w[j] = x[b]
      BY <2>2
    <3>2. a \in 1..Len(y) /\ b \in 1..Len(y) /\ y[a] = x[a] /\ y[b] = x[b]
      BY <2>4
    <3> QED BY <3>1, <3>2
  <2>6. e \notin K => Ordered(Append(w, e), y)
    <3> DEFINE v == Append(w, e)
    <3>1. Len(v) = Len(w) + 1 /\ Len(w) \in Nat /\ v[Len(w) + 1] = e
          /\ \A i \in 1..Len(w) : v[i] = w[i]
      BY <2>1
    <3> HIDE DEF v
    <3> SUFFICES ASSUME NEW i \in 1..Len(v), NEW j \in 1..Len(v), i < j
                 PROVE  \E a, b \in 1..Len(y) : a < b /\ v[i] = y[a] /\ v[j] = y[b]
      BY Zenon DEF v
    <3>2. i \in 1..Len(w) /\ v[i] = w[i]
      BY <3>1
    <3>3. CASE j = Len(w) + 1
      <4>1. w[i] \in ToSet(x)
        BY <2>1, <3>2, ToSetOf
      <4>2. PICK a \in 1..Len(x) : w[i] = x[a]
        BY <4>1, ToSetOf
      <4>3. a \in 1..Len(y) /\ Len(x) + 1 \in 1..Len(y) /\ a < Len(x) + 1 /\ y[a] = x[a]
        BY <2>4
      <4> QED BY <2>4, <3>1, <3>2, <3>3, <4>2, <4>3
    <3>4. CASE j # Len(w) + 1
      <4>1. j \in 1..Len(w) /\ v[j] = w[j]
        BY <3>1, <3>4
      <4>2. \E a, b \in 1..Len(y) : a < b /\ w[i] = y[a] /\ w[j] = y[b]
        BY <2>5, <3>2, <4>1, Zenon
      <4> QED BY <3>2, <4>1, <4>2
    <3> QED BY <3>3, <3>4
  <2>7. Ordered(Without(y, K), y)
    BY <2>3, <2>5, <2>6
  <2> QED BY <2>4, <2>7, Zenon DEF y
<1>3. Seq(S) \subseteq T
  <2> HIDE DEF T
  <2> QED BY <1>1, <1>2, SeqInduct
<1> QED BY <1>3

-----------------------------------------------------------------------------
(* LiveSsts.                                                               *)
MetaRec == [seq : Nat, entries : Seq(Nat), obsoleteEntries : SUBSET Nat, obsoleteSst : SUBSET Nat]

\* What upTo of LiveSsts satisfies.
IsLive(f, ms) ==
  f = [n \in 0..Len(ms) |-> IF n = 0 THEN <<>> ELSE f[n - 1] \o ms[n].entries]

\* The types of one of the loaded meta files.
LEMMA MetaAt ==
  ASSUME NEW ms \in Seq(MetaRec)
  PROVE  /\ Len(ms) \in Nat /\ DOMAIN ms = 1..Len(ms)
         /\ \A i \in 1..Len(ms) :
              /\ ms[i] \in MetaRec /\ ms[i].seq \in Nat /\ ms[i].entries \in Seq(Nat)
              /\ ms[i].obsoleteEntries \subseteq Nat /\ ms[i].obsoleteSst \subseteq Nat
PROOF
<1>1. \A i \in 1..Len(ms) : ms[i] \in MetaRec
  OBVIOUS
<1>2. \A m \in MetaRec : /\ m.seq \in Nat /\ m.entries \in Seq(Nat)
                         /\ m.obsoleteEntries \subseteq Nat /\ m.obsoleteSst \subseteq Nat
  BY DEF MetaRec
<1>3. Len(ms) \in Nat /\ DOMAIN ms = 1..Len(ms)
  OBVIOUS
<1> QED BY <1>1, <1>2, <1>3

\* There is a function that has the live SSTs of each prefix of ms.
LEMMA LiveExists ==
  ASSUME NEW ms, Len(ms) \in Nat
  PROVE  \E f : IsLive(f, ms)
PROOF
<1> DEFINE Built(f, n) == f = [m \in 0..n |-> IF m = 0 THEN <<>> ELSE f[m - 1] \o ms[m].entries]
           Bad == {n \in Nat : ~ \E f : Built(f, n)}
<1>1. Bad = {}
  <2> SUFFICES ASSUME Bad # {} PROVE FALSE
    BY Zenon
  <2>1. PICK n \in Bad : \A m \in Bad : n <= m
    BY SmallestElement, Zenon
  <2>2. n # 0
    <3>1. Built([m \in 0..0 |-> <<>>], 0)
      OBVIOUS
    <3> QED BY <3>1, <2>1, Zenon
  <2>3. n - 1 \in Nat /\ n - 1 \notin Bad
    <3> HIDE DEF Bad
    <3>1. n \in Nat
      BY <2>1 DEF Bad
    <3> QED BY <2>1, <2>2, <3>1
  <2>4. PICK f : Built(f, n - 1)
    BY <2>3, Zenon
  <2> DEFINE last == f[n - 1] \o ms[n].entries
             g == [m \in 0..n |-> IF m = n THEN last ELSE f[m]]
  <2>5. \A m \in 0..n : g[m] = IF m = 0 THEN <<>> ELSE g[m - 1] \o ms[m].entries
    <3> TAKE m \in 0..n
    <3>1. CASE m = n
      <4>1. m # 0 /\ n - 1 \in 0..n /\ n - 1 # n
        BY <3>1, <2>2, <2>3
      <4>2. g[n - 1] = f[n - 1] /\ g[m] = last
        BY <3>1, <4>1, Zenon
      <4> QED BY <4>1, <4>2, <3>1, Zenon
    <3>2. CASE m # n
      <4>1. m \in 0..(n - 1) /\ g[m] = f[m]
        BY <3>2, <2>3
      <4>2. m # 0 => m - 1 \in 0..n /\ m - 1 # n
        BY <3>2, <4>1
      <4>3. m # 0 => g[m - 1] = f[m - 1]
        BY <4>2
      <4>4. f[m] = IF m = 0 THEN <<>> ELSE f[m - 1] \o ms[m].entries
        BY <4>1, <2>4
      <4> QED BY <4>1, <4>3, <4>4
    <3> QED BY <3>1, <3>2
  <2>6. Built(g, n)
    BY <2>5, Zenon
  <2> QED BY <2>6, <2>1, Zenon
<1> QED BY <1>1, Zenon DEF IsLive

\* LiveSsts as the last value of a function given by its equations.
LEMMA LiveDef ==
  ASSUME NEW ms \in Seq(MetaRec)
  PROVE  \E f : /\ LiveSsts(ms) = f[Len(ms)] /\ f[0] = <<>>
                /\ \A n \in 1..Len(ms) : f[n] = f[n - 1] \o ms[n].entries
                /\ \A n \in 0..Len(ms) : f[n] \in Seq(Nat)
PROOF
<1> DEFINE up == CHOOSE f : IsLive(f, ms)
<1>0. Len(ms) \in Nat
  BY MetaAt
<1>1. IsLive(up, ms)
  BY <1>0, LiveExists
<1>2. LiveSsts(ms) = up[Len(ms)]
  BY DEF LiveSsts, IsLive
<1> HIDE DEF up
<1>3. \A n \in 0..Len(ms) : up[n] = IF n = 0 THEN <<>> ELSE up[n - 1] \o ms[n].entries
  BY <1>1, Zenon DEF IsLive
<1>4. up[0] = <<>> /\ \A n \in 1..Len(ms) : up[n] = up[n - 1] \o ms[n].entries
  <2>1. 0 \in 0..Len(ms) /\ \A n \in 1..Len(ms) : n \in 0..Len(ms) /\ n # 0
    BY <1>0
  <2>2. \A n \in 1..Len(ms) : up[n] = up[n - 1] \o ms[n].entries
    BY <1>3, <2>1, Zenon
  <2>3. up[0] = <<>>
    BY <1>3, <2>1
  <2> QED BY <2>2, <2>3, Zenon
<1> DEFINE T == {n \in Nat : n <= Len(ms) => up[n] \in Seq(Nat)}
<1>5. 0 \in T
  <2>1. up[0] \in Seq(Nat)
    BY <1>4
  <2> QED BY <2>1
<1>6. ASSUME NEW n \in Nat, n \in T PROVE n + 1 \in T
  <2> SUFFICES ASSUME n + 1 <= Len(ms) PROVE up[n + 1] \in Seq(Nat)
    OBVIOUS
  <2>1. n + 1 \in 1..Len(ms) /\ (n + 1) - 1 = n /\ up[n] \in Seq(Nat)
    BY <1>0, <1>6
  <2>2. up[n + 1] = up[n] \o ms[n + 1].entries
    BY <1>4, <2>1, Zenon
  <2>3. ms[n + 1].entries \in Seq(Nat)
    BY <2>1, MetaAt
  <2> QED BY <2>1, <2>2, <2>3, ConcatProperties
<1>7. Nat \subseteq T
  <2> HIDE DEF T
  <2> QED BY <1>5, <1>6, NatInduct
<1>8. \A n \in 0..Len(ms) : up[n] \in Seq(Nat)
  BY <1>0, <1>7
<1> QED BY <1>2, <1>4, <1>8, Zenon

\* Live SSTs are sequence numbers.
LEMMA LiveType ==
  ASSUME NEW ms \in Seq(MetaRec)
  PROVE  LiveSsts(ms) \in Seq(Nat)
PROOF
<1>1. PICK f : /\ LiveSsts(ms) = f[Len(ms)]
               /\ \A n \in 0..Len(ms) : f[n] \in Seq(Nat)
  BY LiveDef, Zenon
<1>2. Len(ms) \in 0..Len(ms)
  BY MetaAt
<1> QED BY <1>1, <1>2

\* A live SST is an entry of one of the meta files.
LEMMA LiveElements ==
  ASSUME NEW ms \in Seq(MetaRec)
  PROVE  ToSet(LiveSsts(ms)) = UNION {ToSet(ms[i].entries) : i \in 1..Len(ms)}
PROOF
<1>0. Len(ms) \in Nat
  BY MetaAt
<1>1. PICK f : /\ LiveSsts(ms) = f[Len(ms)] /\ f[0] = <<>>
               /\ \A n \in 1..Len(ms) : f[n] = f[n - 1] \o ms[n].entries
               /\ \A n \in 0..Len(ms) : f[n] \in Seq(Nat)
  BY LiveDef, Zenon
<1> DEFINE T == {n \in Nat : n <= Len(ms) =>
                    ToSet(f[n]) = UNION {ToSet(ms[i].entries) : i \in 1..n}}
<1>2. 0 \in T
  <2>1. <<>> \in Seq(Nat)
    OBVIOUS
  <2>2. ToSet(<<>>) = {}
    BY <2>1, ToSetOf, Zenon
  <2>3. UNION {ToSet(ms[i].entries) : i \in 1..0} = {}
    OBVIOUS
  <2> QED BY <1>1, <2>2, <2>3
<1>3. ASSUME NEW n \in Nat, n \in T PROVE n + 1 \in T
  <2> SUFFICES ASSUME n + 1 <= Len(ms)
               PROVE  ToSet(f[n + 1]) = UNION {ToSet(ms[i].entries) : i \in 1..n + 1}
    OBVIOUS
  <2>1. n + 1 \in 1..Len(ms) /\ (n + 1) - 1 = n /\ n \in 0..Len(ms)
        /\ ToSet(f[n]) = UNION {ToSet(ms[i].entries) : i \in 1..n}
    BY <1>0, <1>3
  <2>2. f[n + 1] = f[n] \o ms[n + 1].entries /\ f[n] \in Seq(Nat)
    BY <1>1, <2>1, Zenon
  <2>3. ms[n + 1].entries \in Seq(Nat)
    BY <2>1, MetaAt
  <2>4. ToSet(f[n + 1]) = ToSet(f[n]) \cup ToSet(ms[n + 1].entries)
    BY <2>2, <2>3, ToSetConcat
  <2>5. 1..n + 1 = 1..n \cup {n + 1}
    OBVIOUS
  <2> QED BY <2>1, <2>4, <2>5
<1>4. Nat \subseteq T
  <2> HIDE DEF T
  <2> QED BY <1>2, <1>3, NatInduct
<1>5. Len(ms) \in T
  BY <1>0, <1>4
<1> QED BY <1>0, <1>1, <1>5

\* Meta files in the order of their sequence numbers, and these numbers.
IsAscending(ms) == \A i, j \in 1..Len(ms) : i < j => ms[i].seq < ms[j].seq
Numbers(ms) == {ms[i].seq : i \in 1..Len(ms)}

\* The meta files ns have the entries ms have and no more.
SameEntries(ms, ns) ==
  /\ \A i \in 1..Len(ms), j \in 1..Len(ns) : ms[i].seq = ns[j].seq => ms[i].entries = ns[j].entries
  /\ \A j \in 1..Len(ns) : ns[j].seq \notin Numbers(ms) => ns[j].entries = <<>>

\* Meta files without entries make no difference to the live SSTs.
LEMMA SameLive ==
  ASSUME NEW ms \in Seq(MetaRec), NEW ns \in Seq(MetaRec),
         IsAscending(ms), IsAscending(ns), Numbers(ms) \subseteq Numbers(ns), SameEntries(ms, ns)
  PROVE  LiveSsts(ms) = LiveSsts(ns)
PROOF
<1> USE DEF SameEntries
<1>0. Len(ms) \in Nat /\ Len(ns) \in Nat /\ (\A i \in 1..Len(ms) : ms[i].seq \in Nat)
      /\ \A i \in 1..Len(ns) : ns[i].seq \in Nat
  BY MetaAt
<1>1. PICK f : /\ LiveSsts(ms) = f[Len(ms)] /\ f[0] = <<>>
               /\ \A n \in 1..Len(ms) : f[n] = f[n - 1] \o ms[n].entries
               /\ \A n \in 0..Len(ms) : f[n] \in Seq(Nat)
  BY LiveDef, Zenon
<1>2. PICK g : /\ LiveSsts(ns) = g[Len(ns)] /\ g[0] = <<>>
               /\ \A n \in 1..Len(ns) : g[n] = g[n - 1] \o ns[n].entries
               /\ \A n \in 0..Len(ns) : g[n] \in Seq(Nat)
  BY LiveDef, Zenon
<1> DEFINE Match(a, b) == \A i \in 1..Len(ms) : i <= a <=> \E j \in 1..b : ns[j].seq = ms[i].seq
           T == {b \in Nat : b <= Len(ns) => \A a \in 0..Len(ms) : Match(a, b) => f[a] = g[b]}
<1>3. 0 \in T
  <2> SUFFICES ASSUME NEW a \in 0..Len(ms), Match(a, 0) PROVE f[a] = g[0]
    OBVIOUS
  <2>1. a = 0
    <3> SUFFICES ASSUME a # 0 PROVE FALSE
      OBVIOUS
    <3>1. 1 \in 1..Len(ms) /\ 1 <= a
      BY <1>0
    <3> QED BY <3>1
  <2> QED BY <1>1, <1>2, <2>1
<1>4. ASSUME NEW b \in Nat, b \in T PROVE b + 1 \in T
  <2> SUFFICES ASSUME b + 1 <= Len(ns), NEW a \in 0..Len(ms), Match(a, b + 1) PROVE f[a] = g[b + 1]
    OBVIOUS
  <2>0. b + 1 \in 1..Len(ns) /\ (b + 1) - 1 = b /\ b \in 0..Len(ns) /\ b <= Len(ns)
    BY <1>0
  <2>1. b + 1 \in 1..Len(ns) /\ (b + 1) - 1 = b /\ b \in 0..Len(ns) /\ b <= Len(ns)
        /\ \A x \in 0..Len(ms) : Match(x, b) => f[x] = g[b]
    <3> HIDE DEF Match
    <3> QED BY <2>0, <1>4
  <2>2. g[b + 1] = g[b] \o ns[b + 1].entries /\ g[b] \in Seq(Nat)
    BY <1>2, <2>1, Zenon
  <2>3. \A j \in 1..b : ns[j].seq < ns[b + 1].seq
    <3> TAKE j \in 1..b
    <3>1. j \in 1..Len(ns) /\ j < b + 1
      BY <1>0, <2>1
    <3> QED BY <2>1, <3>1 DEF IsAscending
  <2>4. CASE ns[b + 1].seq \in Numbers(ms)
    <3>1. PICK i \in 1..Len(ms) : ms[i].seq = ns[b + 1].seq
      BY <2>4 DEF Numbers
    <3>2. i <= a
      <4>1. b + 1 \in 1..b + 1
        OBVIOUS
      <4>2. i <= a <=> \E j \in 1..b + 1 : ns[j].seq = ms[i].seq
        OBVIOUS
      <4> QED BY <3>1, <4>1, <4>2
    <3>3. i = a
      <4> SUFFICES ASSUME i < a PROVE FALSE
        BY <1>0, <3>2
      <4>1. a \in 1..Len(ms) /\ ms[i].seq < ms[a].seq
        BY <1>0 DEF IsAscending
      <4>2. PICK j \in 1..b + 1 : ns[j].seq = ms[a].seq
        BY <4>1
      <4>3. ns[j].seq <= ns[b + 1].seq
        BY <1>0, <2>1, <2>3, <4>2, SMTT(30)
      <4> QED BY <1>0, <2>1, <3>1, <4>1, <4>2, <4>3
    <3>4. Match(a - 1, b)
      <4> SUFFICES ASSUME NEW x \in 1..Len(ms)
                   PROVE  x <= a - 1 <=> \E j \in 1..b : ns[j].seq = ms[x].seq
        BY Zenon
      <4>1. ASSUME x <= a - 1 PROVE \E j \in 1..b : ns[j].seq = ms[x].seq
        <5>1. x <= a /\ ms[x].seq < ms[a].seq
          BY <1>0, <3>3, <4>1 DEF IsAscending
        <5>2. PICK j \in 1..b + 1 : ns[j].seq = ms[x].seq
          BY <5>1
        <5>3. j # b + 1
          BY <1>0, <3>1, <3>3, <5>1, <5>2
        <5> QED BY <5>2, <5>3, SMTT(30)
      <4>2. ASSUME NEW j \in 1..b, ns[j].seq = ms[x].seq PROVE x <= a - 1
        <5>1. j \in 1..b + 1
          OBVIOUS
        <5>2. x <= a
          BY <4>2, <5>1
        <5>3. x # a
          BY <1>0, <2>1, <2>3, <3>1, <3>3, <4>2
        <5> QED BY <1>0, <5>2, <5>3
      <4> QED BY <4>1, <4>2
    <3>5. a - 1 \in 0..Len(ms) /\ a \in 1..Len(ms)
      BY <1>0, <3>3
    <3>6. f[a - 1] = g[b]
      BY <2>1, <3>4, <3>5, Zenon
    <3>7. ms[a].entries = ns[b + 1].entries
      BY <2>1, <3>1, <3>3, Zenon
    <3> QED BY <1>1, <2>2, <3>5, <3>6, <3>7, Zenon
  <2>5. CASE ns[b + 1].seq \notin Numbers(ms)
    <3>1. Match(a, b)
      <4> SUFFICES ASSUME NEW x \in 1..Len(ms)
                   PROVE  x <= a <=> \E j \in 1..b : ns[j].seq = ms[x].seq
        BY Zenon
      <4>1. ms[x].seq # ns[b + 1].seq
        BY <2>5 DEF Numbers
      <4>2. x <= a <=> \E j \in 1..b + 1 : ns[j].seq = ms[x].seq
        OBVIOUS
      <4>3. 1..b + 1 = 1..b \cup {b + 1}
        OBVIOUS
      <4> QED BY <4>1, <4>2, <4>3, Zenon
    <3>2. f[a] = g[b] /\ ns[b + 1].entries = <<>>
      BY <2>1, <2>5, <3>1
    <3> QED BY <2>2, <3>2, ConcatEmptySeq
  <2> QED BY <2>4, <2>5
<1>5. Nat \subseteq T
  <2> HIDE DEF T
  <2> QED BY <1>3, <1>4, NatInduct
<1>6. Match(Len(ms), Len(ns))
  <2> SUFFICES ASSUME NEW i \in 1..Len(ms)
               PROVE  i <= Len(ms) <=> \E j \in 1..Len(ns) : ns[j].seq = ms[i].seq
    BY Zenon
  <2>1. ms[i].seq \in Numbers(ns)
    BY Zenon DEF Numbers
  <2> QED BY <1>0, <2>1 DEF Numbers
<1>7. Len(ns) \in T /\ Len(ms) \in 0..Len(ms) /\ Len(ns) <= Len(ns)
  <2> HIDE DEF T
  <2> QED BY <1>0, <1>5
<1>8. f[Len(ms)] = g[Len(ns)]
  <2> HIDE DEF Match
  <2> QED BY <1>6, <1>7
<1> QED BY <1>1, <1>2, <1>8

\* Removing elements from all meta files removes them from the live SSTs.
LEMMA LiveWithout ==
  ASSUME NEW ms \in Seq(MetaRec), NEW ns \in Seq(MetaRec), NEW K, Len(ns) = Len(ms),
         \A i \in 1..Len(ms) : ns[i].entries = Without(ms[i].entries, K)
  PROVE  LiveSsts(ns) = Without(LiveSsts(ms), K)
PROOF
<1>0. Len(ms) \in Nat
  BY MetaAt
<1>1. PICK f : /\ LiveSsts(ms) = f[Len(ms)] /\ f[0] = <<>>
               /\ \A n \in 1..Len(ms) : f[n] = f[n - 1] \o ms[n].entries
               /\ \A n \in 0..Len(ms) : f[n] \in Seq(Nat)
  BY LiveDef, Zenon
<1>2. PICK g : /\ LiveSsts(ns) = g[Len(ns)] /\ g[0] = <<>>
               /\ \A n \in 1..Len(ns) : g[n] = g[n - 1] \o ns[n].entries
  BY LiveDef, Zenon
<1> DEFINE T == {n \in Nat : n <= Len(ms) => g[n] = Without(f[n], K)}
<1>3. 0 \in T
  BY <1>1, <1>2, WithoutEmpty
<1>4. ASSUME NEW n \in Nat, n \in T PROVE n + 1 \in T
  <2> SUFFICES ASSUME n + 1 <= Len(ms) PROVE g[n + 1] = Without(f[n + 1], K)
    OBVIOUS
  <2>1. n + 1 \in 1..Len(ms) /\ (n + 1) - 1 = n /\ n \in 0..Len(ms) /\ g[n] = Without(f[n], K)
    BY <1>0, <1>4
  <2>2. ms[n + 1].entries \in Seq(Nat) /\ f[n] \in Seq(Nat)
    BY <1>1, <2>1, MetaAt
  <2>3. g[n + 1] = g[n] \o Without(ms[n + 1].entries, K) /\ f[n + 1] = f[n] \o ms[n + 1].entries
    BY <1>1, <1>2, <2>1, Zenon
  <2>4. Without(f[n] \o ms[n + 1].entries, K) = Without(f[n], K) \o Without(ms[n + 1].entries, K)
    <3> DEFINE x == f[n]
               e == ms[n + 1].entries
    <3>1. x \in Seq(Nat) /\ e \in Seq(Nat)
      BY <2>2
    <3> HIDE DEF x, e
    <3>2. Without(x \o e, K) = Without(x, K) \o Without(e, K)
      BY <3>1, WithoutConcat
    <3> QED BY <3>2 DEF x, e
  <2> QED BY <2>1, <2>3, <2>4
<1>5. Nat \subseteq T
  <2> HIDE DEF T
  <2> QED BY <1>3, <1>4, NatInduct
<1>6. g[Len(ms)] = Without(f[Len(ms)], K)
  BY <1>0, <1>5
<1> QED BY <1>1, <1>2, <1>6

\* A newer meta file adds its entries after all others.
LEMMA LiveAppend ==
  ASSUME NEW ms \in Seq(MetaRec), NEW m \in MetaRec
  PROVE  LiveSsts(Append(ms, m)) = LiveSsts(ms) \o m.entries
PROOF
<1> DEFINE ns == Append(ms, m)
<1>1. ns \in Seq(MetaRec) /\ Len(ns) = Len(ms) + 1 /\ ns[Len(ms) + 1] = m
      /\ \A i \in 1..Len(ms) : ns[i] = ms[i]
  OBVIOUS
<1> HIDE DEF ns
<1>2. Len(ms) \in Nat
  BY MetaAt
<1>3. PICK f : /\ LiveSsts(ms) = f[Len(ms)] /\ f[0] = <<>>
               /\ \A n \in 1..Len(ms) : f[n] = f[n - 1] \o ms[n].entries
  BY LiveDef, Zenon
<1>4. PICK g : /\ LiveSsts(ns) = g[Len(ns)] /\ g[0] = <<>>
               /\ \A n \in 1..Len(ns) : g[n] = g[n - 1] \o ns[n].entries
  BY <1>1, LiveDef, Zenon
<1> DEFINE T == {n \in Nat : n <= Len(ms) => g[n] = f[n]}
<1>5. 0 \in T
  BY <1>3, <1>4
<1>6. ASSUME NEW n \in Nat, n \in T PROVE n + 1 \in T
  <2> SUFFICES ASSUME n + 1 <= Len(ms) PROVE g[n + 1] = f[n + 1]
    OBVIOUS
  <2>1. n + 1 \in 1..Len(ms) /\ n + 1 \in 1..Len(ns) /\ (n + 1) - 1 = n /\ g[n] = f[n]
    BY <1>2, <1>1, <1>6
  <2> QED BY <1>3, <1>4, <1>1, <2>1, Zenon
<1>7. Nat \subseteq T
  <2> HIDE DEF T
  <2> QED BY <1>5, <1>6, NatInduct
<1>8. g[Len(ms)] = f[Len(ms)]
  BY <1>2, <1>7
<1>9. Len(ns) \in 1..Len(ns) /\ Len(ns) - 1 = Len(ms)
  BY <1>2, <1>1
<1>10. g[Len(ns)] = g[Len(ms)] \o m.entries
  BY <1>4, <1>9, <1>1, Zenon
<1> QED BY <1>3, <1>4, <1>8, <1>10 DEF ns

-----------------------------------------------------------------------------
(* SstFilter, phase 1.                                                     *)

\* f starts with base behind N and is step by step computed down to 1.
IsDown(f, N, base, step) ==
  f = [i \in 1..N + 1 |-> IF i = N + 1 THEN base ELSE step[i][f[i + 1]]]

\* A function defined downwards from its last value exists.
LEMMA DownExists ==
  ASSUME NEW N \in Nat, NEW V, NEW base, NEW step, base \in V,
         \A i \in 1..N : \A v \in V : step[i][v] \in V
  PROVE  \E f : /\ IsDown(f, N, base, step)
                /\ \A i \in 1..N + 1 : f[i] \in V
PROOF
<1> DEFINE Built(f, n) == /\ f \in [1..N + 1 -> V] /\ f[N + 1] = base
                          /\ \A i \in 1..N : N + 1 - i <= n => f[i] = step[i][f[i + 1]]
           T == {n \in Nat : \E f : Built(f, n)}
<1>1. 0 \in T
  <2>1. Built([i \in 1..N + 1 |-> base], 0)
    OBVIOUS
  <2> QED BY <2>1
<1>2. ASSUME NEW n \in Nat, n \in T PROVE n + 1 \in T
  <2>1. PICK f : Built(f, n)
    BY <1>2
  <2>2. CASE n + 1 > N
    <3>1. \A i \in 1..N : N + 1 - i <= n
      BY <2>2
    <3>2. Built(f, n + 1)
      BY <2>1, <3>1
    <3> QED BY <3>2
  <2>3. CASE n + 1 <= N
    <3> DEFINE j == N - n
               g == [f EXCEPT ![j] = step[j][f[j + 1]]]
    <3>1. j \in 1..N /\ j + 1 \in 1..N + 1 /\ f[j + 1] \in V /\ step[j][f[j + 1]] \in V /\ j # N + 1
      BY <2>1, <2>3
    <3>2. g \in [1..N + 1 -> V] /\ g[N + 1] = base
      BY <2>1, <3>1
    <3>3. ASSUME NEW i \in 1..N, N + 1 - i <= n + 1 PROVE g[i] = step[i][g[i + 1]]
      <4>1. i >= j /\ i + 1 # j /\ i + 1 \in 1..N + 1 /\ i \in 1..N + 1
        BY <3>1, <3>3
      <4>2. g[i + 1] = f[i + 1]
        BY <2>1, <4>1
      <4>3. CASE i = j
        BY <2>1, <3>1, <4>2, <4>3
      <4>4. CASE i # j
        <5>1. N + 1 - i <= n
          BY <4>1, <4>4
        <5>2. g[i] = f[i]
          BY <2>1, <4>1, <4>4
        <5>3. f[i] = step[i][f[i + 1]]
          BY <2>1, <5>1
        <5> QED BY <4>2, <5>2, <5>3
      <4> QED BY <4>3, <4>4
    <3>4. Built(g, n + 1)
      BY <3>2, <3>3
    <3> HIDE DEF Built, g
    <3> QED BY <3>4
  <2> HIDE DEF T
  <2> QED BY <2>2, <2>3
<1>3. Nat \subseteq T
  <2> HIDE DEF T
  <2> QED BY <1>1, <1>2, NatInduct
<1>4. PICK f : Built(f, N)
  BY <1>3, Zenon
<1>5. \A i \in 1..N + 1 : f[i] = IF i = N + 1 THEN base ELSE step[i][f[i + 1]]
  <2>1. \A i \in 1..N + 1 : i # N + 1 => i \in 1..N /\ N + 1 - i <= N
    OBVIOUS
  <2> QED BY <1>4, <2>1
<1> QED BY <1>4, <1>5 DEF IsDown

\* The states of the filter.
Filter == [active : SUBSET Nat, unused : SUBSET Nat, obsolete : SUBSET Nat]

\* What a meta file says about SSTs: those it holds and those it declares
\* obsolete.
Mentions(m) == ToSet(m.entries) \cup m.obsoleteSst

\* One step of the filter.
LEMMA ApplyFilterFacts ==
  ASSUME NEW f \in Filter, NEW m \in MetaRec
  PROVE  LET r == ApplyFilter(f, m) IN
         /\ r.filter \in Filter /\ r.meta \in MetaRec
         /\ r.meta.seq = m.seq /\ r.meta.obsoleteSst = m.obsoleteSst
         /\ r.meta.entries = Without(m.entries, Known(f))
         /\ r.meta.obsoleteEntries = (ToSet(m.entries) \cap Known(f)) \cup m.obsoleteEntries
         /\ Known(r.filter) = Known(f) \cup Mentions(m)
         /\ r.filter.active = f.active \cup (ToSet(m.entries) \ Known(f))
         /\ f.obsolete \subseteq r.filter.obsolete
         /\ f.unused \cap ((ToSet(m.entries) \cap Known(f)) \cup m.obsoleteEntries) \subseteq r.filter.obsolete
         /\ f.unused \subseteq r.filter.unused \cup r.filter.obsolete
         /\ m.obsoleteSst \ (Known(f) \cup ToSet(m.entries)) \subseteq r.filter.unused
PROOF
<1> DEFINE kept == Without(m.entries, Known(f))
           gone == (ToSet(m.entries) \ ToSet(kept)) \cup m.obsoleteEntries
           active == f.active \cup ToSet(kept)
           mm == [m EXCEPT !.entries = kept, !.obsoleteEntries = gone]
           ff == [active |-> active,
                  unused |-> (f.unused \ gone) \cup (m.obsoleteSst \ (Known(f) \cup active)),
                  obsolete |-> f.obsolete \cup (f.unused \cap gone)]
<1>1. /\ m.seq \in Nat /\ m.entries \in Seq(Nat)
      /\ m.obsoleteEntries \subseteq Nat /\ m.obsoleteSst \subseteq Nat
      /\ f.active \subseteq Nat /\ f.unused \subseteq Nat /\ f.obsolete \subseteq Nat
  BY DEF MetaRec, Filter
<1>2. kept \in Seq(Nat) /\ ToSet(kept) = ToSet(m.entries) \ Known(f)
  BY <1>1, WithoutType
<1>3. ToSet(m.entries) \subseteq Nat
  BY <1>1, ToSetOf
<1>4. ApplyFilter(f, m) = [meta |-> mm, filter |-> ff]
  BY DEF ApplyFilter
<1>5. gone = (ToSet(m.entries) \cap Known(f)) \cup m.obsoleteEntries /\ gone \subseteq Nat
  BY <1>1, <1>2, <1>3
<1>6. active = f.active \cup (ToSet(m.entries) \ Known(f)) /\ active \subseteq Nat
  BY <1>1, <1>2, <1>3
<1> DEFINE known == Known(f)
<1>7. f.active \subseteq known /\ f.unused \subseteq known /\ f.obsolete \subseteq known
      /\ known = f.active \cup f.unused \cup f.obsolete
  BY DEF Known
<1>8. Known(f) = known
  OBVIOUS
<1> HIDE DEF kept, gone, active, known
<1>9. mm \in MetaRec /\ mm.seq = m.seq /\ mm.obsoleteSst = m.obsoleteSst /\ mm.entries = kept
      /\ mm.obsoleteEntries = gone
  BY <1>1, <1>2, <1>5, Zenon DEF MetaRec
<1>10. ff \in Filter
  BY <1>1, <1>5, <1>6 DEF Filter
<1>11. Known(ff) = Known(f) \cup Mentions(m)
  BY <1>5, <1>6, <1>7, <1>8 DEF Known, Mentions
<1>12. m.obsoleteSst \ (Known(f) \cup ToSet(m.entries)) \subseteq ff.unused
  BY <1>6, <1>7, <1>8
<1>13. /\ f.obsolete \subseteq ff.obsolete /\ f.unused \cap gone \subseteq ff.obsolete
       /\ f.unused \subseteq ff.unused \cup ff.obsolete
       /\ ff.active = active
  OBVIOUS
<1> HIDE DEF mm, ff
<1> QED BY <1>4, <1>5, <1>6, <1>9, <1>10, <1>11, <1>12, <1>13 DEF kept

\* What from of Filters satisfies.
IsFilters(f, ms) ==
  f = [i \in 1..Len(ms) + 1 |->
         IF i = Len(ms) + 1 THEN EmptyFilter ELSE ApplyFilter(f[i + 1], ms[i]).filter]

\* The filter starts empty after the newest meta file and is applied to one
\* after the other.
LEMMA FiltersDef ==
  ASSUME NEW ms \in Seq(MetaRec)
  PROVE  /\ Filters(ms)[Len(ms) + 1] = EmptyFilter
         /\ \A i \in 1..Len(ms) : Filters(ms)[i] = ApplyFilter(Filters(ms)[i + 1], ms[i]).filter
         /\ \A i \in 1..Len(ms) + 1 : Filters(ms)[i] \in Filter
PROOF
<1> DEFINE N == Len(ms)
           step == [i \in 1..N |-> [f \in Filter |-> ApplyFilter(f, ms[i]).filter]]
<1>0. N \in Nat /\ \A i \in 1..N : ms[i] \in MetaRec
  BY MetaAt
<1>1. EmptyFilter \in Filter
  BY DEF EmptyFilter, Filter
<1>2. \A i \in 1..N : \A v \in Filter : step[i][v] \in Filter
  BY <1>0, ApplyFilterFacts
<1>3. PICK f : /\ IsDown(f, N, EmptyFilter, step)
               /\ \A i \in 1..N + 1 : f[i] \in Filter
  <2>1. N \in Nat
    BY <1>0
  <2> HIDE DEF step, N
  <2> QED BY <1>1, <1>2, <2>1, DownExists, Zenon
<1>4. \A i \in 1..N : step[i][f[i + 1]] = ApplyFilter(f[i + 1], ms[i]).filter
  <2> TAKE i \in 1..N
  <2>1. i + 1 \in 1..N + 1
    BY <1>0
  <2>2. f[i + 1] \in Filter
    BY <1>3, <2>1
  <2> QED BY <2>2
<1>5. IsFilters(f, ms)
  <2>1. \A i \in 1..N + 1 : i # N + 1 => i \in 1..N
    BY <1>0
  <2> HIDE DEF step
  <2> QED BY <1>3, <1>4, <2>1, Zenon DEF IsFilters, IsDown
<1> DEFINE from == CHOOSE g : IsFilters(g, ms)
<1>6. IsFilters(from, ms)
  BY <1>5
<1>7. Filters(ms) = from
  BY DEF Filters, IsFilters
<1> HIDE DEF from
<1>8. from[N + 1] = EmptyFilter
  <2>1. N + 1 \in 1..Len(ms) + 1
    BY <1>0
  <2> QED BY <1>6, <2>1 DEF IsFilters
<1>9. \A i \in 1..N : from[i] = ApplyFilter(from[i + 1], ms[i]).filter
  <2> TAKE i \in 1..N
  <2>1. i \in 1..Len(ms) + 1 /\ i # Len(ms) + 1
    BY <1>0
  <2> QED BY <1>6, <2>1, Zenon DEF IsFilters
<1>10. \A i \in 1..N + 1 : from[i] \in Filter
  <2> DEFINE T == {n \in Nat : n <= N => from[N + 1 - n] \in Filter}
  <2>1. 0 \in T
    BY <1>0, <1>1, <1>8
  <2>2. ASSUME NEW n \in Nat, n \in T PROVE n + 1 \in T
    <3> SUFFICES ASSUME n + 1 <= N PROVE from[N + 1 - (n + 1)] \in Filter
      OBVIOUS
    <3>1. N - n \in 1..N /\ N + 1 - (n + 1) = N - n /\ (N - n) + 1 = N + 1 - n /\ n <= N
      BY <1>0
    <3>2. from[N + 1 - n] \in Filter
      BY <2>2, <3>1
    <3>3. from[N - n] = ApplyFilter(from[N + 1 - n], ms[N - n]).filter
      BY <1>9, <3>1, Zenon
    <3>4. ms[N - n] \in MetaRec
      BY <1>0, <3>1
    <3> QED BY <3>1, <3>2, <3>3, <3>4, ApplyFilterFacts
  <2>3. Nat \subseteq T
    <3> HIDE DEF T
    <3> QED BY <2>1, <2>2, NatInduct
  <2> TAKE i \in 1..N + 1
  <2>4. N + 1 - i \in T /\ N + 1 - i <= N /\ N + 1 - (N + 1 - i) = i
    BY <1>0, <2>3
  <2> QED BY <2>4
<1> QED BY <1>7, <1>8, <1>9, <1>10

\* The filter knows the SSTs the meta files gone over mention.
LEMMA FiltersKnow ==
  ASSUME NEW ms \in Seq(MetaRec)
  PROVE  \A i \in 1..Len(ms) + 1 :
           Known(Filters(ms)[i]) = UNION {Mentions(ms[j]) : j \in {x \in 1..Len(ms) : x >= i}}
PROOF
<1> DEFINE N == Len(ms)
           F == Filters(ms)
           All(i) == UNION {Mentions(ms[j]) : j \in {x \in 1..N : x >= i}}
           T == {n \in Nat : n <= N => Known(F[N + 1 - n]) = All(N + 1 - n)}
<1>1. N \in Nat /\ \A i \in 1..N : ms[i] \in MetaRec
  BY MetaAt
<1>2. /\ F[N + 1] = EmptyFilter
      /\ \A i \in 1..N : F[i] = ApplyFilter(F[i + 1], ms[i]).filter
      /\ \A i \in 1..N + 1 : F[i] \in Filter
  BY FiltersDef
<1> HIDE DEF F
<1>3. 0 \in T
  <2>1. {x \in 1..N : x >= N + 1} = {}
    BY <1>1
  <2>2. All(N + 1) = {}
    BY <2>1
  <2>3. Known(F[N + 1]) = {}
    BY <1>2 DEF Known, EmptyFilter
  <2>4. N + 1 - 0 = N + 1
    BY <1>1
  <2> QED BY <2>2, <2>3, <2>4
<1>4. ASSUME NEW n \in Nat, n \in T PROVE n + 1 \in T
  <2> SUFFICES ASSUME n + 1 <= N PROVE Known(F[N + 1 - (n + 1)]) = All(N + 1 - (n + 1))
    OBVIOUS
  <2> DEFINE i == N - n
  <2>1. i \in 1..N /\ N + 1 - (n + 1) = i /\ i + 1 = N + 1 - n /\ i + 1 \in 1..N + 1
    BY <1>1
  <2>2. Known(F[i + 1]) = All(i + 1)
    BY <1>1, <1>4, <2>1
  <2>3. Known(F[i]) = Known(F[i + 1]) \cup Mentions(ms[i])
    <3>1. ms[i] \in MetaRec /\ F[i + 1] \in Filter /\ F[i] = ApplyFilter(F[i + 1], ms[i]).filter
      BY <1>1, <1>2, <2>1, Zenon
    <3> HIDE DEF i
    <3> QED BY <3>1, ApplyFilterFacts
  <2>4. {x \in 1..N : x >= i} = {x \in 1..N : x >= i + 1} \cup {i}
    BY <1>1, <2>1
  <2>5. All(i) = All(i + 1) \cup Mentions(ms[i])
    BY <2>4
  <2> QED BY <2>1, <2>2, <2>3, <2>5, Zenon
<1>5. Nat \subseteq T
  <2> HIDE DEF T
  <2> QED BY <1>3, <1>4, NatInduct
<1>6. ASSUME NEW i \in 1..N + 1 PROVE Known(F[i]) = All(i)
  <2>1. N + 1 - i \in T /\ N + 1 - i <= N /\ N + 1 - (N + 1 - i) = i
    <3> HIDE DEF T
    <3> QED BY <1>1, <1>5
  <2> HIDE DEF All
  <2> QED BY <2>1
<1> QED BY <1>6 DEF F

-----------------------------------------------------------------------------
(* SstFilter, phase 2.                                                     *)

\* What FilterAll makes of each meta file.
LEMMA FilterAllDef ==
  ASSUME NEW ms \in Seq(MetaRec)
  PROVE  LET out == FilterAll(ms)
             known(i) == UNION {Mentions(ms[j]) : j \in {x \in 1..Len(ms) : x > i}}
         IN /\ out \in Seq(MetaRec) /\ Len(out) = Len(ms)
            /\ \A i \in 1..Len(ms) :
                 /\ out[i].seq = ms[i].seq /\ out[i].obsoleteSst = ms[i].obsoleteSst
                 /\ out[i].entries = Without(ms[i].entries, known(i))
                 /\ out[i].obsoleteEntries = (ToSet(ms[i].entries) \cap known(i)) \cup ms[i].obsoleteEntries
PROOF
<1> DEFINE N == Len(ms)
           F == Filters(ms)
           out == FilterAll(ms)
           known(i) == UNION {Mentions(ms[j]) : j \in {x \in 1..N : x > i}}
<1>0. N \in Nat /\ DOMAIN ms = 1..N /\ \A i \in 1..N : ms[i] \in MetaRec
  BY MetaAt
<1>1. \A i \in 1..N + 1 : F[i] \in Filter
  BY FiltersDef
<1>2. out = [i \in 1..N |-> ApplyFilter(F[i + 1], ms[i]).meta]
  BY <1>0 DEF FilterAll
<1>3. \A i \in 1..N : Known(F[i + 1]) = known(i)
  <2> TAKE i \in 1..N
  <2>1. i + 1 \in 1..N + 1 /\ {x \in 1..N : x >= i + 1} = {x \in 1..N : x > i}
    BY <1>0
  <2>2. Known(F[i + 1]) = UNION {Mentions(ms[j]) : j \in {x \in 1..N : x >= i + 1}}
    BY <2>1, FiltersKnow
  <2> QED BY <2>1, <2>2
<1> HIDE DEF F, out, known
<1>4. ASSUME NEW i \in 1..N
      PROVE  /\ out[i] \in MetaRec
             /\ out[i].seq = ms[i].seq /\ out[i].obsoleteSst = ms[i].obsoleteSst
             /\ out[i].entries = Without(ms[i].entries, known(i))
             /\ out[i].obsoleteEntries = (ToSet(ms[i].entries) \cap known(i)) \cup ms[i].obsoleteEntries
  <2>1. i + 1 \in 1..N + 1
    BY <1>0
  <2>2. ms[i] \in MetaRec /\ F[i + 1] \in Filter /\ out[i] = ApplyFilter(F[i + 1], ms[i]).meta
    BY <1>0, <1>1, <1>2, <2>1
  <2>3. Known(F[i + 1]) = known(i)
    BY <1>3
  <2> DEFINE f == F[i + 1]
             m == ms[i]
  <2>4. f \in Filter /\ m \in MetaRec /\ out[i] = ApplyFilter(f, m).meta /\ Known(f) = known(i)
    BY <2>2, <2>3
  <2> HIDE DEF f, m
  <2>5. /\ out[i] \in MetaRec
        /\ out[i].seq = m.seq /\ out[i].obsoleteSst = m.obsoleteSst
        /\ out[i].entries = Without(m.entries, Known(f))
        /\ out[i].obsoleteEntries = (ToSet(m.entries) \cap Known(f)) \cup m.obsoleteEntries
    BY <2>4, ApplyFilterFacts
  <2> QED BY <2>4, <2>5 DEF m
<1>5. out \in Seq(MetaRec) /\ Len(out) = N
  BY <1>0, <1>2, <1>4
<1> QED BY <1>4, <1>5, Zenon DEF out, known

\* What from of Used satisfies.
IsUsed(f, ms, used) ==
  f = [i \in 1..Len(ms) + 1 |-> IF i = Len(ms) + 1 THEN used ELSE f[i + 1] \ ms[i].obsoleteSst]

\* An SST that is used stays so down to the first meta file that declares it.
LEMMA UsedKeeps ==
  ASSUME NEW ms \in Seq(MetaRec), NEW used \in SUBSET Nat, NEW s \in used, NEW j \in 1..Len(ms),
         \A x \in 1..Len(ms) : x > j => s \notin ms[x].obsoleteSst
  PROVE  s \in Used(ms, used)[j + 1]
PROOF
<1> DEFINE N == Len(ms)
           step == [i \in 1..N |-> [v \in SUBSET Nat |-> v \ ms[i].obsoleteSst]]
           from == CHOOSE g : IsUsed(g, ms, used)
<1>0. N \in Nat
  BY MetaAt
<1>1. \A i \in 1..N : \A v \in SUBSET Nat : step[i][v] \in SUBSET Nat
  BY Zenon
<1>2. PICK f : IsDown(f, N, used, step) /\ \A i \in 1..N + 1 : f[i] \in SUBSET Nat
  <2> HIDE DEF step, N
  <2> QED BY <1>0, <1>1, DownExists, Zenon
<1>3. \A i \in 1..N : step[i][f[i + 1]] = f[i + 1] \ ms[i].obsoleteSst
  <2> TAKE i \in 1..N
  <2>1. i + 1 \in 1..N + 1
    BY <1>0
  <2>2. f[i + 1] \in SUBSET Nat
    BY <1>2, <2>1, Zenon
  <2> QED BY <2>2
<1>4. IsUsed(f, ms, used)
  <2>1. \A i \in 1..N + 1 : i # N + 1 => i \in 1..N
    BY <1>0
  <2> HIDE DEF step
  <2> QED BY <1>2, <1>3, <2>1, Zenon DEF IsUsed, IsDown
<1>5. IsUsed(from, ms, used)
  BY <1>4
<1>6. Used(ms, used) = from
  BY DEF Used, IsUsed
<1> HIDE DEF from
<1>7. \A i \in 1..N + 1 : from[i] = IF i = N + 1 THEN used ELSE from[i + 1] \ ms[i].obsoleteSst
  BY <1>5, Zenon DEF IsUsed
<1> HIDE DEF step
<1> DEFINE T == {n \in Nat : n <= N - j => s \in from[N + 1 - n]}
<1>8. 0 \in T
  <2>1. N + 1 - 0 = N + 1 /\ N + 1 \in 1..N + 1
    BY <1>0
  <2> QED BY <1>7, <2>1, Zenon
<1>9. ASSUME NEW n \in Nat, n \in T PROVE n + 1 \in T
  <2> SUFFICES ASSUME n + 1 <= N - j PROVE s \in from[N + 1 - (n + 1)]
    OBVIOUS
  <2>1. /\ N - n \in 1..N /\ N - n > j /\ N - n \in 1..N + 1 /\ N - n # N + 1
        /\ (N - n) + 1 = N + 1 - n /\ N + 1 - (n + 1) = N - n /\ n <= N - j
    BY <1>0
  <2>2. s \in from[N + 1 - n] /\ s \notin ms[N - n].obsoleteSst
    BY <1>9, <2>1
  <2>3. from[N - n] = from[N + 1 - n] \ ms[N - n].obsoleteSst
    BY <1>7, <2>1, Zenon
  <2> QED BY <2>1, <2>2, <2>3
<1>10. Nat \subseteq T
  <2> HIDE DEF T
  <2> QED BY <1>8, <1>9, NatInduct, Zenon
<1>11. N - j \in Nat /\ N - j <= N - j /\ N + 1 - (N - j) = j + 1
  BY <1>0
<1> QED BY <1>6, <1>10, <1>11, Zenon

\* An SST the newest meta file that mentions it declares obsolete is found used
\* when an older meta file has, or had, it as an entry.
LEMMA FoundUsed ==
  ASSUME NEW ms \in Seq(MetaRec), NEW s, NEW i \in 1..Len(ms), NEW j \in 1..Len(ms), i < j,
         s \in ms[j].obsoleteSst, s \notin ToSet(ms[j].entries),
         \A x \in 1..Len(ms) : x > j => s \notin Mentions(ms[x]),
         s \in ToSet(ms[i].entries) \cup ms[i].obsoleteEntries
  PROVE  s \in Filters(ms)[1].obsolete /\ Filters(ms)[1].obsolete \in SUBSET Nat
PROOF
<1> DEFINE N == Len(ms)
           F == Filters(ms)
<1>0. N \in Nat /\ (\A x \in 1..N : ms[x] \in MetaRec) /\ 1 \in 1..N + 1
  BY MetaAt
<1>1. /\ \A x \in 1..N : F[x] = ApplyFilter(F[x + 1], ms[x]).filter
      /\ \A x \in 1..N + 1 : F[x] \in Filter
  BY FiltersDef
<1> HIDE DEF F
<1>2. ASSUME NEW x \in 1..N
      PROVE  /\ F[x + 1].obsolete \subseteq F[x].obsolete
             /\ F[x + 1].unused \cap ((ToSet(ms[x].entries) \cap Known(F[x + 1])) \cup ms[x].obsoleteEntries)
                  \subseteq F[x].obsolete
             /\ F[x + 1].unused \subseteq F[x].unused \cup F[x].obsolete
             /\ ms[x].obsoleteSst \ (Known(F[x + 1]) \cup ToSet(ms[x].entries)) \subseteq F[x].unused
  <2>1. x + 1 \in 1..N + 1
    BY <1>0
  <2> DEFINE f == F[x + 1]
             m == ms[x]
  <2>2. f \in Filter /\ m \in MetaRec /\ F[x] = ApplyFilter(f, m).filter
    BY <1>0, <1>1, <2>1
  <2> HIDE DEF f, m
  <2>3. /\ f.obsolete \subseteq F[x].obsolete
        /\ f.unused \cap ((ToSet(m.entries) \cap Known(f)) \cup m.obsoleteEntries) \subseteq F[x].obsolete
        /\ f.unused \subseteq F[x].unused \cup F[x].obsolete
        /\ m.obsoleteSst \ (Known(f) \cup ToSet(m.entries)) \subseteq F[x].unused
    BY <2>2, ApplyFilterFacts
  <2> QED BY <2>3 DEF f, m
<1>3. s \notin Known(F[j + 1])
  <2>1. j + 1 \in 1..N + 1 /\ \A x \in 1..N : x >= j + 1 => x > j
    BY <1>0
  <2>2. Known(F[j + 1]) = UNION {Mentions(ms[x]) : x \in {y \in 1..N : y >= j + 1}}
    BY <2>1, FiltersKnow, Zenon DEF F
  <2> QED BY <2>1, <2>2
<1>4. s \in F[j].unused
  BY <1>2, <1>3
<1> DEFINE T == {n \in Nat : n < j - i => s \in F[j - n].unused \cup F[j - n].obsolete}
<1>5. 0 \in T
  BY <1>4
<1>6. ASSUME NEW n \in Nat, n \in T PROVE n + 1 \in T
  <2> SUFFICES ASSUME n + 1 < j - i PROVE s \in F[j - (n + 1)].unused \cup F[j - (n + 1)].obsolete
    OBVIOUS
  <2> DEFINE x == j - (n + 1)
  <2>1. x \in 1..N /\ x + 1 = j - n /\ n < j - i
    <3> HIDE DEF T, F
    <3>1. i \in Nat /\ j \in Nat /\ 1 <= i /\ i < j /\ j <= N
      BY <1>0
    <3> QED BY <1>0, <3>1
  <2>2. s \in F[x + 1].unused \cup F[x + 1].obsolete
    BY <1>6, <2>1
  <2> HIDE DEF x
  <2>3. s \in F[x].unused \cup F[x].obsolete
    BY <1>2, <2>1, <2>2
  <2> QED BY <2>3 DEF x
<1>7. Nat \subseteq T
  <2> HIDE DEF T
  <2> QED BY <1>5, <1>6, NatInduct, Zenon
<1>8. s \in F[i + 1].unused \cup F[i + 1].obsolete
  <2>1. j - (i + 1) \in Nat /\ j - (i + 1) < j - i /\ j - (j - (i + 1)) = i + 1
    BY <1>0
  <2> QED BY <1>7, <2>1, Zenon
<1>9. s \in F[i].obsolete
  BY <1>2, <1>8 DEF Known
<1> DEFINE R == {n \in Nat : n < i => s \in F[i - n].obsolete}
<1>10. 0 \in R
  BY <1>9
<1>11. ASSUME NEW n \in Nat, n \in R PROVE n + 1 \in R
  <2> SUFFICES ASSUME n + 1 < i PROVE s \in F[i - (n + 1)].obsolete
    OBVIOUS
  <2> DEFINE x == i - (n + 1)
  <2>1. x \in 1..N /\ x + 1 = i - n /\ n < i
    <3> HIDE DEF R, F
    <3>1. i \in Nat /\ 1 <= i /\ i <= N
      BY <1>0
    <3> QED BY <1>0, <3>1
  <2>2. s \in F[x + 1].obsolete
    BY <1>11, <2>1, Zenon
  <2> HIDE DEF x
  <2>3. s \in F[x].obsolete
    BY <1>2, <2>1, <2>2
  <2> QED BY <2>3 DEF x
<1>12. Nat \subseteq R
  <2> HIDE DEF R
  <2> QED BY <1>10, <1>11, NatInduct, Zenon
<1>13. s \in F[1].obsolete
  <2>1. i - 1 \in Nat /\ i - 1 < i /\ i - (i - 1) = 1
    BY <1>0
  <2> QED BY <1>12, <2>1, Zenon
<1>14. F[1] \in Filter
  BY <1>0, <1>1
<1> QED BY <1>13, <1>14 DEF F, Filter

-----------------------------------------------------------------------------
(* The loaded meta files.                                                  *)

\* The meta file n of a directory, and the SSTs a lookup does not take from it
\* when the meta files C are loaded: newer ones have them or declare them
\* obsolete.
Raw(dat, n) == dat[<<"meta", n>>]
RawMentions(dat, n) == ToSet(Raw(dat, n).entries) \cup Raw(dat, n).obsolete
Hides(C, dat, n) == UNION {RawMentions(dat, m) : m \in {x \in C : x > n}}
Loaded(C, dat, n) ==
  [seq |-> n, entries |-> Without(Raw(dat, n).entries, Hides(C, dat, n)),
   obsoleteEntries |-> ToSet(Raw(dat, n).entries) \cap Hides(C, dat, n),
   obsoleteSst |-> Raw(dat, n).obsolete]

\* The fields of a loaded meta file.
LEMMA LoadedIs ==
  ASSUME NEW C, NEW dat, NEW n
  PROVE  /\ Loaded(C, dat, n).seq = n
         /\ Loaded(C, dat, n).entries = Without(Raw(dat, n).entries, Hides(C, dat, n))
         /\ Loaded(C, dat, n).obsoleteEntries = ToSet(Raw(dat, n).entries) \cap Hides(C, dat, n)
         /\ Loaded(C, dat, n).obsoleteSst = Raw(dat, n).obsolete
PROOF
  BY DEF Loaded

\* The meta files ms are what the filter makes of their files: no entry is lost and
\* none is left that a newer one hides.
Good(ms, dat) ==
  /\ ms \in Seq(MetaRec) /\ IsAscending(ms)
  /\ \A i \in 1..Len(ms) : ms[i] = Loaded(Numbers(ms), dat, ms[i].seq)

\* Ascending sequence numbers order the meta files as their places do.
LEMMA AscendingIndex ==
  ASSUME NEW ms \in Seq(MetaRec), IsAscending(ms)
  PROVE  \A i, j \in 1..Len(ms) : /\ ms[i].seq < ms[j].seq <=> i < j
                                  /\ ms[i].seq = ms[j].seq <=> i = j
PROOF
<1>0. Len(ms) \in Nat /\ \A i \in 1..Len(ms) : ms[i].seq \in Nat
  BY MetaAt
<1>1. \A i, j \in 1..Len(ms) : i < j => ms[i].seq < ms[j].seq
  BY DEF IsAscending
<1> QED BY <1>0, <1>1

\* What hides the entries of the meta file at i is what later ones mention.
LEMMA HidesAt ==
  ASSUME NEW ms \in Seq(MetaRec), IsAscending(ms), NEW dat, NEW i \in 1..Len(ms)
  PROVE  \A s : s \in Hides(Numbers(ms), dat, ms[i].seq)
                  <=> \E j \in 1..Len(ms) : j > i /\ s \in RawMentions(dat, ms[j].seq)
PROOF
<1>0. \A x \in 1..Len(ms) : ms[x].seq > ms[i].seq <=> x > i
  <2>1. Len(ms) \in Nat /\ \A x \in 1..Len(ms) : ms[x].seq \in Nat
    BY MetaAt
  <2> TAKE x \in 1..Len(ms)
  <2>2. ms[i].seq < ms[x].seq <=> i < x
    BY AscendingIndex
  <2> QED BY <2>1, <2>2
<1>1. {x \in Numbers(ms) : x > ms[i].seq} = {ms[j].seq : j \in {x \in 1..Len(ms) : x > i}}
  BY <1>0 DEF Numbers
<1> QED BY <1>1 DEF Hides

\* The meta files ms, of the i-th of which the entries H[i], all of them hidden,
\* have been taken already; what else is hidden is so by one of ms.
Trimmed(ms, H, dat) ==
  \A i \in 1..Len(ms) :
    /\ Raw(dat, ms[i].seq).entries \in Seq(Nat)
    /\ ms[i].entries = Without(Raw(dat, ms[i].seq).entries, H[i])
    /\ ms[i].obsoleteEntries = ToSet(Raw(dat, ms[i].seq).entries) \cap H[i]
    /\ ms[i].obsoleteSst = Raw(dat, ms[i].seq).obsolete
    /\ H[i] \subseteq Hides(Numbers(ms), dat, ms[i].seq)
    /\ \A s \in Hides(Numbers(ms), dat, ms[i].seq) :
         s \in H[i] \/ \E j \in 1..Len(ms) : j > i /\ s \in Mentions(ms[j])

\* Filtering leaves of each meta file what no other of them hides.
LEMMA GoodFilter ==
  ASSUME NEW dat, NEW ms \in Seq(MetaRec), IsAscending(ms), NEW H,
         Trimmed(ms, H, dat)
  PROVE  /\ Good(FilterAll(ms), dat)
         /\ Len(FilterAll(ms)) = Len(ms) /\ \A i \in 1..Len(ms) : FilterAll(ms)[i].seq = ms[i].seq
         /\ Numbers(FilterAll(ms)) = Numbers(ms)
PROOF
<1> DEFINE N == Len(ms)
           out == FilterAll(ms)
           known(i) == UNION {Mentions(ms[j]) : j \in {x \in 1..N : x > i}}
<1> USE DEF Trimmed
<1>0. N \in Nat
  BY MetaAt
<1>1. /\ out \in Seq(MetaRec) /\ Len(out) = N
      /\ \A i \in 1..N :
           /\ out[i].seq = ms[i].seq /\ out[i].obsoleteSst = ms[i].obsoleteSst
           /\ out[i].entries = Without(ms[i].entries, known(i))
           /\ out[i].obsoleteEntries = (ToSet(ms[i].entries) \cap known(i)) \cup ms[i].obsoleteEntries
  BY FilterAllDef, Zenon
<1>2. ASSUME NEW i \in 1..N PROVE H[i] \cup known(i) = Hides(Numbers(ms), dat, ms[i].seq)
  <2>1. ASSUME NEW j \in 1..N PROVE Mentions(ms[j]) \subseteq RawMentions(dat, ms[j].seq)
    <3>1. ToSet(ms[j].entries) = ToSet(Raw(dat, ms[j].seq).entries) \ H[j]
      BY WithoutType
    <3> QED BY <3>1 DEF Mentions, RawMentions
  <2>2. \A s : s \in known(i) <=> \E j \in 1..N : j > i /\ s \in Mentions(ms[j])
    OBVIOUS
  <2>3. \A s : s \in Hides(Numbers(ms), dat, ms[i].seq)
                 <=> \E j \in 1..N : j > i /\ s \in RawMentions(dat, ms[j].seq)
    BY HidesAt, Zenon
  <2>4. known(i) \subseteq Hides(Numbers(ms), dat, ms[i].seq)
    BY <2>1, <2>2, <2>3, Zenon
  <2>5. \A s \in Hides(Numbers(ms), dat, ms[i].seq) : s \in H[i] \/ s \in known(i)
    BY <2>2
  <2>6. H[i] \subseteq Hides(Numbers(ms), dat, ms[i].seq)
    OBVIOUS
  <2> HIDE DEF known
  <2> QED BY <2>4, <2>5, <2>6
<1> HIDE DEF out, known
<1>3. Numbers(out) = Numbers(ms) /\ IsAscending(out)
  <2>1. \A i \in 1..N : out[i].seq = ms[i].seq
    BY <1>1
  <2>2. Len(out) = Len(ms)
    BY <1>1
  <2> QED BY <2>1, <2>2, Zenon DEF Numbers, IsAscending
<1>4. ASSUME NEW i \in 1..N PROVE out[i] = Loaded(Numbers(out), dat, out[i].seq)
  <2> DEFINE n == ms[i].seq
             raw == Raw(dat, n)
             e == raw.entries
             h == H[i]
             k == known(i)
             all == Hides(Numbers(ms), dat, n)
  <2>1. /\ e \in Seq(Nat) /\ ms[i].entries = Without(e, h) /\ ms[i].obsoleteEntries = ToSet(e) \cap h
        /\ out[i].seq = n /\ out[i].obsoleteSst = raw.obsolete
        /\ out[i].entries = Without(ms[i].entries, k)
        /\ out[i].obsoleteEntries = (ToSet(ms[i].entries) \cap k) \cup ms[i].obsoleteEntries
        /\ h \cup k = all /\ out[i] \in MetaRec
    BY <1>1, <1>2
  <2>2. Loaded(Numbers(out), dat, n) =
          [seq |-> n, entries |-> Without(e, all), obsoleteEntries |-> ToSet(e) \cap all,
           obsoleteSst |-> raw.obsolete]
    BY <1>3 DEF Loaded
  <2> HIDE DEF n, raw, e, h, k, all
  <2>5. e \in Seq(Nat)
    BY <2>1
  <2>6. Without(Without(e, h), k) = Without(e, h \cup k)
    BY <2>5, WithoutTwice
  <2>3. Without(Without(e, h), k) = Without(e, h \cup k) /\ ToSet(Without(e, h)) = ToSet(e) \ h
    BY <2>5, <2>6, WithoutType
  <2>4. out[i].entries = Without(e, all) /\ out[i].obsoleteEntries = ToSet(e) \cap all
    BY <2>1, <2>3, Zenon
  <2> QED BY <2>1, <2>2, <2>4, Zenon DEF MetaRec
<1> QED BY <1>1, <1>3, <1>4 DEF out, Good

\* Of the meta files ms no entry was lost: it is there or in obsoleteEntries.
Entire(ms, dat) ==
  \A i \in 1..Len(ms) :
    /\ Raw(dat, ms[i].seq).entries \in Seq(Nat)
    /\ ToSet(ms[i].entries) \cup ms[i].obsoleteEntries = ToSet(Raw(dat, ms[i].seq).entries)
    /\ ms[i].obsoleteSst = Raw(dat, ms[i].seq).obsolete

\* The meta files that are dropped of all.
RemovedOf(all) == Removed(FilterAll(all), Filters(all)[1].obsolete)

\* Meta files are dropped only when every entry they had is hidden by one that
\* stays; what hides an entry of the others stays, too.
LEMMA DropHidden ==
  ASSUME NEW dat, NEW all \in Seq(MetaRec), IsAscending(all), Entire(all, dat),
         Good(FilterAll(all), dat),
         NEW i \in 1..Len(all), NEW s \in ToSet(Raw(dat, all[i].seq).entries),
         s \in Hides(Numbers(all), dat, all[i].seq)
  PROVE  \E j \in 1..Len(all) : j > i /\ s \in RawMentions(dat, all[j].seq) /\ FilterAll(all)[j] \notin RemovedOf(all)
PROOF
<1> DEFINE N == Len(all)
           used == Filters(all)[1].obsolete
           G == FilterAll(all)
           R == RemovedOf(all)
           M == {x \in 1..N : s \in RawMentions(dat, all[x].seq)}
<1> USE DEF Entire
<1>1. /\ G = FilterAll(all) /\ R = RemovedOf(all) /\ R = Removed(G, used) /\ Good(G, dat)
  BY DEF RemovedOf
<1> HIDE DEF G, R
<1>2. N \in Nat /\ \A x \in 1..N : all[x].seq \in Nat
  BY MetaAt
<1>3. /\ G \in Seq(MetaRec) /\ Len(G) = N
      /\ \A x \in 1..N : G[x].seq = all[x].seq /\ G[x].obsoleteSst = all[x].obsoleteSst
  BY <1>1, FilterAllDef, Zenon
<1>4. Numbers(G) = Numbers(all)
  BY <1>3, Zenon DEF Numbers
<1>5. PICK y \in 1..N : y > i /\ y \in M
  <2>1. \A z : z \in Hides(Numbers(all), dat, all[i].seq)
                 <=> \E x \in 1..Len(all) : x > i /\ z \in RawMentions(dat, all[x].seq)
    BY HidesAt, Zenon
  <2> QED BY <2>1
<1>6. PICK j \in M : \A x \in M : x <= j
  <2>0. \A x \in 1..N : x \in 0..N
    BY <1>2
  <2>1. M \subseteq 0..N /\ M # {}
    BY <1>5, <2>0, Zenon
  <2> HIDE DEF M, N
  <2> QED BY <1>2, <2>1, LargestElement, Zenon
<1>7. j \in 1..N /\ j > i
  BY <1>2, <1>5, <1>6
<1>8. \A x \in 1..N : x > j => s \notin RawMentions(dat, all[x].seq)
  BY <1>2, <1>6
<1>9. ASSUME NEW x \in 1..N, G[x] = G[j] PROVE x = j
  <2>1. all[x].seq = all[j].seq
    BY <1>3, <1>7, <1>9
  <2> QED BY <1>7, <2>1, AscendingIndex
<1>10. ~ Removable(G[j], Used(G, used)[j + 1])
  <2>1. CASE s \in ToSet(Raw(dat, all[j].seq).entries)
    <3>1. s \notin Hides(Numbers(all), dat, all[j].seq)
      <4>1. \A z : z \in Hides(Numbers(all), dat, all[j].seq)
                     <=> \E x \in 1..Len(all) : x > j /\ z \in RawMentions(dat, all[x].seq)
        BY <1>7, HidesAt, Zenon
      <4> QED BY <4>1, <1>8
    <3>2. G[j].entries = Without(Raw(dat, all[j].seq).entries, Hides(Numbers(all), dat, all[j].seq))
      <4>1. j \in 1..Len(G) /\ G[j].seq = all[j].seq /\ Numbers(G) = Numbers(all)
        BY <1>3, <1>4, <1>7
      <4>2. G[j] = Loaded(Numbers(all), dat, all[j].seq)
        BY <4>1, <1>1 DEF Good
      <4> QED BY <4>2 DEF Loaded
    <3>3. s \in ToSet(G[j].entries)
      <4>1. Raw(dat, all[j].seq).entries \in Seq(Nat)
        BY <1>7
      <4> QED BY <2>1, <3>1, <3>2, <4>1, WithoutType
    <3>4. G[j].entries # <<>>
      <4>1. <<>> \in Seq(Nat) /\ ToSet(<<>>) = {}
        BY ToSetOf, <<>> \in Seq(Nat)
      <4> QED BY <3>3, <4>1
    <3> QED BY <3>4 DEF Removable
  <2>2. CASE s \notin ToSet(Raw(dat, all[j].seq).entries)
    <3>1. s \in all[j].obsoleteSst /\ s \notin ToSet(all[j].entries)
      BY <1>6, <1>7, <2>2, Zenon DEF RawMentions
    <3>2. \A x \in 1..N : x > j => s \notin Mentions(all[x])
      BY <1>8, Zenon DEF RawMentions, Mentions
    <3>3. s \in ToSet(all[i].entries) \cup all[i].obsoleteEntries
      OBVIOUS
    <3>4. s \in used /\ used \in SUBSET Nat
      <4> HIDE DEF N, used, M
      <4>1. s \in Filters(all)[1].obsolete /\ Filters(all)[1].obsolete \in SUBSET Nat
        BY <1>7, <3>1, <3>2, <3>3, FoundUsed, Zenon DEF N
      <4> QED BY <4>1 DEF used
    <3>5. \A x \in 1..Len(G) : x > j => s \notin G[x].obsoleteSst
      BY <1>3, <3>2, Zenon DEF Mentions
    <3>6. s \in Used(G, used)[j + 1]
      <4> HIDE DEF used
      <4> QED BY <1>3, <1>7, <3>4, <3>5, UsedKeeps, Zenon
    <3>7. s \in G[j].obsoleteSst
      BY <1>3, <1>7, <3>1
    <3> QED BY <3>6, <3>7 DEF Removable
  <2> QED BY <2>1, <2>2
<1>11. G[j] \notin R
  <2> SUFFICES ASSUME G[j] \in R PROVE FALSE
    OBVIOUS
  <2>1. PICK x \in DOMAIN G : Removable(G[x], Used(G, used)[x + 1]) /\ G[x] = G[j]
    BY <1>1 DEF Removed
  <2>2. x = j
    BY <1>3, <1>9, <2>1
  <2> QED BY <1>10, <2>1, <2>2
<1> QED BY <1>6, <1>7, <1>11, <1>1

\* The numbers of the meta files R, and the meta files of all that are kept.
SeqsOf(R) == {m.seq : m \in R}
KeptOf(all) == Without(FilterAll(all), RemovedOf(all))

\* Dropping meta files loses no live SST.
LEMMA Dropped ==
  ASSUME NEW dat, NEW all \in Seq(MetaRec), IsAscending(all), Entire(all, dat),
         Good(FilterAll(all), dat)
  PROVE  /\ Good(KeptOf(all), dat) /\ LiveSsts(KeptOf(all)) = LiveSsts(FilterAll(all))
         /\ SeqsOf(RemovedOf(all)) \subseteq Numbers(all)
         /\ Numbers(KeptOf(all)) = Numbers(all) \ SeqsOf(RemovedOf(all))
         /\ \A n \in SeqsOf(RemovedOf(all)) : ToSet(Raw(dat, n).entries) \subseteq Hides(Numbers(KeptOf(all)), dat, n)
PROOF
<1> DEFINE N == Len(all)
           G == FilterAll(all)
           R == RemovedOf(all)
           kept == KeptOf(all)
<1>1. /\ G = FilterAll(all) /\ R = RemovedOf(all) /\ kept = KeptOf(all)
      /\ R = Removed(G, Filters(all)[1].obsolete) /\ kept = Without(G, R) /\ Good(G, dat)
  BY DEF RemovedOf, KeptOf
<1> HIDE DEF G, R, kept
<1>2. N \in Nat /\ \A x \in 1..N : all[x].seq \in Nat
  BY MetaAt
<1>3. /\ G \in Seq(MetaRec) /\ Len(G) = N
      /\ \A x \in 1..N : G[x].seq = all[x].seq /\ G[x].obsoleteSst = all[x].obsoleteSst
  BY <1>1, FilterAllDef, Zenon
<1>4. Numbers(G) = Numbers(all)
  <2>1. Len(G) = Len(all) /\ \A x \in 1..Len(all) : G[x].seq = all[x].seq
    BY <1>3
  <2> QED BY <2>1 DEF Numbers
<1>5. /\ DOMAIN G = 1..N /\ ToSet(G) = {G[x] : x \in 1..N}
      /\ kept \in Seq(MetaRec) /\ ToSet(kept) = ToSet(G) \ R
  <2>1. kept \in Seq(MetaRec) /\ ToSet(kept) = ToSet(G) \ R
    BY <1>1, <1>3, WithoutType
  <2> QED BY <1>3, <2>1, ToSetOf
<1>6. /\ Len(kept) \in Nat /\ DOMAIN kept = 1..Len(kept) /\ ToSet(kept) = {kept[x] : x \in 1..Len(kept)}
  BY <1>5, ToSetOf, Zenon
<1>7. \A m \in R : \E x \in 1..N : m = G[x] /\ m.entries = <<>>
  BY <1>1, <1>5 DEF Removed, Removable
<1>8. {m.seq : m \in R} \subseteq Numbers(all)
  BY <1>3, <1>7 DEF Numbers
<1>9. \A x, y \in 1..N : G[x].seq = G[y].seq => x = y
  <2> TAKE x \in 1..N, y \in 1..N
  <2>1. all[x].seq = all[y].seq => x = y
    BY AscendingIndex
  <2> QED BY <1>3, <2>1
<1>10. Numbers(kept) = Numbers(all) \ {m.seq : m \in R}
  <2>0. Numbers(kept) = {m.seq : m \in ToSet(kept)}
    <3>1. Numbers(kept) \subseteq {m.seq : m \in ToSet(kept)}
      BY <1>6 DEF Numbers
    <3>2. ASSUME NEW m \in ToSet(kept) PROVE m.seq \in Numbers(kept)
      <4>1. PICK x \in 1..Len(kept) : m = kept[x]
        BY <1>6
      <4> QED BY <4>1 DEF Numbers
    <3> QED BY <3>1, <3>2
  <2>1. Numbers(kept) = {m.seq : m \in ToSet(kept)} /\ Numbers(all) = {m.seq : m \in ToSet(G)}
    <3>1. Numbers(G) \subseteq {m.seq : m \in ToSet(G)}
      BY <1>3, <1>5 DEF Numbers
    <3>2. ASSUME NEW m \in ToSet(G) PROVE m.seq \in Numbers(G)
      <4>1. PICK x \in 1..Len(G) : m = G[x]
        BY <1>3, <1>5
      <4> QED BY <4>1 DEF Numbers
    <3> QED BY <1>4, <2>0, <3>1, <3>2
  <2>2. \A m \in ToSet(G), o \in R : m.seq = o.seq => m = o
    BY <1>5, <1>7, <1>9
  <2> QED BY <1>5, <2>1, <2>2
<1>11. ASSUME NEW x \in 1..N, NEW s \in ToSet(Raw(dat, all[x].seq).entries),
             s \in Hides(Numbers(all), dat, all[x].seq)
      PROVE  s \in Hides(Numbers(kept), dat, all[x].seq)
  <2>1. PICK j \in 1..N : j > x /\ s \in RawMentions(dat, all[j].seq) /\ G[j] \notin R
    BY <1>11, <1>1, DropHidden, Zenon
  <2>2. all[j].seq \in Numbers(kept)
    <3>1. G[j] \in ToSet(kept)
      BY <1>5, <2>1
    <3>2. PICK y \in 1..Len(kept) : kept[y] = G[j]
      BY <1>6, <3>1
    <3>3. kept[y].seq = all[j].seq
      BY <1>3, <2>1, <3>2
    <3> QED BY <3>3 DEF Numbers
  <2>3. all[x].seq < all[j].seq
    BY <2>1 DEF IsAscending
  <2>4. all[j].seq > all[x].seq
    BY <1>2, <2>3
  <2> QED BY <2>1, <2>2, <2>4 DEF Hides
<1>12. \A n : Hides(Numbers(kept), dat, n) \subseteq Hides(Numbers(all), dat, n)
  BY <1>10 DEF Hides
<1>13. ASSUME NEW x \in 1..N
       PROVE  Loaded(Numbers(all), dat, all[x].seq) = Loaded(Numbers(kept), dat, all[x].seq)
  <2> DEFINE e == Raw(dat, all[x].seq).entries
             h == Hides(Numbers(all), dat, all[x].seq)
             k == Hides(Numbers(kept), dat, all[x].seq)
  <2>1. e \in Seq(Nat) /\ ToSet(e) \cap h = ToSet(e) \cap k
    BY <1>11, <1>12, Zenon DEF Entire
  <2> HIDE DEF e, h, k
  <2>2. Without(e, h) = Without(e, k)
    BY <2>1, WithoutSame
  <2> QED BY <2>1, <2>2, Zenon DEF Loaded, e, h, k
<1>14. IsAscending(kept)
  <2> SUFFICES ASSUME NEW i \in 1..Len(kept), NEW j \in 1..Len(kept), i < j
               PROVE  kept[i].seq < kept[j].seq
    BY DEF IsAscending
  <2>1. G \in Seq(MetaRec) /\ i \in 1..Len(Without(G, R)) /\ j \in 1..Len(Without(G, R))
    BY <1>3, <1>1
  <2>2. Ordered(Without(G, R), G)
    BY <2>1, WithoutOrder
  <2>3. PICK c \in 1..Len(G), d \in 1..Len(G) :
           c < d /\ Without(G, R)[i] = G[c] /\ Without(G, R)[j] = G[d]
    BY <2>1, <2>2 DEF Ordered
  <2>4. c \in 1..N /\ d \in 1..N /\ kept[i] = G[c] /\ kept[j] = G[d]
    BY <1>3, <1>1, <2>3
  <2>5. all[c].seq < all[d].seq
    BY <2>3, <2>4 DEF IsAscending
  <2> QED BY <1>3, <2>4, <2>5
<1>15. \A x \in 1..Len(kept) : \E y \in 1..N : kept[x] = G[y]
  <2> TAKE x \in 1..Len(kept)
  <2>1. kept[x] \in ToSet(G)
    BY <1>5, <1>6, Zenon
  <2> QED BY <1>5, <2>1
<1>16. \A y \in 1..N : G[y] = Loaded(Numbers(all), dat, all[y].seq)
  BY <1>3, <1>4, <1>1 DEF Good
<1>17. Good(kept, dat)
  <2> SUFFICES ASSUME NEW x \in 1..Len(kept) PROVE kept[x] = Loaded(Numbers(kept), dat, kept[x].seq)
    BY <1>5, <1>14 DEF Good
  <2>1. PICK y \in 1..N : kept[x] = G[y]
    BY <1>15
  <2> QED BY <1>3, <1>13, <1>16, <2>1
<1>18. LiveSsts(kept) = LiveSsts(G)
  <2>1. IsAscending(G) /\ Numbers(kept) \subseteq Numbers(G)
    BY <1>4, <1>10, <1>1 DEF Good
  <2>2. \A i \in 1..Len(kept), j \in 1..Len(G) : kept[i].seq = G[j].seq => kept[i].entries = G[j].entries
    BY <1>3, <1>9, <1>15
  <2>3. \A j \in 1..Len(G) : G[j].seq \notin Numbers(kept) => G[j].entries = <<>>
    <3> SUFFICES ASSUME NEW j \in 1..N, G[j].seq \notin Numbers(kept) PROVE G[j].entries = <<>>
      BY <1>3
    <3>1. G[j].seq \in Numbers(all)
      BY <1>3 DEF Numbers
    <3>2. PICK m \in R : m.seq = G[j].seq
      BY <1>10, <3>1
    <3>3. PICK y \in 1..N : m = G[y] /\ m.entries = <<>>
      BY <1>7
    <3> QED BY <1>9, <3>2, <3>3
  <2>4. SameEntries(kept, G)
    BY <2>2, <2>3 DEF SameEntries
  <2>5. kept \in Seq(MetaRec) /\ G \in Seq(MetaRec)
    BY <1>3, <1>5
  <2> QED BY <1>14, <2>1, <2>4, <2>5, SameLive
<1>19. ASSUME NEW n \in {m.seq : m \in R}
       PROVE  ToSet(Raw(dat, n).entries) \subseteq Hides(Numbers(kept), dat, n)
  <2>1. PICK m \in R : m.seq = n
    OBVIOUS
  <2>2. PICK y \in 1..N : m = G[y] /\ m.entries = <<>>
    BY <1>7
  <2>3. n = all[y].seq /\ G[y] = Loaded(Numbers(all), dat, n)
    BY <1>3, <1>16, <2>1, <2>2
  <2> DEFINE e == Raw(dat, n).entries
             h == Hides(Numbers(all), dat, n)
  <2>4. e \in Seq(Nat) /\ Without(e, h) = <<>>
    BY <2>2, <2>3 DEF Loaded, Entire
  <2>5. ToSet(e) \ h = {}
    <3> HIDE DEF e, h
    <3>1. ToSet(Without(e, h)) = ToSet(e) \ h
      BY <2>4, WithoutType
    <3>2. <<>> \in Seq(Nat) /\ ToSet(<<>>) = {}
      BY ToSetOf, <<>> \in Seq(Nat)
    <3> QED BY <2>4, <3>1, <3>2
  <2> QED BY <1>11, <2>3, <2>5
<1> QED BY <1>8, <1>10, <1>17, <1>18, <1>19, <1>1 DEF SeqsOf

\* Meta files as they are opened are filtered to what none of them hides.
LEMMA OpenedGood ==
  ASSUME NEW dat, NEW ms \in Seq(MetaRec), IsAscending(ms),
         \A i \in 1..Len(ms) :
           /\ Raw(dat, ms[i].seq).entries \in Seq(Nat)
           /\ ms[i].entries = Raw(dat, ms[i].seq).entries
           /\ ms[i].obsoleteEntries = {}
           /\ ms[i].obsoleteSst = Raw(dat, ms[i].seq).obsolete
  PROVE  Good(FilterAll(ms), dat) /\ Numbers(FilterAll(ms)) = Numbers(ms)
PROOF
<1> DEFINE H == [i \in 1..Len(ms) |-> {}]
<1>1. Trimmed(ms, H, dat)
  <2> SUFFICES ASSUME NEW i \in 1..Len(ms)
               PROVE  /\ Raw(dat, ms[i].seq).entries \in Seq(Nat)
                      /\ ms[i].entries = Without(Raw(dat, ms[i].seq).entries, H[i])
                      /\ ms[i].obsoleteEntries = ToSet(Raw(dat, ms[i].seq).entries) \cap H[i]
                      /\ ms[i].obsoleteSst = Raw(dat, ms[i].seq).obsolete
                      /\ H[i] \subseteq Hides(Numbers(ms), dat, ms[i].seq)
                      /\ \A s \in Hides(Numbers(ms), dat, ms[i].seq) :
                           s \in H[i] \/ \E j \in 1..Len(ms) : j > i /\ s \in Mentions(ms[j])
    BY Zenon DEF Trimmed
  <2> DEFINE e == Raw(dat, ms[i].seq).entries
  <2>1. e \in Seq(Nat) /\ ToSet(e) \cap {} = {}
    OBVIOUS
  <2> HIDE DEF e
  <2>2. Without(e, {}) = e
    BY <2>1, WithoutNothing
  <2>3. \A s : s \in Hides(Numbers(ms), dat, ms[i].seq)
                 <=> \E j \in 1..Len(ms) : j > i /\ s \in RawMentions(dat, ms[j].seq)
    BY HidesAt, Zenon
  <2>4. \A j \in 1..Len(ms) : RawMentions(dat, ms[j].seq) = Mentions(ms[j])
    BY DEF RawMentions, Mentions
  <2> QED BY <2>2, <2>3, <2>4 DEF e
<1> HIDE DEF H
<1> QED BY <1>1, GoodFilter

\* The meta file n as it is opened, before the filter.
Opened(dat, n) ==
  [seq |-> n, entries |-> Raw(dat, n).entries, obsoleteEntries |-> {},
   obsoleteSst |-> Raw(dat, n).obsolete]

\* What Publish makes of the loaded meta files ms and the new one, n.
LEMMA PublishedMetas ==
  ASSUME NEW dat, NEW ms, Good(ms, dat), NEW n \in Nat, \A m \in Numbers(ms) : m < n,
         \A m \in Numbers(ms) \cup {n} : Raw(dat, m).entries \in Seq(Nat),
         Raw(dat, n).obsolete \subseteq Nat,
         NEW all, all = Append(ms, Opened(dat, n))
  PROVE  /\ Good(KeptOf(all), dat)
         /\ SeqsOf(RemovedOf(all)) \subseteq Numbers(ms) \cup {n}
         /\ Numbers(KeptOf(all)) = (Numbers(ms) \cup {n}) \ SeqsOf(RemovedOf(all))
         /\ \A d \in SeqsOf(RemovedOf(all)) : ToSet(Raw(dat, d).entries) \subseteq Hides(Numbers(KeptOf(all)), dat, d)
         /\ LiveSsts(KeptOf(all)) = Without(LiveSsts(ms), RawMentions(dat, n)) \o Raw(dat, n).entries
PROOF
<1> DEFINE M == Len(ms)
           C == Numbers(ms)
           new == Opened(dat, n)
           G == FilterAll(all)
<1>1. ms \in Seq(MetaRec) /\ IsAscending(ms) /\ \A i \in 1..M : ms[i] = Loaded(C, dat, ms[i].seq)
  BY DEF Good
<1>2. M \in Nat /\ \A i \in 1..M : ms[i].seq \in Nat /\ ms[i].seq \in C
  BY <1>1, MetaAt DEF Numbers
<1>3. new \in MetaRec /\ new.seq = n /\ new.entries = Raw(dat, n).entries /\ new.obsoleteEntries = {}
      /\ new.obsoleteSst = Raw(dat, n).obsolete
  BY DEF MetaRec, Opened
<1>4. all = Append(ms, new)
  OBVIOUS
<1> HIDE DEF new
<1>5. /\ all \in Seq(MetaRec) /\ Len(all) = M + 1 /\ all[M + 1] = new
      /\ \A i \in 1..M : all[i] = ms[i]
  BY <1>1, <1>3, <1>4
<1>6. IsAscending(all)
  <2> SUFFICES ASSUME NEW i \in 1..M + 1, NEW j \in 1..M + 1, i < j PROVE all[i].seq < all[j].seq
    BY <1>5 DEF IsAscending
  <2>1. i \in 1..M /\ all[i] = ms[i]
    BY <1>2, <1>5
  <2>2. CASE j = M + 1
    <3>1. ms[i].seq < n
      BY <1>2, <2>1
    <3> QED BY <1>3, <1>5, <2>1, <2>2, <3>1
  <2>3. CASE j # M + 1
    <3>1. j \in 1..M /\ all[j] = ms[j]
      BY <1>2, <1>5, <2>3
    <3> QED BY <1>1, <2>1, <3>1 DEF IsAscending
  <2> QED BY <2>2, <2>3
<1>7. Numbers(all) = C \cup {n}
  <2>1. \A i \in 1..M + 1 : i \in 1..M \/ i = M + 1
    BY <1>2
  <2>2. \A i \in 1..M : i \in 1..M + 1
    BY <1>2
  <2>3. M + 1 \in 1..M + 1
    BY <1>2
  <2>4. Numbers(all) \subseteq C \cup {n}
    BY <1>3, <1>5, <2>1 DEF Numbers
  <2>5. C \subseteq Numbers(all)
    BY <1>5, <2>2 DEF Numbers
  <2>6. n \in Numbers(all)
    BY <1>3, <1>5, <2>3 DEF Numbers
  <2> QED BY <2>4, <2>5, <2>6
<1>8. \A m \in C : Hides(C \cup {n}, dat, m) = Hides(C, dat, m) \cup RawMentions(dat, n)
  <2> TAKE m \in C
  <2>1. m < n /\ n > m
    BY <1>2 DEF Numbers
  <2>2. {x \in C \cup {n} : x > m} = {x \in C : x > m} \cup {n}
    BY <2>1
  <2> QED BY <2>2 DEF Hides
<1>9. Hides(C \cup {n}, dat, n) = {}
  <2>1. \A x \in C \cup {n} : ~ (x > n)
    <3>1. \A x \in C : x \in Nat /\ x < n
      BY <1>2 DEF Numbers
    <3> HIDE DEF C
    <3> QED BY <3>1
  <2> QED BY <2>1 DEF Hides
<1> DEFINE H == [i \in 1..M + 1 |-> IF i = M + 1 THEN {} ELSE Hides(C, dat, ms[i].seq)]
<1>10. Trimmed(all, H, dat)
  <2> SUFFICES ASSUME NEW i \in 1..Len(all)
               PROVE  /\ Raw(dat, all[i].seq).entries \in Seq(Nat)
                      /\ all[i].entries = Without(Raw(dat, all[i].seq).entries, H[i])
                      /\ all[i].obsoleteEntries = ToSet(Raw(dat, all[i].seq).entries) \cap H[i]
                      /\ all[i].obsoleteSst = Raw(dat, all[i].seq).obsolete
                      /\ H[i] \subseteq Hides(Numbers(all), dat, all[i].seq)
                      /\ \A s \in Hides(Numbers(all), dat, all[i].seq) :
                           s \in H[i] \/ \E j \in 1..Len(all) : j > i /\ s \in Mentions(all[j])
    BY Zenon DEF Trimmed
  <2>1. CASE i = M + 1
    <3>1. all[i] = new /\ H[i] = {}
      BY <1>2, <1>5, <2>1
    <3>2. Hides(Numbers(all), dat, all[i].seq) = {}
      BY <1>3, <1>7, <1>9, <3>1, Zenon
    <3> DEFINE e == Raw(dat, n).entries
    <3>3. e \in Seq(Nat) /\ ToSet(e) \cap {} = {}
      OBVIOUS
    <3>4. Without(e, {}) = e
      <4> HIDE DEF e
      <4> QED BY <3>3, WithoutNothing
    <3> HIDE DEF H
    <3> QED BY <1>3, <3>1, <3>2, <3>3, <3>4
  <2>2. CASE i # M + 1
    <3>1. i \in 1..M /\ i \in 1..M + 1 /\ all[i] = ms[i] /\ ms[i].seq \in C
      BY <1>2, <1>5, <2>2
    <3>2. H[i] = Hides(C, dat, ms[i].seq)
      BY <2>2, <3>1
    <3>3. ms[i] = Loaded(C, dat, ms[i].seq)
      BY <1>1, <3>1
    <3>4. Hides(Numbers(all), dat, all[i].seq) = H[i] \cup RawMentions(dat, n)
      BY <1>7, <1>8, <3>1, <3>2, Zenon
    <3>5. RawMentions(dat, n) = Mentions(all[M + 1]) /\ M + 1 > i /\ M + 1 \in 1..Len(all)
      BY <1>2, <1>3, <1>5, <3>1 DEF RawMentions, Mentions
    <3>6. /\ ms[i].entries = Without(Raw(dat, ms[i].seq).entries, H[i])
          /\ ms[i].obsoleteEntries = ToSet(Raw(dat, ms[i].seq).entries) \cap H[i]
          /\ ms[i].obsoleteSst = Raw(dat, ms[i].seq).obsolete
      BY <3>2, <3>3 DEF Loaded
    <3>7. Raw(dat, ms[i].seq).entries \in Seq(Nat)
      BY <3>1
    <3> HIDE DEF H, C
    <3> QED BY <3>1, <3>4, <3>5, <3>6, <3>7
  <2> QED BY <2>1, <2>2, Zenon
<1>11. /\ Good(G, dat) /\ Len(G) = M + 1 /\ (\A i \in 1..M + 1 : G[i].seq = all[i].seq)
       /\ Numbers(G) = C \cup {n}
  <2> HIDE DEF H
  <2>1. /\ Good(FilterAll(all), dat)
        /\ Len(FilterAll(all)) = Len(all) /\ \A i \in 1..Len(all) : FilterAll(all)[i].seq = all[i].seq
        /\ Numbers(FilterAll(all)) = Numbers(all)
    BY <1>5, <1>6, <1>10, GoodFilter, Zenon
  <2> QED BY <1>5, <1>7, <2>1
<1>12. Entire(all, dat)
  <2> SUFFICES ASSUME NEW i \in 1..Len(all)
               PROVE  /\ Raw(dat, all[i].seq).entries \in Seq(Nat)
                      /\ ToSet(all[i].entries) \cup all[i].obsoleteEntries = ToSet(Raw(dat, all[i].seq).entries)
                      /\ all[i].obsoleteSst = Raw(dat, all[i].seq).obsolete
    BY Zenon DEF Entire
  <2>1. ToSet(Without(Raw(dat, all[i].seq).entries, H[i])) = ToSet(Raw(dat, all[i].seq).entries) \ H[i]
    <3> DEFINE e == Raw(dat, all[i].seq).entries
               h == H[i]
    <3>1. e \in Seq(Nat)
      BY <1>10 DEF Trimmed
    <3> HIDE DEF e, h
    <3>2. ToSet(Without(e, h)) = ToSet(e) \ h
      BY <3>1, WithoutType
    <3> QED BY <3>2 DEF e, h
  <2> HIDE DEF H
  <2> QED BY <1>10, <2>1, Zenon DEF Trimmed
<1>13. /\ Good(KeptOf(all), dat) /\ LiveSsts(KeptOf(all)) = LiveSsts(G)
       /\ SeqsOf(RemovedOf(all)) \subseteq Numbers(all)
       /\ Numbers(KeptOf(all)) = Numbers(all) \ SeqsOf(RemovedOf(all))
       /\ \A d \in SeqsOf(RemovedOf(all)) : ToSet(Raw(dat, d).entries) \subseteq Hides(Numbers(KeptOf(all)), dat, d)
  <2> HIDE DEF H
  <2>1. all \in Seq(MetaRec) /\ IsAscending(all) /\ Good(G, dat) /\ Entire(all, dat)
    BY <1>5, <1>6, <1>11, <1>12
  <2> QED BY <2>1, Dropped, Zenon
<1> DEFINE ns == [i \in 1..M |-> G[i]]
<1>14. /\ G \in Seq(MetaRec) /\ (\A i \in 1..M + 1 : G[i] = Loaded(C \cup {n}, dat, all[i].seq))
       /\ ns \in Seq(MetaRec) /\ Len(ns) = M /\ G[M + 1] \in MetaRec /\ G = Append(ns, G[M + 1])
  <2>1. G \in Seq(MetaRec) /\ \A i \in 1..M + 1 : G[i] = Loaded(C \cup {n}, dat, all[i].seq)
    BY <1>11, Zenon DEF Good
  <2>2. \A i \in 1..M : G[i] \in MetaRec
    BY <1>2, <1>11, <2>1
  <2>3. ns \in Seq(MetaRec) /\ Len(ns) = M
    <3>1. M \in Nat /\ ns \in [1..M -> MetaRec]
      BY <1>2, <2>2
    <3> HIDE DEF M, ns
    <3> QED BY <3>1
  <2>4. G[M + 1] \in MetaRec
    BY <1>2, <1>11, <2>1
  <2>5. G = Append(ns, G[M + 1])
    BY <1>2, <1>11, <2>1
  <2> QED BY <2>1, <2>3, <2>4, <2>5, Zenon
<1>15. G[M + 1].entries = Raw(dat, n).entries
  <2> DEFINE e == Raw(dat, n).entries
  <2>1. M + 1 \in 1..M + 1 /\ all[M + 1].seq = n
    BY <1>2, <1>3, <1>5
  <2>5. G[M + 1] = Loaded(C \cup {n}, dat, n)
    BY <1>14, <2>1, Zenon
  <2>2. G[M + 1].entries = Without(e, {}) /\ e \in Seq(Nat) /\ ToSet(e) \cap {} = {}
    <3>1. Loaded(C \cup {n}, dat, n).entries = Without(Raw(dat, n).entries, Hides(C \cup {n}, dat, n))
      BY LoadedIs
    <3>2. Raw(dat, n).entries \in Seq(Nat)
      OBVIOUS
    <3> HIDE DEF C
    <3> QED BY <1>9, <2>5, <3>1, <3>2, Zenon
  <2> HIDE DEF e
  <2>3. Without(e, {}) = e
    BY <2>2, WithoutNothing
  <2> QED BY <2>2, <2>3 DEF e
<1>16. ASSUME NEW i \in 1..M PROVE ns[i].entries = Without(ms[i].entries, RawMentions(dat, n))
  <2> DEFINE e == Raw(dat, ms[i].seq).entries
             h == Hides(C, dat, ms[i].seq)
             k == RawMentions(dat, n)
  <2>1. i \in 1..M + 1 /\ ns[i] = G[i] /\ all[i].seq = ms[i].seq /\ ms[i].seq \in C
    BY <1>2, <1>5
  <2>5. G[i] = Loaded(C \cup {n}, dat, ms[i].seq) /\ ms[i] = Loaded(C, dat, ms[i].seq)
    BY <1>1, <1>14, <2>1, Zenon
  <2>6. Hides(C \cup {n}, dat, ms[i].seq) = h \cup k
    BY <1>8, <2>1, Zenon
  <2>2. ns[i].entries = Without(e, h \cup k)
    <3>1. Loaded(C \cup {n}, dat, ms[i].seq).entries
            = Without(Raw(dat, ms[i].seq).entries, Hides(C \cup {n}, dat, ms[i].seq))
      BY LoadedIs
    <3> HIDE DEF C, ns
    <3> QED BY <2>1, <2>5, <2>6, <3>1, Zenon
  <2>3. ms[i].entries = Without(e, h)
    BY <2>5, LoadedIs
  <2>7. e \in Seq(Nat)
    BY <2>1
  <2> HIDE DEF e, h, k
  <2>4. Without(Without(e, h), k) = Without(e, h \cup k)
    BY <2>7, WithoutTwice
  <2> QED BY <2>2, <2>3, <2>4 DEF k
<1> HIDE DEF ns
<1>17. LiveSsts(ns) = Without(LiveSsts(ms), RawMentions(dat, n))
  BY <1>1, <1>14, <1>16, LiveWithout
<1>18. LiveSsts(Append(ns, G[M + 1])) = LiveSsts(ns) \o G[M + 1].entries
  BY <1>14, LiveAppend, Zenon
<1> QED BY <1>7, <1>13, <1>14, <1>15, <1>17, <1>18, Zenon

-----------------------------------------------------------------------------
(* Lookups.                                                                *)

\* The position i of L is where the newest entry of the key k is.
IsHit(L, k, dir, i) ==
  /\ i \in 1..Len(L) /\ SstEntry(L[i], k, dir) # Absent
  /\ \A j \in 1..Len(L) : j > i => SstEntry(L[j], k, dir) = Absent
NoHit(L, k, dir) == \A i \in 1..Len(L) : SstEntry(L[i], k, dir) = Absent

\* A lookup finds the entry at the last place that has one, or nothing.
LEMMA NewestIs ==
  ASSUME NEW L \in Seq(Nat), NEW k, NEW dir
  PROVE  /\ NoHit(L, k, dir) => Newest(L, k, dir) = Absent
         /\ \A i : IsHit(L, k, dir, i) => Newest(L, k, dir) = SstEntry(L[i], k, dir)
         /\ NoHit(L, k, dir) \/ \E i : IsHit(L, k, dir, i)
PROOF
<1> DEFINE e(i) == SstEntry(L[i], k, dir)
           hits == {i \in DOMAIN L : e(i) # Absent}
<1>1. Len(L) \in Nat /\ DOMAIN L = 1..Len(L)
  OBVIOUS
<1>2. Newest(L, k, dir) = IF hits = {} THEN Absent ELSE e(CHOOSE i \in hits : \A j \in hits : j <= i)
  BY DEF Newest
<1> HIDE DEF e
<1>3. hits = {} <=> NoHit(L, k, dir)
  BY <1>1 DEF NoHit, e
<1>4. ASSUME NEW i, IsHit(L, k, dir, i) PROVE Newest(L, k, dir) = SstEntry(L[i], k, dir)
  <2>1. i \in hits /\ \A j \in hits : j <= i
    BY <1>1, <1>4 DEF IsHit, e
  <2>2. \A m \in hits : (\A j \in hits : j <= m) => m = i
    BY <1>1, <2>1
  <2>3. (CHOOSE m \in hits : \A j \in hits : j <= m) = i
    <3> HIDE DEF hits
    <3> QED BY <2>1, <2>2
  <2> QED BY <1>2, <2>1, <2>3, Zenon DEF e
<1>5. NoHit(L, k, dir) \/ \E i : IsHit(L, k, dir, i)
  <2> SUFFICES ASSUME hits # {} PROVE \E i : IsHit(L, k, dir, i)
    BY <1>3
  <2>1. \A i \in hits : i \in 0..Len(L)
    BY <1>1
  <2>2. PICK i \in hits : \A j \in hits : j <= i
    <3> HIDE DEF hits
    <3> QED BY <1>1, <2>1, LargestElement, Zenon
  <2>3. \A j \in 1..Len(L) : j > i => e(j) = Absent
    BY <1>1, <2>2
  <2> QED BY <1>1, <2>2, <2>3, Zenon DEF IsHit, e
<1> QED BY <1>2, <1>3, <1>4, <1>5, Zenon

\* Lookups in directories that have the same SSTs give the same.
LEMMA NewestAgree ==
  ASSUME NEW L \in Seq(Nat), NEW k, NEW dir, NEW dor,
         \A i \in 1..Len(L) : SstEntry(L[i], k, dir) = SstEntry(L[i], k, dor)
  PROVE  Newest(L, k, dir) = Newest(L, k, dor)
PROOF
<1>1. NoHit(L, k, dir) <=> NoHit(L, k, dor)
  BY DEF NoHit
<1>2. \A i : IsHit(L, k, dir, i) => IsHit(L, k, dor, i)
  BY DEF IsHit
<1>3. CASE NoHit(L, k, dir)
  BY <1>1, <1>3, NewestIs
<1>4. CASE ~ NoHit(L, k, dir)
  <2>1. PICK i : IsHit(L, k, dir, i)
    BY <1>4, NewestIs
  <2>2. Newest(L, k, dir) = SstEntry(L[i], k, dir) /\ Newest(L, k, dor) = SstEntry(L[i], k, dor)
    BY <1>2, <2>1, NewestIs
  <2> QED BY <2>1, <2>2 DEF IsHit
<1> QED BY <1>3, <1>4

\* A lookup in L \o M looks in M first.
LEMMA NewestConcat ==
  ASSUME NEW L \in Seq(Nat), NEW M \in Seq(Nat), NEW k, NEW dir
  PROVE  Newest(L \o M, k, dir) = IF NoHit(M, k, dir) THEN Newest(L, k, dir) ELSE Newest(M, k, dir)
PROOF
<1> DEFINE B == L \o M
<1>1. /\ B \in Seq(Nat) /\ Len(B) = Len(L) + Len(M) /\ Len(L) \in Nat /\ Len(M) \in Nat
      /\ \A i \in 1..Len(B) : B[i] = IF i <= Len(L) THEN L[i] ELSE M[i - Len(L)]
  BY ConcatProperties
<1>2. (\A i \in 1..Len(L) : i \in 1..Len(B) /\ B[i] = L[i])
      /\ (\A i \in 1..Len(M) : i + Len(L) \in 1..Len(B) /\ B[i + Len(L)] = M[i])
      /\ (\A i \in 1..Len(B) : i > Len(L) => i - Len(L) \in 1..Len(M) /\ B[i] = M[i - Len(L)])
  BY <1>1
<1> HIDE DEF B
<1>3. CASE ~ NoHit(M, k, dir)
  <2>1. PICK i : IsHit(M, k, dir, i)
    BY <1>3, NewestIs
  <2>2. i \in 1..Len(M) /\ SstEntry(M[i], k, dir) # Absent
        /\ \A j \in 1..Len(M) : j > i => SstEntry(M[j], k, dir) = Absent
    BY <2>1 DEF IsHit
  <2>3. \A j \in 1..Len(B) : j > i + Len(L) => j > Len(L) /\ j - Len(L) > i
    <3>1. i \in Nat /\ Len(L) \in Nat /\ Len(B) \in Nat
      BY <1>1, <2>2
    <3> QED BY <3>1
  <2>4. IsHit(B, k, dir, i + Len(L))
    BY <1>2, <2>2, <2>3 DEF IsHit
  <2>5. Newest(B, k, dir) = SstEntry(B[i + Len(L)], k, dir) /\ Newest(M, k, dir) = SstEntry(M[i], k, dir)
    BY <1>1, <2>1, <2>4, NewestIs
  <2> QED BY <1>2, <1>3, <2>2, <2>5 DEF B
<1>4. CASE NoHit(M, k, dir)
  <2>1. CASE NoHit(L, k, dir)
    <3>1. NoHit(B, k, dir)
      <4>1. \A i \in 1..Len(B) : i > Len(L) \/ i \in 1..Len(L)
        BY <1>1
      <4> QED BY <1>2, <1>4, <2>1, <4>1 DEF NoHit
    <3> QED BY <1>1, <1>4, <2>1, <3>1, NewestIs, Zenon DEF B
  <2>2. CASE ~ NoHit(L, k, dir)
    <3>1. PICK i : IsHit(L, k, dir, i)
      BY <2>2, NewestIs
    <3>2. i \in 1..Len(L) /\ SstEntry(L[i], k, dir) # Absent
          /\ \A j \in 1..Len(L) : j > i => SstEntry(L[j], k, dir) = Absent
      BY <3>1 DEF IsHit
    <3>3. \A j \in 1..Len(B) : j > i => SstEntry(B[j], k, dir) = Absent
      <4> SUFFICES ASSUME NEW j \in 1..Len(B), j > i PROVE SstEntry(B[j], k, dir) = Absent
        OBVIOUS
      <4>1. CASE j > Len(L)
        BY <1>2, <1>4, <4>1 DEF NoHit
      <4>2. CASE ~ (j > Len(L))
        <5>1. j \in 1..Len(L)
          BY <1>1, <4>2
        <5> QED BY <1>2, <3>2, <5>1
      <4> QED BY <4>1, <4>2
    <3>4. IsHit(B, k, dir, i)
      BY <1>2, <3>2, <3>3 DEF IsHit
    <3>5. Newest(B, k, dir) = SstEntry(B[i], k, dir) /\ Newest(L, k, dir) = SstEntry(L[i], k, dir)
      BY <1>1, <3>1, <3>4, NewestIs, SMTT(30)
    <3> QED BY <1>2, <1>4, <3>2, <3>5 DEF B
  <2> QED BY <2>1, <2>2
<1> QED BY <1>3, <1>4

-----------------------------------------------------------------------------
(* A complete state of the directory.                                      *)

\* What the meta files ms need: themselves, the SSTs and the blobs a lookup
\* may follow.
BlobRefs(L, dat) ==
  {b \in Nat : \E s \in ToSet(L), k \in Keys : dat[<<"sst", s>>][k] = <<"blob", b>>}
Needed(ms, dat) == Numbers(ms) \cup ToSet(LiveSsts(ms)) \cup BlobRefs(LiveSsts(ms), dat)
\* The contents a reader finds in the SSTs L.
ContentOf(L, dir) == [k \in Keys |-> Visible(Newest(L, k, dir))]

\* The SSTs L are different ones and are all among the files fs with the blobs
\* they refer to, no blob is referred to twice.
Table == [Keys -> {"absent", "val", "blob", "deleted"} \X Nat]
Tables(L, fs, dat) ==
  /\ L \in Seq(Nat)
  /\ \A i, j \in 1..Len(L) : L[i] = L[j] => i = j
  /\ \A s \in ToSet(L) : <<"sst", s>> \in fs /\ dat[<<"sst", s>>] \in Table
  /\ \A b \in BlobRefs(L, dat) : <<"blob", b>> \in fs
  /\ \A s \in ToSet(L), t \in ToSet(L), k \in Keys, l \in Keys :
       dat[<<"sst", s>>][k] = dat[<<"sst", t>>][l] /\ dat[<<"sst", s>>][k][1] = "blob" => s = t /\ k = l

\* The meta files ms are there for sure; any other one up to c may be found or not
\* and brings nothing new: what it lists is hidden, and it declares nothing
\* obsolete that is used.
MetasOK(ms, c, dk, st, dat) ==
  /\ Good(ms, dat)
  /\ \A n \in Numbers(ms) : <<"meta", n>> \in dk \cap st
  /\ \A n \in 1..c : <<"meta", n>> \in dk \cup st =>
       /\ Raw(dat, n).entries \in Seq(Nat) /\ Raw(dat, n).obsolete \subseteq 1..n
       /\ Raw(dat, n).obsolete \cap ToSet(LiveSsts(ms)) = {}
       /\ n \notin Numbers(ms) => ToSet(Raw(dat, n).entries) \subseteq Hides(Numbers(ms), dat, n)
\* The .del files of fs up to c list older files only, and none of the numbers N.
Spare(N, c, fs, dat) ==
  \A d \in 1..c : <<"del", d>> \in fs => dat[<<"del", d>>] \subseteq 1..d /\ dat[<<"del", d>>] \cap N = {}
\* No .del file lists what the meta files ms need.
DelsOK(ms, c, dk, st, dat) == Spare(Needed(ms, dat), c, dk \cup st, dat)
\* No sequence number up to c is used twice.
OneKind(c, fs) ==
  \A n \in 1..c, k, l \in Kinds : <<k, n>> \in fs /\ <<l, n>> \in fs => k = l

\* The state c of the directory, with the contents v, is complete: the meta
\* files ms, and all they need, are in dk and in st, and nothing else in one of
\* them can disturb it.
Core(ms, c, v, dk, st, dat) ==
  /\ c \in 0..MaxSeq /\ Needed(ms, dat) \subseteq 1..c
  /\ MetasOK(ms, c, dk, st, dat)
  /\ Tables(LiveSsts(ms), dk \cap st, dat)
  /\ DelsOK(ms, c, dk, st, dat)
  /\ OneKind(c, dk \cup st)
  /\ ContentOf(LiveSsts(ms), dat) = v

\* The files dk2 and st2 with contents dat2 bring no file of the kinds K to the
\* numbers up to c that dk and st with dat do not have.
Frame(K, c, dk, st, dat, dk2, st2, dat2) ==
  \A k \in K, n \in 1..c : <<k, n>> \in dk2 \cup st2 =>
    <<k, n>> \in dk \cup st /\ dat2[<<k, n>>] = dat[<<k, n>>]
\* The files fs have all the meta files ms need.
HasNeeded(ms, dat, fs) ==
  /\ \A n \in Numbers(ms) : <<"meta", n>> \in fs
  /\ \A s \in ToSet(LiveSsts(ms)) : <<"sst", s>> \in fs
  /\ \A b \in BlobRefs(LiveSsts(ms), dat) : <<"blob", b>> \in fs

\* An SST that is there is read.
LEMMA InTable ==
  ASSUME NEW L, NEW fs, NEW dat, Tables(L, fs, dat), fs \subseteq DOMAIN dat, NEW s \in ToSet(L), NEW k
  PROVE  SstEntry(s, k, dat) = dat[<<"sst", s>>][k]
PROOF
  BY DEF Tables, SstEntry

\* SSTs whose files are the same in two directories have the same blobs and
\* contents.
LEMMA TablesAgree ==
  ASSUME NEW L, NEW fs, NEW gs, NEW dat, NEW dat2, Tables(L, fs, dat),
         fs \subseteq DOMAIN dat, gs \subseteq DOMAIN dat2,
         \A s \in ToSet(L) : <<"sst", s>> \in gs /\ dat2[<<"sst", s>>] = dat[<<"sst", s>>],
         \A b \in BlobRefs(L, dat) : <<"blob", b>> \in gs
  PROVE  BlobRefs(L, dat2) = BlobRefs(L, dat) /\ Tables(L, gs, dat2) /\ ContentOf(L, dat2) = ContentOf(L, dat)
PROOF
<1>1. BlobRefs(L, dat2) = BlobRefs(L, dat)
  BY Zenon DEF BlobRefs
<1>2. Tables(L, gs, dat2)
  <2>1. \A s \in ToSet(L) : dat2[<<"sst", s>>] \in Table
    BY Zenon DEF Tables
  <2>2. \A s \in ToSet(L), t \in ToSet(L), k \in Keys, l \in Keys :
          dat2[<<"sst", s>>][k] = dat2[<<"sst", t>>][l] /\ dat2[<<"sst", s>>][k][1] = "blob" => s = t /\ k = l
    <3> TAKE s \in ToSet(L), t \in ToSet(L), k \in Keys, l \in Keys
    <3>1. dat2[<<"sst", s>>] = dat[<<"sst", s>>] /\ dat2[<<"sst", t>>] = dat[<<"sst", t>>]
      OBVIOUS
    <3>2. dat[<<"sst", s>>][k] = dat[<<"sst", t>>][l] /\ dat[<<"sst", s>>][k][1] = "blob" => s = t /\ k = l
      BY DEF Tables
    <3> QED BY <3>1, <3>2
  <2> QED BY <1>1, <2>1, <2>2 DEF Tables
<1>3. ASSUME NEW k \in Keys PROVE Newest(L, k, dat2) = Newest(L, k, dat)
  <2>1. L \in Seq(Nat)
    BY DEF Tables
  <2>2. \A i \in 1..Len(L) : L[i] \in ToSet(L)
    BY <2>1, ToSetOf
  <2>3. \A s \in ToSet(L) : SstEntry(s, k, dat2) = SstEntry(s, k, dat)
    <3> TAKE s \in ToSet(L)
    <3>1. SstEntry(s, k, dat2) = dat2[<<"sst", s>>][k]
      BY <1>2, InTable
    <3>2. SstEntry(s, k, dat) = dat[<<"sst", s>>][k]
      BY InTable
    <3> QED BY <3>1, <3>2
  <2> QED BY <2>1, <2>2, <2>3, NewestAgree
<1> QED BY <1>1, <1>2, <1>3 DEF ContentOf

\* A complete state stays one as long as all it needs is there, and nothing but
\* harmless .del files is new.
LEMMA CoreChange ==
  ASSUME NEW ms, NEW c, NEW v, NEW dk, NEW st, NEW dat, NEW dk2, NEW st2, NEW dat2,
         Core(ms, c, v, dk, st, dat), dk \cup st \subseteq DOMAIN dat, dk2 \cup st2 \subseteq DOMAIN dat2,
         HasNeeded(ms, dat, dk2 \cap st2), Frame(Kinds \ {"del"}, c, dk, st, dat, dk2, st2, dat2),
         Spare(Needed(ms, dat), c, dk2 \cup st2, dat2), OneKind(c, dk2 \cup st2)
  PROVE  Core(ms, c, v, dk2, st2, dat2)
PROOF
<1> DEFINE L == LiveSsts(ms)
           C == Numbers(ms)
<1>1. /\ c \in 0..MaxSeq /\ C \cup ToSet(L) \cup BlobRefs(L, dat) \subseteq 1..c
      /\ MetasOK(ms, c, dk, st, dat) /\ Tables(L, dk \cap st, dat) /\ DelsOK(ms, c, dk, st, dat)
      /\ OneKind(c, dk \cup st) /\ ContentOf(L, dat) = v
  BY DEF Core, Needed
<1>2. \A n \in 1..c : <<"meta", n>> \in dk2 \cup st2 =>
        <<"meta", n>> \in dk \cup st /\ Raw(dat2, n) = Raw(dat, n)
  BY DEF Frame, Kinds, Raw
<1>3. \A n \in C : Raw(dat2, n) = Raw(dat, n)
  BY <1>1, <1>2, Zenon DEF HasNeeded
<1>4. \A n : Hides(C, dat2, n) = Hides(C, dat, n)
  BY <1>3 DEF Hides, RawMentions
<1>5. Good(ms, dat2)
  <2>1. \A i \in 1..Len(ms) : ms[i].seq \in C
    BY DEF Numbers
  <2>2. \A i \in 1..Len(ms) : Loaded(C, dat2, ms[i].seq) = Loaded(C, dat, ms[i].seq)
    BY <1>3, <1>4, <2>1, Zenon DEF Loaded
  <2> QED BY <1>1, <2>2 DEF MetasOK, Good
<1>6. /\ BlobRefs(L, dat2) = BlobRefs(L, dat) /\ Tables(L, dk2 \cap st2, dat2)
      /\ ContentOf(L, dat2) = ContentOf(L, dat)
  <2>1. \A s \in ToSet(L) : <<"sst", s>> \in dk2 \cap st2 /\ dat2[<<"sst", s>>] = dat[<<"sst", s>>]
    BY <1>1, Zenon DEF HasNeeded, Frame, Kinds
  <2>2. \A b \in BlobRefs(L, dat) : <<"blob", b>> \in dk2 \cap st2
    BY Zenon DEF HasNeeded
  <2>3. dk \cap st \subseteq DOMAIN dat /\ dk2 \cap st2 \subseteq DOMAIN dat2
    OBVIOUS
  <2> HIDE DEF L
  <2> QED BY <1>1, <2>1, <2>2, <2>3, TablesAgree
<1>7. Needed(ms, dat2) = Needed(ms, dat)
  BY <1>6 DEF Needed
<1>8. MetasOK(ms, c, dk2, st2, dat2)
  <2>1. \A n \in C : <<"meta", n>> \in dk2 \cap st2
    BY Zenon DEF HasNeeded
  <2>2. ASSUME NEW n \in 1..c, <<"meta", n>> \in dk2 \cup st2
        PROVE  /\ Raw(dat2, n).entries \in Seq(Nat) /\ Raw(dat2, n).obsolete \subseteq 1..n
               /\ Raw(dat2, n).obsolete \cap ToSet(L) = {}
               /\ n \notin C => ToSet(Raw(dat2, n).entries) \subseteq Hides(C, dat2, n)
    <3>1. <<"meta", n>> \in dk \cup st /\ Raw(dat2, n) = Raw(dat, n)
      BY <1>2, <2>2
    <3>2. /\ Raw(dat, n).entries \in Seq(Nat) /\ Raw(dat, n).obsolete \subseteq 1..n
          /\ Raw(dat, n).obsolete \cap ToSet(L) = {}
          /\ n \notin C => ToSet(Raw(dat, n).entries) \subseteq Hides(C, dat, n)
      BY <1>1, <3>1 DEF MetasOK
    <3> QED BY <1>4, <3>1, <3>2
  <2> QED BY <1>5, <2>1, <2>2 DEF MetasOK
<1>9. DelsOK(ms, c, dk2, st2, dat2)
  BY <1>7 DEF DelsOK
<1> QED BY <1>1, <1>6, <1>7, <1>8, <1>9 DEF Core, Needed

\* The same when no file of any kind is new up to the sequence number of the
\* state.
LEMMA CoreFrame ==
  ASSUME NEW ms, NEW c, NEW v, NEW dk, NEW st, NEW dat, NEW dk2, NEW st2, NEW dat2,
         Core(ms, c, v, dk, st, dat), dk \cup st \subseteq DOMAIN dat, dk2 \cup st2 \subseteq DOMAIN dat2,
         HasNeeded(ms, dat, dk2 \cap st2), Frame(Kinds, c, dk, st, dat, dk2, st2, dat2)
  PROVE  Core(ms, c, v, dk2, st2, dat2)
PROOF
<1>1. DelsOK(ms, c, dk, st, dat) /\ OneKind(c, dk \cup st)
  BY DEF Core
<1>2. Frame(Kinds \ {"del"}, c, dk, st, dat, dk2, st2, dat2)
  BY DEF Frame
<1>3. \A d \in 1..c : <<"del", d>> \in dk2 \cup st2 =>
        <<"del", d>> \in dk \cup st /\ dat2[<<"del", d>>] = dat[<<"del", d>>]
  BY DEF Frame, Kinds
<1>4. Spare(Needed(ms, dat), c, dk2 \cup st2, dat2)
  BY <1>1, <1>3, Zenon DEF DelsOK, Spare
<1>5. OneKind(c, dk2 \cup st2)
  BY <1>1 DEF OneKind, Frame
<1> QED BY <1>2, <1>4, <1>5, CoreChange

\* A complete state has the files it needs.
LEMMA CoreHas ==
  ASSUME NEW ms, NEW c, NEW v, NEW dk, NEW st, NEW dat, Core(ms, c, v, dk, st, dat)
  PROVE  HasNeeded(ms, dat, dk \cap st)
PROOF
  BY DEF Core, HasNeeded, MetasOK, Tables

\* What the directory state Core(...) says of lookups in it.
LEMMA CoreLookups ==
  ASSUME NEW ms, NEW c, NEW v, NEW dk, NEW st, NEW dat, Core(ms, c, v, dk, st, dat), dk \cup st \subseteq DOMAIN dat,
         NEW dir, dir = [f \in dk |-> dat[f]]
  PROVE  /\ Content(ms, dir) = v
         /\ \A s \in ToSet(LiveSsts(ms)) : <<"sst", s>> \in dk
         /\ \A k \in Keys : LET e == Newest(LiveSsts(ms), k, dir)
                            IN e[1] = "blob" => <<"blob", e[2]>> \in dk
PROOF
<1> DEFINE L == LiveSsts(ms)
           fs == dk \cap st
<1>1. Tables(L, fs, dat) /\ ContentOf(L, dat) = v
  BY DEF Core
<1>2. fs \subseteq DOMAIN dat /\ dk \subseteq DOMAIN dir /\ DOMAIN dir = dk
      /\ \A f \in dk : dir[f] = dat[f]
  OBVIOUS
<1> HIDE DEF L
<1>3. \A s \in ToSet(L) : <<"sst", s>> \in dk /\ dir[<<"sst", s>>] = dat[<<"sst", s>>]
  BY <1>1, <1>2, Zenon DEF Tables
<1>4. \A b \in BlobRefs(L, dat) : <<"blob", b>> \in dk
  BY <1>1, Zenon DEF Tables
<1>5. BlobRefs(L, dir) = BlobRefs(L, dat) /\ Tables(L, dk, dir) /\ ContentOf(L, dir) = ContentOf(L, dat)
  BY <1>1, <1>2, <1>3, <1>4, TablesAgree
<1>6. ASSUME NEW k \in Keys, Newest(L, k, dir)[1] = "blob" PROVE <<"blob", Newest(L, k, dir)[2]>> \in dk
  <2>1. L \in Seq(Nat)
    BY <1>1 DEF Tables
  <2>2. ~ NoHit(L, k, dir)
    <3> SUFFICES ASSUME NoHit(L, k, dir) PROVE FALSE
      OBVIOUS
    <3>1. Newest(L, k, dir) = Absent
      BY <2>1, NewestIs
    <3> QED BY <1>6, <3>1 DEF Absent
  <2>3. PICK i : IsHit(L, k, dir, i)
    BY <2>1, <2>2, NewestIs, Zenon
  <2>4. Newest(L, k, dir) = SstEntry(L[i], k, dir) /\ i \in 1..Len(L)
    BY <2>1, <2>3, NewestIs, Zenon DEF IsHit
  <2>5. L[i] \in ToSet(L)
    BY <2>1, <2>4, ToSetOf
  <2>6. SstEntry(L[i], k, dir) = dir[<<"sst", L[i]>>][k]
    BY <1>2, <1>5, <2>5, InTable
  <2> DEFINE e == dir[<<"sst", L[i]>>][k]
  <2>7. e \in {"absent", "val", "blob", "deleted"} \X Nat
    <3>1. dir[<<"sst", L[i]>>] \in Table
      BY <1>5, <2>5 DEF Tables
    <3> QED BY <3>1 DEF Table
  <2>8. e[1] = "blob"
    BY <1>6, <2>4, <2>6
  <2>9. e = <<"blob", e[2]>> /\ e[2] \in Nat
    BY <2>7, <2>8
  <2>10. e[2] \in BlobRefs(L, dir)
    BY <2>5, <2>9, Zenon DEF BlobRefs
  <2> QED BY <1>4, <1>5, <2>4, <2>6, <2>10
<1> QED BY <1>1, <1>3, <1>5, <1>6 DEF L, Content, ContentOf

\* Loading superseded meta files, too, changes nothing: none of their SSTs is
\* live, and none they declare obsolete is.
LEMMA MoreMetas ==
  ASSUME NEW ms, NEW c, NEW v, NEW dk, NEW st, NEW dat, Core(ms, c, v, dk, st, dat),
         NEW ns, Good(ns, dat), Numbers(ms) \subseteq Numbers(ns), Numbers(ns) \subseteq 1..c,
         \A n \in Numbers(ns) : <<"meta", n>> \in dk \cap st,
         \A d \in 1..c : <<"del", d>> \in dk \cup st => dat[<<"del", d>>] \cap Numbers(ns) = {}
  PROVE  Core(ns, c, v, dk, st, dat) /\ LiveSsts(ns) = LiveSsts(ms)
PROOF
<1> DEFINE L == LiveSsts(ms)
           C == Numbers(ms)
           D == Numbers(ns)
<1>1. /\ c \in 0..MaxSeq /\ C \cup ToSet(L) \cup BlobRefs(L, dat) \subseteq 1..c
      /\ MetasOK(ms, c, dk, st, dat) /\ Tables(L, dk \cap st, dat) /\ DelsOK(ms, c, dk, st, dat)
      /\ OneKind(c, dk \cup st) /\ ContentOf(L, dat) = v
  BY DEF Core, Needed
<1>2. /\ ms \in Seq(MetaRec) /\ IsAscending(ms) /\ \A i \in 1..Len(ms) : ms[i] = Loaded(C, dat, ms[i].seq)
  BY <1>1 DEF MetasOK, Good
<1>3. /\ ns \in Seq(MetaRec) /\ IsAscending(ns) /\ \A i \in 1..Len(ns) : ns[i] = Loaded(D, dat, ns[i].seq)
  BY DEF Good
<1>4. (\A i \in 1..Len(ms) : ms[i].seq \in C) /\ \A i \in 1..Len(ns) : ns[i].seq \in D
  BY DEF Numbers
<1>5. \A n \in 1..c : <<"meta", n>> \in dk \cup st =>
        /\ Raw(dat, n).entries \in Seq(Nat) /\ Raw(dat, n).obsolete \subseteq 1..n
        /\ Raw(dat, n).obsolete \cap ToSet(L) = {}
        /\ n \notin C => ToSet(Raw(dat, n).entries) \subseteq Hides(C, dat, n)
  BY <1>1 DEF MetasOK
<1>6. \A n \in D : /\ Raw(dat, n).entries \in Seq(Nat) /\ Raw(dat, n).obsolete \cap ToSet(L) = {}
                   /\ n \notin C => ToSet(Raw(dat, n).entries) \subseteq Hides(C, dat, n)
  BY <1>5, Zenon
<1>7. \A n : Hides(C, dat, n) \subseteq Hides(D, dat, n)
  BY DEF Hides
<1>8. \A n, d \in D : d > n => Hides(C, dat, d) \subseteq Hides(C, dat, n)
  <2> TAKE n \in D, d \in D
  <2> HAVE d > n
  <2>1. \A x \in C : x > d => x > n
    BY <1>1
  <2> QED BY <2>1 DEF Hides
<1>9. \A s \in ToSet(L) : \A n \in D : s \notin Raw(dat, n).obsolete
  BY <1>6
<1>10. ASSUME NEW i \in 1..Len(ms), NEW s \in ToSet(Raw(dat, ms[i].seq).entries),
              s \in Hides(D, dat, ms[i].seq)
       PROVE  s \in Hides(C, dat, ms[i].seq)
  <2> DEFINE n == ms[i].seq
             e == Raw(dat, n).entries
             h == Hides(C, dat, n)
  <2>1. n \in C /\ n \in D
    BY <1>4
  <2>2. PICK d \in D : d > n /\ s \in RawMentions(dat, d)
    BY <1>10 DEF Hides
  <2>3. CASE d \in C
    BY <2>2, <2>3 DEF Hides
  <2>4. CASE d \notin C /\ s \in ToSet(Raw(dat, d).entries)
    BY <1>6, <1>8, <2>1, <2>2, <2>4
  <2>5. CASE s \in Raw(dat, d).obsolete
    <3> SUFFICES ASSUME s \notin h PROVE FALSE
      OBVIOUS
    <3>1. ms[i].entries = Without(e, h)
      BY <1>2, LoadedIs
    <3>2. e \in Seq(Nat)
      BY <1>6, <2>1
    <3>3. ToSet(Without(e, h)) = ToSet(e) \ h
      <4> HIDE DEF e, h
      <4> QED BY <3>2, WithoutType
    <3>4. s \in ToSet(ms[i].entries)
      BY <3>1, <3>3
    <3>5. ToSet(L) = UNION {ToSet(ms[x].entries) : x \in 1..Len(ms)}
      BY <1>2, LiveElements
    <3>6. s \in ToSet(L)
      BY <3>4, <3>5
    <3> QED BY <1>9, <2>5, <3>6
  <2> QED BY <2>2, <2>3, <2>4, <2>5 DEF RawMentions
<1>11. ASSUME NEW i \in 1..Len(ms), NEW j \in 1..Len(ns), ms[i].seq = ns[j].seq
       PROVE  ms[i].entries = ns[j].entries
  <2> DEFINE e == Raw(dat, ms[i].seq).entries
             h == Hides(C, dat, ms[i].seq)
             k == Hides(D, dat, ms[i].seq)
  <2>1. ms[i].entries = Without(e, h) /\ ns[j].entries = Without(e, k)
    <3>1. ms[i] = Loaded(C, dat, ms[i].seq) /\ ns[j] = Loaded(D, dat, ms[i].seq)
      BY <1>2, <1>3, <1>11
    <3> QED BY <3>1, LoadedIs
  <2>2. e \in Seq(Nat)
    BY <1>4, <1>6
  <2>3. ToSet(e) \cap h = ToSet(e) \cap k
    BY <1>7, <1>10
  <2> HIDE DEF e, h, k
  <2>4. Without(e, h) = Without(e, k)
    BY <2>2, <2>3, WithoutSame
  <2> QED BY <2>1, <2>4
<1>12. ASSUME NEW j \in 1..Len(ns), ns[j].seq \notin C PROVE ns[j].entries = <<>>
  <2> DEFINE e == Raw(dat, ns[j].seq).entries
             k == Hides(D, dat, ns[j].seq)
  <2>1. ns[j].entries = Without(e, k)
    BY <1>3, LoadedIs
  <2>2. e \in Seq(Nat)
    BY <1>4, <1>6
  <2>3. ToSet(e) \subseteq k
    BY <1>4, <1>6, <1>7, <1>12
  <2> HIDE DEF e, k
  <2>4. Without(e, k) = <<>>
    BY <2>2, <2>3, WithoutAll
  <2> QED BY <2>1, <2>4
<1>13. LiveSsts(ns) = L
  <2>1. SameEntries(ms, ns)
    BY <1>11, <1>12 DEF SameEntries
  <2> QED BY <1>2, <1>3, <2>1, SameLive
<1>14. MetasOK(ns, c, dk, st, dat)
  <2>1. \A n \in 1..c : <<"meta", n>> \in dk \cup st /\ n \notin D =>
          ToSet(Raw(dat, n).entries) \subseteq Hides(D, dat, n)
    BY <1>5, <1>7
  <2> QED BY <1>5, <1>13, <2>1 DEF MetasOK
<1>15. /\ Needed(ms, dat) = C \cup ToSet(L) \cup BlobRefs(L, dat)
       /\ Needed(ns, dat) = D \cup ToSet(L) \cup BlobRefs(L, dat)
  BY <1>13 DEF Needed
<1>16. DelsOK(ns, c, dk, st, dat)
  <2> SUFFICES ASSUME NEW d \in 1..c, <<"del", d>> \in dk \cup st
               PROVE  dat[<<"del", d>>] \subseteq 1..d /\ dat[<<"del", d>>] \cap Needed(ns, dat) = {}
    BY Zenon DEF DelsOK, Spare
  <2>1. dat[<<"del", d>>] \subseteq 1..d /\ dat[<<"del", d>>] \cap Needed(ms, dat) = {}
    BY <1>1 DEF DelsOK, Spare
  <2>2. dat[<<"del", d>>] \cap D = {}
    OBVIOUS
  <2> HIDE DEF C, D, L
  <2> QED BY <1>15, <2>1, <2>2
<1> QED BY <1>1, <1>13, <1>14, <1>15, <1>16 DEF Core

\* The commit o that is under way has written its files: with its meta file
\* the SSTs next are complete and have the contents v, and what it will delete
\* is not needed then.
NextSsts(ms, o, dat) ==
  Without(LiveSsts(ms), RawMentions(dat, o.meta)) \o Raw(dat, o.meta).entries
Prepared(ms, o, c, v, dk, dat) ==
  LET L == LiveSsts(ms)
      next == NextSsts(ms, o, dat)
  IN /\ o.meta \in c + 1..MaxSeq - 1 /\ o.seq = o.meta /\ o.metaDel = {}
     /\ o.files \subseteq dk /\ <<"meta", o.meta>> \in o.files
     /\ \A f \in o.files : /\ f[2] \in c + 1..o.meta /\ f[1] # "del"
                           /\ f[1] = "meta" => f[2] = o.meta
     /\ OneKind(o.meta, o.files)
     /\ Raw(dat, o.meta).entries \in Seq(Nat)
     /\ Raw(dat, o.meta).obsolete = o.sstDel /\ o.sstDel \subseteq ToSet(L)
     /\ ToSet(next) \subseteq ToSet(L) \cup (c + 1..o.meta) /\ o.sstDel \cap ToSet(next) = {}
     /\ BlobRefs(next, dat) \subseteq BlobRefs(L, dat) \cup (c + 1..o.meta)
     /\ o.blobDel \subseteq BlobRefs(L, dat) \ BlobRefs(next, dat)
     /\ Tables(next, dk, dat)
     /\ ContentOf(next, dat) = v

\* Of the files dk those up to c are part of the state, the newer ones files of
\* the commit o.
Settled(ms, c, o, dk) ==
  /\ \A n \in 1..c : <<"meta", n>> \in dk => n \in Numbers(ms)
  /\ \A f \in dk : f[2] <= c \/ f \in o.files

\* The commit o has published the meta files ms, without those numbered del: a
\* complete state c with the contents v that needs nothing the commit deletes.
Published(ms, del, o, c, v, dk, dat) ==
  LET deleted == o.sstDel \cup del \cup o.blobDel
  IN /\ Core(ms, c, v, dk, dk, dat)
     /\ deleted \subseteq 1..o.meta /\ deleted \cap Needed(ms, dat) = {}
     /\ \A n \in 1..c : <<"meta", n>> \in dk => n \in Numbers(ms) \cup del
     /\ \A f \in dk : f[2] <= o.meta

\* When the meta file of the commit o is published the next state is complete
\* and the commit deletes nothing it needs.
LEMMA CorePublished ==
  ASSUME NEW ms, NEW c, NEW a, NEW v, NEW dk, NEW dat, NEW o, Core(ms, c, a, dk, dk, dat),
         dk \subseteq Files, dk \subseteq DOMAIN dat, Prepared(ms, o, c, v, dk, dat),
         Settled(ms, c, o, dk),
         NEW all, all = Append(ms, Opened(dat, o.meta)),
         NEW c2, c2 = o.meta \/ c2 = o.meta + 1
  PROVE  Published(KeptOf(all), SeqsOf(RemovedOf(all)), o, c2, v, dk, dat)
PROOF
<1> DEFINE L == LiveSsts(ms)
           C == Numbers(ms)
           N == o.meta
           next == NextSsts(ms, o, dat)
           kept == KeptOf(all)
           D == Numbers(kept)
           del == SeqsOf(RemovedOf(all))
<1>1. /\ c \in 0..MaxSeq /\ C \cup ToSet(L) \cup BlobRefs(L, dat) \subseteq 1..c
      /\ MetasOK(ms, c, dk, dk, dat) /\ Tables(L, dk, dat) /\ DelsOK(ms, c, dk, dk, dat)
      /\ OneKind(c, dk)
  BY Zenon DEF Core, Needed
<1>2. /\ N \in c + 1..MaxSeq - 1 /\ o.files \subseteq dk /\ <<"meta", N>> \in o.files
      /\ \A f \in o.files : /\ f[2] \in c + 1..N /\ f[1] # "del"
                            /\ f[1] = "meta" => f[2] = N
      /\ OneKind(N, o.files)
      /\ Raw(dat, N).entries \in Seq(Nat)
      /\ Raw(dat, N).obsolete = o.sstDel /\ o.sstDel \subseteq ToSet(L)
      /\ ToSet(next) \subseteq ToSet(L) \cup (c + 1..N) /\ o.sstDel \cap ToSet(next) = {}
      /\ BlobRefs(next, dat) \subseteq BlobRefs(L, dat) \cup (c + 1..N)
      /\ o.blobDel \subseteq BlobRefs(L, dat) \ BlobRefs(next, dat)
      /\ Tables(next, dk, dat)
      /\ ContentOf(next, dat) = v
  BY DEF Prepared
<1>3. /\ MaxSeq \in Nat /\ c \in Nat /\ N \in Nat /\ c < N /\ N < MaxSeq /\ c2 \in Nat /\ N <= c2 /\ c2 <= MaxSeq
      /\ c2 <= N + 1
  BY <1>1, <1>2, SeqAssumption
<1> HIDE DEF next
<1>4. /\ Good(ms, dat) /\ (\A n \in C : <<"meta", n>> \in dk)
      /\ \A n \in 1..c : <<"meta", n>> \in dk =>
           /\ Raw(dat, n).entries \in Seq(Nat) /\ Raw(dat, n).obsolete \subseteq 1..n
           /\ Raw(dat, n).obsolete \cap ToSet(L) = {}
  BY <1>1, Zenon DEF MetasOK
<1>5. /\ Good(kept, dat) /\ del \subseteq C \cup {N} /\ D = (C \cup {N}) \ del
      /\ \A d \in del : ToSet(Raw(dat, d).entries) \subseteq Hides(D, dat, d)
      /\ LiveSsts(kept) = next
  <2>1. \A m \in C : m < N
    BY <1>1, <1>3
  <2>2. \A m \in C \cup {N} : Raw(dat, m).entries \in Seq(Nat)
    BY <1>1, <1>2, <1>4, Zenon
  <2>3. Raw(dat, N).obsolete \subseteq Nat
    BY <1>1, <1>2
  <2>4. Good(ms, dat) /\ N \in Nat
    BY <1>3, <1>4
  <2>5. all = Append(ms, Opened(dat, N))
    OBVIOUS
  <2> HIDE DEF N
  <2>6. /\ Good(KeptOf(all), dat)
        /\ SeqsOf(RemovedOf(all)) \subseteq Numbers(ms) \cup {N}
        /\ Numbers(KeptOf(all)) = (Numbers(ms) \cup {N}) \ SeqsOf(RemovedOf(all))
        /\ \A d \in SeqsOf(RemovedOf(all)) :
             ToSet(Raw(dat, d).entries) \subseteq Hides(Numbers(KeptOf(all)), dat, d)
        /\ LiveSsts(KeptOf(all)) = Without(LiveSsts(ms), RawMentions(dat, N)) \o Raw(dat, N).entries
    BY <2>1, <2>2, <2>3, <2>4, <2>5, PublishedMetas, Zenon
  <2> QED BY <2>6, Zenon DEF next, NextSsts, N
<1> HIDE DEF kept, D, del, L, C, N
<1>6. Needed(kept, dat) = D \cup ToSet(next) \cup BlobRefs(next, dat)
  BY <1>5 DEF Needed, D
<1>7. Needed(kept, dat) \subseteq 1..N /\ Needed(kept, dat) \subseteq C \cup ToSet(L) \cup BlobRefs(L, dat) \cup (c + 1..N)
  BY <1>1, <1>2, <1>3, <1>5, <1>6
<1>8. \A k \in Kinds, n \in 1..c2 : <<k, n>> \in dk => n <= c \/ (n \in c + 1..N /\ <<k, n>> \in o.files)
  <2> TAKE k \in Kinds, n \in 1..c2
  <2> HAVE <<k, n>> \in dk
  <2> DEFINE f == <<k, n>>
  <2>1. f[2] <= c \/ f \in o.files
    BY DEF Settled
  <2>2. f \in o.files => f[2] \in c + 1..N
    BY <1>2
  <2> QED BY <2>1, <2>2
<1>9. \A n \in 1..c2 : <<"meta", n>> \in dk => n \in C \cup {N}
  <2> TAKE n \in 1..c2
  <2> HAVE <<"meta", n>> \in dk
  <2>1. n <= c => n \in C
    BY <1>3 DEF C, Settled
  <2>2. <<"meta", n>> \in o.files => n = N
    BY <1>2
  <2> QED BY <1>8, <2>1, <2>2 DEF Kinds
<1>10. MetasOK(kept, c2, dk, dk, dat)
  <2>1. \A n \in D : <<"meta", n>> \in dk
    BY <1>2, <1>4, <1>5, Zenon
  <2>2. ASSUME NEW n \in 1..c2, <<"meta", n>> \in dk
        PROVE  /\ Raw(dat, n).entries \in Seq(Nat) /\ Raw(dat, n).obsolete \subseteq 1..n
               /\ Raw(dat, n).obsolete \cap ToSet(next) = {}
               /\ n \notin D => ToSet(Raw(dat, n).entries) \subseteq Hides(D, dat, n)
    <3>1. n \notin D => n \in del
      BY <1>5, <1>9, <2>2
    <3>2. CASE n \in C
      <4>1. n \in 1..c
        BY <1>1, <3>2
      <4>2. /\ Raw(dat, n).entries \in Seq(Nat) /\ Raw(dat, n).obsolete \subseteq 1..n
            /\ Raw(dat, n).obsolete \cap ToSet(L) = {}
        BY <1>4, <2>2, <4>1
      <4>3. \A s \in Raw(dat, n).obsolete : s \notin c + 1..N
        BY <1>3, <4>1, <4>2
      <4> QED BY <1>2, <1>5, <3>1, <4>2, <4>3, Zenon
    <3>3. CASE n = N
      <4>1. Raw(dat, N).obsolete \subseteq 1..c
        BY <1>1, <1>2
      <4>2. 1..c \subseteq 1..N
        BY <1>3
      <4> QED BY <1>2, <1>5, <3>1, <3>3, <4>1, <4>2, Zenon
    <3> QED BY <1>9, <2>2, <3>2, <3>3
  <2> QED BY <1>5, <2>1, <2>2, Zenon DEF MetasOK, D
<1>11. DelsOK(kept, c2, dk, dk, dat)
  <2> SUFFICES ASSUME NEW d \in 1..c2, <<"del", d>> \in dk
               PROVE  dat[<<"del", d>>] \subseteq 1..d /\ dat[<<"del", d>>] \cap Needed(kept, dat) = {}
    BY Zenon DEF DelsOK, Spare
  <2>1. <<"del", d>> \notin o.files
    BY <1>2
  <2>2. d \in 1..c
    BY <1>3, <1>8, <2>1 DEF Kinds
  <2>3. dat[<<"del", d>>] \subseteq 1..d /\ dat[<<"del", d>>] \cap (C \cup ToSet(L) \cup BlobRefs(L, dat)) = {}
    BY <1>1, <2>2 DEF DelsOK, Spare, Needed, C, L
  <2>4. \A x \in dat[<<"del", d>>] : x \notin c + 1..N
    BY <1>3, <2>2, <2>3
  <2> QED BY <1>7, <2>3, <2>4, Zenon
<1>12. OneKind(c2, dk)
  <2> SUFFICES ASSUME NEW n \in 1..c2, NEW k \in Kinds, NEW l \in Kinds, <<k, n>> \in dk, <<l, n>> \in dk
               PROVE  k = l
    BY DEF OneKind
  <2>1. CASE n <= c
    <3>1. n \in 1..c
      BY <1>3, <2>1
    <3> QED BY <1>1, <3>1 DEF OneKind
  <2>2. CASE ~ (n <= c)
    <3>1. n \in 1..N /\ <<k, n>> \in o.files /\ <<l, n>> \in o.files
      BY <1>3, <1>8, <2>2
    <3> QED BY <1>2, <3>1 DEF OneKind
  <2> QED BY <2>1, <2>2
<1>13. Core(kept, c2, v, dk, dk, dat)
  <2>1. dk \cap dk = dk /\ dk \cup dk = dk /\ c2 \in 0..MaxSeq
    BY <1>3
  <2>2. Needed(kept, dat) \subseteq 1..c2
    BY <1>3, <1>7
  <2> QED BY <1>2, <1>5, <1>10, <1>11, <1>12, <2>1, <2>2, Zenon DEF Core
<1>14. /\ \A s \in ToSet(L) \cup ToSet(next) : s \in 1..c2 /\ <<"sst", s>> \in dk
       /\ \A b \in BlobRefs(L, dat) \cup BlobRefs(next, dat) : b \in 1..c2 /\ <<"blob", b>> \in dk
       /\ \A n \in C \cup {N} : n \in 1..c2 /\ <<"meta", n>> \in dk
  <2>1. \A x \in C \cup ToSet(L) \cup BlobRefs(L, dat) \cup (c + 1..N) : x \in 1..c2
    BY <1>1, <1>3
  <2>2. N \in c + 1..N
    BY <1>3
  <2>3. /\ \A s \in ToSet(L) \cup ToSet(next) : <<"sst", s>> \in dk
        /\ \A b \in BlobRefs(L, dat) \cup BlobRefs(next, dat) : <<"blob", b>> \in dk
    BY <1>1, <1>2 DEF Tables
  <2>4. \A n \in C \cup {N} : <<"meta", n>> \in dk
    BY <1>2, <1>4, Zenon
  <2> QED BY <1>2, <2>1, <2>2, <2>3, <2>4
<1>15. \A n \in 1..c2, k, l \in Kinds : <<k, n>> \in dk /\ <<l, n>> \in dk => k = l
  BY <1>12 DEF OneKind
<1>16. /\ \A s \in o.sstDel : s \notin Needed(kept, dat)
       /\ \A d \in del : d \notin Needed(kept, dat)
       /\ \A b \in o.blobDel : b \notin Needed(kept, dat)
  <2>1. {"sst", "meta", "blob"} \subseteq Kinds
    BY DEF Kinds
  <2>2. \A s \in o.sstDel : s \notin D /\ s \notin ToSet(next) /\ s \notin BlobRefs(next, dat)
    BY <1>2, <1>5, <1>14, <1>15, <2>1, Zenon
  <2>3. \A d \in del : d \notin D /\ d \notin ToSet(next) /\ d \notin BlobRefs(next, dat)
    BY <1>5, <1>14, <1>15, <2>1, Zenon
  <2>4. \A b \in o.blobDel : b \notin D /\ b \notin ToSet(next) /\ b \notin BlobRefs(next, dat)
    BY <1>2, <1>5, <1>14, <1>15, <2>1, Zenon
  <2> QED BY <1>6, <2>2, <2>3, <2>4
<1>17. o.sstDel \cup del \cup o.blobDel \subseteq 1..N
  <2>1. C \cup ToSet(L) \cup BlobRefs(L, dat) \subseteq 1..N /\ N \in 1..N
    BY <1>1, <1>3
  <2> QED BY <1>2, <1>5, <2>1
<1>18. \A n \in 1..c2 : <<"meta", n>> \in dk => n \in D \cup del
  BY <1>5, <1>9
<1>19. \A f \in dk : f[2] <= N
  <2> TAKE f \in dk
  <2>1. f[2] \in Nat
    BY DEF Files, Seqs
  <2>2. f[2] <= c \/ f[2] \in c + 1..N
    BY <1>2 DEF Settled
  <2> QED BY <1>3, <2>1, <2>2
<1> QED BY <1>13, <1>16, <1>17, <1>18, <1>19 DEF N, del, D, kept, Published

-----------------------------------------------------------------------------
(* The inductive invariant.                                                *)

\* The process has the old state in memory, or already the new one.
Before == {"idle", "written", "synced"}
After == {"published", "delWritten", "currentWritten", "currentSynced"}

\* The types, and what CURRENT may be.
Types ==
  /\ disk \subseteq Files /\ stable \subseteq Files /\ DOMAIN data = disk \cup stable
  /\ current \in currentMay /\ currentMay \subseteq {NoFile, EmptyFile} \cup (0..MaxSeq)
  /\ pc \in Before \cup After \cup {"down", "initializing", "failed"}
  /\ op.files \subseteq Files /\ op.seq \in 0..MaxSeq
  /\ batches \in Nat
\* Whatever CURRENT is found to be after a crash, the state it names is complete in
\* the files that are sure to be found, and undisturbed by those that may be.
Recoverable ==
  /\ \A c \in currentMay \cap Nat :
       \E ms, v : v \in {acked, proposed} /\ Core(ms, c, v, disk, stable, data)
  /\ NoFile \in currentMay => acked = Empty
\* The process is down: nothing is unsynced.
WhenDown ==
  pc = "down" => /\ disk = stable /\ currentMay = {current} /\ metas = <<>> /\ seqNo = 0
                 /\ current = NoFile => disk = {}
\* CURRENT has been created but not written.
WhenInitializing ==
  pc = "initializing" => /\ disk = {} /\ stable = {} /\ currentMay = {NoFile, EmptyFile}
                         /\ metas = <<>> /\ seqNo = 0
\* Up to the publication the loaded meta files are those of the state CURRENT
\* names; newer files are files of the commit under way.
WhenBefore ==
  pc \in Before =>
    /\ Core(metas, seqNo, acked, disk, stable, data)
    /\ current = seqNo /\ currentMay \cap Nat = {seqNo}
    /\ \A n \in 1..seqNo : <<"meta", n>> \in disk => n \in Numbers(metas)
    /\ \A f \in disk : f[2] <= seqNo \/ (pc # "idle" /\ f \in op.files)
\* The files of the commit are written, and synced before it is published.
WhenPrepared ==
  /\ pc \in {"written", "synced"} => Prepared(metas, op, seqNo, proposed, disk, data)
  /\ pc = "synced" => disk = stable /\ NoFile \notin currentMay
\* From the publication on the loaded meta files are a complete state that needs
\* nothing of what the commit is going to delete.
WhenAfter ==
  pc \in After =>
    LET deleted == op.sstDel \cup op.metaDel \cup op.blobDel IN
    /\ Core(metas, seqNo, proposed, disk, stable, data)
    /\ op.seq = seqNo /\ seqNo \in 1..MaxSeq
    /\ deleted \subseteq 1..seqNo /\ deleted \cap Needed(metas, data) = {}
    /\ \A n \in 1..seqNo : <<"meta", n>> \in disk => n \in Numbers(metas) \cup op.metaDel
    /\ \A f \in disk : f[2] <= seqNo /\ (f[1] # "del" => f \in stable)
    /\ NoFile \notin currentMay
    /\ pc = "published" => /\ \A f \in disk \cup stable : f[2] < seqNo
                           /\ \A c \in currentMay : c < seqNo
    /\ pc = "currentWritten" => current = seqNo
    /\ pc = "currentSynced" => current = seqNo /\ currentMay = {seqNo}
\* A failed commit leaves readers a complete state.
WhenFailed == pc = "failed" => \E v : Core(metas, seqNo, v, disk, stable, data)

\* The strengthening of the safety properties that every step keeps.
Inv ==
  /\ Types /\ Recoverable /\ WhenDown /\ WhenInitializing
  /\ WhenBefore /\ WhenPrepared /\ WhenAfter /\ WhenFailed

\* Ascending(S) lists the sequence numbers in S in order.
LEMMA AscendingIs ==
  ASSUME NEW S
  PROVE  /\ Ascending(S) \in Seq(Nat) /\ ToSet(Ascending(S)) = S \cap Seqs
         /\ Len(Ascending(S)) \in Nat /\ DOMAIN Ascending(S) = 1..Len(Ascending(S))
         /\ \A i \in 1..Len(Ascending(S)) : Ascending(S)[i] \in S \cap Seqs
         /\ \A i, j \in 1..Len(Ascending(S)) : i < j => Ascending(S)[i] < Ascending(S)[j]
PROOF
<1> DEFINE s == [i \in Seqs |-> i]
           a == Ascending(S)
<1>1. MaxSeq \in Nat
  BY SeqAssumption
<1>2. s \in Seq(Nat) /\ Len(s) = MaxSeq /\ \A i \in 1..Len(s) : s[i] = i
  BY <1>1 DEF Seqs
<1>3. ToSet(s) = Seqs
  <2>1. ToSet(s) = {s[i] : i \in 1..Len(s)}
    BY <1>2, ToSetOf, Zenon
  <2> QED BY <1>2, <2>1, Zenon DEF Seqs
<1>4. a = Without(s, Seqs \ S)
  BY DEF Ascending
<1> HIDE DEF s, a
<1>5. a \in Seq(Nat) /\ ToSet(a) = Seqs \ (Seqs \ S)
  BY <1>2, <1>3, <1>4, WithoutType
<1>6. ToSet(a) = {a[i] : i \in 1..Len(a)} /\ Len(a) \in Nat /\ DOMAIN a = 1..Len(a)
  BY <1>5, ToSetOf, Zenon
<1>7. Ordered(a, s)
  BY <1>2, <1>4, WithoutOrder
<1>8. \A i, j \in 1..Len(a) : i < j => a[i] < a[j]
  BY <1>2, <1>7 DEF Ordered
<1>9. ToSet(a) = S \cap Seqs
  BY <1>5
<1> QED BY <1>5, <1>6, <1>8, <1>9 DEF a

\* An empty directory is a complete state without contents.
LEMMA NoMetas ==
  ASSUME NEW fs, fs = {}, NEW dat
  PROVE  Core(<<>>, 0, Empty, fs, fs, dat)
PROOF
<1>1. <<>> \in Seq(MetaRec) /\ Len(<<>>) = 0
  OBVIOUS
<1>2. LiveSsts(<<>>) = <<>>
  <2>1. PICK f : LiveSsts(<<>>) = f[Len(<<>>)] /\ f[0] = <<>>
    BY <1>1, LiveDef, Zenon
  <2> QED BY <1>1, <2>1
<1>3. Numbers(<<>>) = {} /\ ToSet(<<>>) = {}
  BY DEF Numbers, ToSet
<1>4. \A k : Newest(<<>>, k, dat) = Absent
  BY DEF Newest
<1>5. ContentOf(<<>>, dat) = Empty
  BY <1>4 DEF ContentOf, Empty, Visible, Absent
<1>6. Needed(<<>>, dat) = {} /\ BlobRefs(<<>>, dat) = {}
  BY <1>2, <1>3, Zenon DEF Needed, BlobRefs
<1>7. Tables(<<>>, fs, dat)
  BY <1>3, <1>6 DEF Tables
<1>8. MetasOK(<<>>, 0, fs, fs, dat)
  BY <1>1, <1>3 DEF MetasOK, Good, IsAscending
<1>9. DelsOK(<<>>, 0, fs, fs, dat) /\ OneKind(0, fs)
  BY DEF DelsOK, Spare, OneKind
<1> QED BY <1>2, <1>5, <1>6, <1>7, <1>8, <1>9, SeqAssumption DEF Core

\* A store starts without any file.
LEMMA InvInit == Init => Inv
PROOF
  BY SeqAssumption DEF Init, Inv, Types, Recoverable, WhenDown, WhenInitializing, WhenBefore, WhenPrepared,
     WhenAfter, WhenFailed, Before, After, NoOp, NoFile, EmptyFile, Files

\* An empty CURRENT is created only where there was no file at all.
LEMMA InvCreateCurrent == Inv /\ CreateCurrent => Inv'
PROOF
<1> SUFFICES ASSUME Inv, CreateCurrent PROVE Inv'
  OBVIOUS
<1>1. /\ pc = "down" /\ current = NoFile /\ disk = {} /\ stable = {} /\ currentMay = {NoFile}
      /\ metas = <<>> /\ seqNo = 0 /\ acked = Empty /\ DOMAIN data = {}
      /\ op.files \subseteq Files /\ op.seq \in 0..MaxSeq /\ batches \in Nat
  BY DEF CreateCurrent, Inv, WhenDown, Types, Recoverable
<1>2. /\ current' = EmptyFile /\ currentMay' = {NoFile, EmptyFile} /\ pc' = "initializing"
      /\ UNCHANGED <<disk, stable, data, metas, seqNo, op, acked, batches>>
  BY <1>1 DEF CreateCurrent, AuxUnchanged, memVars
<1>3. Types' /\ Recoverable' /\ WhenInitializing'
  BY <1>1, <1>2 DEF Types, Recoverable, WhenInitializing, Before, After, NoFile, EmptyFile
<1> QED BY <1>2, <1>3 DEF Inv, WhenDown, WhenBefore, WhenPrepared, WhenAfter, WhenFailed, Before, After

\* Writing the number zero makes the empty state the current one.
LEMMA InvWriteZero == Inv /\ WriteZero => Inv' /\ Content(metas', Dir') = acked
PROOF
<1> SUFFICES ASSUME Inv, WriteZero PROVE Inv' /\ Content(metas', Dir') = acked
  OBVIOUS
<1>1. /\ pc = "initializing" /\ disk = {} /\ stable = {} /\ currentMay = {NoFile, EmptyFile}
      /\ metas = <<>> /\ seqNo = 0 /\ acked = Empty /\ DOMAIN data = {}
      /\ op.files \subseteq Files /\ op.seq \in 0..MaxSeq /\ batches \in Nat
  BY DEF WriteZero, Inv, WhenInitializing, Types, Recoverable
<1>2. /\ current' = 0 /\ currentMay' = {NoFile, EmptyFile, 0} /\ pc' = "idle"
      /\ UNCHANGED <<disk, stable, data, metas, seqNo, op, batches>>
      /\ acked' = Content(metas', Dir')
  BY <1>1 DEF WriteZero, AuxUnchanged, memVars
<1>3. Core(metas', 0, Empty, disk', stable', data')
  BY <1>1, <1>2, NoMetas
<1>4. acked' = Empty
  <2>1. Dir' = [f \in disk' |-> data'[f]] /\ disk' \cup stable' \subseteq DOMAIN data'
    BY <1>1, <1>2 DEF Dir
  <2> QED BY <1>2, <1>3, <2>1, CoreLookups
<1>5. currentMay' \cap Nat = {0}
  BY <1>2 DEF NoFile, EmptyFile
<1>6. Types'
  BY <1>1, <1>2, SeqAssumption DEF Types, Before
<1>7. Recoverable'
  BY <1>3, <1>4, <1>5 DEF Recoverable
<1>8. WhenBefore'
  BY <1>1, <1>2, <1>3, <1>4, <1>5 DEF WhenBefore
<1>9. Content(metas', Dir') = acked
  BY <1>1, <1>2, <1>4
<1> QED BY <1>2, <1>6, <1>7, <1>8, <1>9
           DEF Inv, WhenDown, WhenInitializing, WhenPrepared, WhenAfter, WhenFailed, Before, After

\* A step that keeps a complete state's files keeps it complete, whatever else
\* it adds above it or removes.
LEMMA CoreKeeps ==
  ASSUME NEW ms, NEW c, NEW v, NEW dk, NEW st, NEW dat, NEW dk2, NEW st2,
         Core(ms, c, v, dk, st, dat), DOMAIN dat = dk \cup st,
         dk2 \cup st2 \subseteq dk \cup st, HasNeeded(ms, dat, dk2 \cap st2),
         NEW dat2, dk2 \cup st2 \subseteq DOMAIN dat2, \A f \in dk2 \cup st2 : dat2[f] = dat[f]
  PROVE  Core(ms, c, v, dk2, st2, dat2)
PROOF
<1>1. Frame(Kinds, c, dk, st, dat, dk2, st2, dat2)
  BY DEF Frame
<1> QED BY <1>1, CoreFrame

\* Opening the meta files S and filtering them gives what each has on disk, less
\* what newer ones hide.
LEMMA OpenedMetas ==
  ASSUME NEW S, S \subseteq Seqs, NEW dat, \A n \in S : Raw(dat, n).entries \in Seq(Nat) /\ Raw(dat, n).obsolete \subseteq Nat
  PROVE  LET ms == [i \in DOMAIN Ascending(S) |-> Opened(dat, Ascending(S)[i])]
         IN Good(FilterAll(ms), dat) /\ Numbers(FilterAll(ms)) = S
PROOF
<1> DEFINE a == Ascending(S)
           ms == [i \in DOMAIN a |-> Opened(dat, a[i])]
<1>1. /\ a \in Seq(Nat) /\ ToSet(a) = S /\ Len(a) \in Nat /\ DOMAIN a = 1..Len(a)
      /\ \A i \in 1..Len(a) : a[i] \in S
      /\ \A i, j \in 1..Len(a) : i < j => a[i] < a[j]
  <2>1. S \cap Seqs = S
    OBVIOUS
  <2> QED BY <2>1, AscendingIs, Zenon
<1>2. ToSet(a) = {a[i] : i \in 1..Len(a)}
  BY <1>1, ToSetOf
<1> HIDE DEF a
<1>3. ms = [i \in 1..Len(a) |-> Opened(dat, a[i])]
  BY <1>1
<1> HIDE DEF ms
<1>4. \A i \in 1..Len(a) : ms[i] = Opened(dat, a[i]) /\ ms[i] \in MetaRec
  <2> TAKE i \in 1..Len(a)
  <2>1. a[i] \in S /\ a[i] \in Nat
    BY <1>1
  <2>2. Opened(dat, a[i]) \in MetaRec
    BY <2>1 DEF Opened, MetaRec
  <2> QED BY <1>3, <2>2
<1>5. ms \in Seq(MetaRec) /\ Len(ms) = Len(a)
  BY <1>1, <1>3, <1>4
<1>6. \A i \in 1..Len(ms) : ms[i].seq = a[i]
  <2> TAKE i \in 1..Len(ms)
  <2>1. ms[i] = Opened(dat, a[i])
    BY <1>4, <1>5
  <2> QED BY <2>1 DEF Opened
<1>7. IsAscending(ms)
  BY <1>1, <1>5, <1>6 DEF IsAscending
<1>8. \A i \in 1..Len(ms) :
        /\ Raw(dat, ms[i].seq).entries \in Seq(Nat)
        /\ ms[i].entries = Raw(dat, ms[i].seq).entries
        /\ ms[i].obsoleteEntries = {}
        /\ ms[i].obsoleteSst = Raw(dat, ms[i].seq).obsolete
  <2> TAKE i \in 1..Len(ms)
  <2>1. ms[i] = Opened(dat, a[i]) /\ a[i] \in S
    BY <1>1, <1>4, <1>5
  <2> QED BY <2>1 DEF Opened
<1>9. Numbers(ms) = S
  BY <1>1, <1>2, <1>5, <1>6, Zenon DEF Numbers
<1>10. Good(FilterAll(ms), dat) /\ Numbers(FilterAll(ms)) = S
  BY <1>5, <1>7, <1>8, <1>9, OpenedGood, Zenon
<1> QED BY <1>10 DEF ms, a

\* Opening loads the recoverable state CURRENT names and removes nothing it
\* needs.
LEMMA InvOpen ==
  Inv /\ Open => Inv' /\ Content(metas', Dir') \in {acked, proposed}
PROOF
<1> SUFFICES ASSUME Inv, Open PROVE Inv' /\ Content(metas', Dir') \in {acked, proposed}
  OBVIOUS
<1> DEFINE c == current
           dels == Listed(DelFiles(c))
           live == {s \in Seqs : <<"meta", s>> \in disk /\ s <= c /\ s \notin dels}
           ns == LoadedMetas(c)
<1>1. /\ pc = "down" /\ c \in Nat /\ disk = stable /\ currentMay = {c} /\ DOMAIN data = disk
      /\ disk \subseteq Files /\ c \in 0..MaxSeq /\ batches \in Nat
  BY DEF Open, Inv, WhenDown, Types, NoFile, EmptyFile
<1>2. /\ disk' = disk \ Cleanup(c) /\ metas' = ns /\ seqNo' = c /\ pc' = "idle" /\ op' = NoOp
      /\ acked' = Content(metas', Dir')
      /\ UNCHANGED <<stable, data, current, currentMay, batches>>
  BY DEF Open, AuxUnchanged
<1>3. PICK ms, v : v \in {acked, proposed} /\ Core(ms, c, v, disk, disk, data)
  BY <1>1 DEF Inv, Recoverable
<1>4. /\ \A s \in live : s \in 1..c /\ s \in Seqs /\ <<"meta", s>> \in disk /\ s \notin dels
      /\ \A s \in 1..c : <<"meta", s>> \in disk /\ s \notin dels => s \in live
      /\ live \subseteq 1..c
  BY <1>1, SeqAssumption DEF Seqs
<1>5. \A d \in 1..c : <<"del", d>> \in disk => data[<<"del", d>>] \subseteq dels
  <2> TAKE d \in 1..c
  <2> HAVE <<"del", d>> \in disk
  <2>1. d \in DelFiles(c)
    BY <1>1, SeqAssumption DEF DelFiles, Seqs
  <2> QED BY <2>1 DEF Listed
<1>6. \A s \in dels : \E d \in 1..c : <<"del", d>> \in disk /\ s \in data[<<"del", d>>]
  <2> TAKE s \in dels
  <2>1. PICK d \in DelFiles(c) : s \in data[<<"del", d>>]
    BY Zenon DEF Listed
  <2>2. d \in 1..c /\ <<"del", d>> \in disk
    BY <1>1 DEF DelFiles, Seqs
  <2> QED BY <2>1, <2>2
<1>7. Needed(ms, data) \cap dels = {}
  BY <1>3, <1>6, Zenon DEF Core, DelsOK, Spare
<1>8. Good(ns, data) /\ Numbers(ns) = live
  <2> DEFINE a == Ascending(live)
             raw == [i \in DOMAIN a |-> Opened(data, a[i])]
  <2>1. \A n \in live : Raw(data, n).entries \in Seq(Nat) /\ Raw(data, n).obsolete \subseteq Nat
    BY <1>3, <1>4 DEF Core, MetasOK
  <2>2. ns = FilterAll(raw)
    BY DEF LoadedMetas, OpenMeta, Opened, Raw
  <2>3. live \subseteq Seqs
    OBVIOUS
  <2> HIDE DEF live, ns
  <2> QED BY <2>1, <2>2, <2>3, OpenedMetas
<1> HIDE DEF ns, live, dels, c
<1>9. Core(ns, c, v, disk, disk, data)
  <2>1. Numbers(ms) \subseteq live
    BY <1>3, <1>4, <1>7, Zenon DEF Core, MetasOK, Needed
  <2>2. \A n \in Numbers(ns) : <<"meta", n>> \in disk \cap disk
    BY <1>4, <1>8, Zenon
  <2>3. \A d \in 1..c : <<"del", d>> \in disk \cup disk => data[<<"del", d>>] \cap Numbers(ns) = {}
    BY <1>4, <1>5, <1>8, Zenon
  <2> QED BY <1>3, <1>4, <1>8, <2>1, <2>2, <2>3, MoreMetas, Zenon
<1>10. \A x \in Needed(ns, data) : x \in 1..c /\ x \notin dels
  <2>1. DelsOK(ns, c, disk, disk, data) /\ Needed(ns, data) \subseteq 1..c
    BY <1>9 DEF Core
  <2> QED BY <1>6, <2>1, Zenon DEF DelsOK, Spare
<1>11. \A k \in {"sst", "meta", "blob"}, x \in Needed(ns, data) : <<k, x>> \notin Cleanup(c)
  <2> TAKE k \in {"sst", "meta", "blob"}, x \in Needed(ns, data)
  <2>1. <<k, x>> \notin Newer(c)
    BY <1>1, <1>10 DEF Newer, c
  <2>2. <<k, x>> \notin ListedFiles(Listed(DelFiles(c)))
    BY <1>10 DEF ListedFiles, dels
  <2>3. k # "del"
    OBVIOUS
  <2> QED BY <2>1, <2>2, <2>3, Zenon DEF Cleanup
<1>12. HasNeeded(ns, data, disk')
  <2>1. HasNeeded(ns, data, disk)
    BY <1>9, CoreHas
  <2> QED BY <1>2, <1>11, <2>1 DEF HasNeeded, Needed, c
<1>13. disk' \subseteq disk /\ disk' \cap stable' = disk' /\ disk' \cup stable' = disk
  BY <1>1, <1>2
<1>14. Core(metas', seqNo', v, disk', stable', data')
  <2>1. DOMAIN data = disk \cup disk /\ data' = data
    BY <1>1, <1>2
  <2>2. Core(ns, c, v, disk', stable', data')
    BY <1>9, <1>12, <1>13, <2>1, CoreKeeps, Zenon
  <2> QED BY <1>2, <2>2
<1>15. acked' = v
  <2>1. Dir' = [f \in disk' |-> data'[f]] /\ disk' \cup stable' \subseteq DOMAIN data'
    BY <1>1, <1>2, <1>13 DEF Dir
  <2> QED BY <1>2, <1>14, <2>1, CoreLookups
<1>16. Types'
  BY <1>1, <1>2, <1>13, SeqAssumption DEF Types, Before, NoOp, c
<1>17. Recoverable'
  BY <1>1, <1>2, <1>14, <1>15 DEF Recoverable, NoFile, c
<1>18. WhenBefore'
  <2>1. \A n \in 1..c : <<"meta", n>> \in disk' => n \in Numbers(ns)
    <3> TAKE n \in 1..c
    <3> HAVE <<"meta", n>> \in disk'
    <3>1. n \notin dels
      BY <1>2, <1>13 DEF Cleanup, ListedFiles, dels
    <3> QED BY <1>4, <1>8, <1>13, <3>1
  <2>2. \A f \in disk' : f[2] <= c
    BY <1>1, <1>2 DEF Cleanup, Newer, Files, Seqs, c
  <2>3. current' = seqNo' /\ currentMay' \cap Nat = {seqNo'}
    BY <1>1, <1>2 DEF c
  <2> QED BY <1>2, <1>14, <1>15, <2>1, <2>2, <2>3 DEF WhenBefore
<1>19. Inv'
  BY <1>2, <1>16, <1>17, <1>18 DEF Inv, WhenDown, WhenInitializing, WhenPrepared, WhenAfter, WhenFailed, Before, After
<1> QED BY <1>2, <1>3, <1>15, <1>19

\* Contents of files that are not there may change.
LEMMA PreparedAgree ==
  ASSUME NEW ms, NEW o, NEW c, NEW v, NEW dk, NEW dat, Prepared(ms, o, c, v, dk, dat),
         NEW a, Core(ms, c, a, dk, dk, dat), dk \subseteq DOMAIN dat,
         NEW dat2, dk \subseteq DOMAIN dat2, \A f \in dk : dat2[f] = dat[f]
  PROVE  Prepared(ms, o, c, v, dk, dat2)
PROOF
<1> DEFINE L == LiveSsts(ms)
           next == NextSsts(ms, o, dat)
<1>1. Tables(L, dk, dat) /\ Tables(next, dk, dat) /\ <<"meta", o.meta>> \in dk
  BY Zenon DEF Core, Prepared
<1>2. Raw(dat2, o.meta) = Raw(dat, o.meta)
  BY <1>1 DEF Raw
<1>3. NextSsts(ms, o, dat2) = next
  BY <1>2 DEF NextSsts, RawMentions
<1>4. BlobRefs(L, dat2) = BlobRefs(L, dat)
  <2>1. \A s \in ToSet(L) : dat2[<<"sst", s>>] = dat[<<"sst", s>>]
    BY <1>1, Zenon DEF Tables
  <2> QED BY <2>1, Zenon DEF BlobRefs
<1> HIDE DEF next
<1>5. /\ BlobRefs(next, dat2) = BlobRefs(next, dat) /\ Tables(next, dk, dat2)
      /\ ContentOf(next, dat2) = ContentOf(next, dat)
  <2>1. \A s \in ToSet(next) : <<"sst", s>> \in dk /\ dat2[<<"sst", s>>] = dat[<<"sst", s>>]
    BY <1>1, Zenon DEF Tables
  <2>2. \A b \in BlobRefs(next, dat) : <<"blob", b>> \in dk
    BY <1>1, Zenon DEF Tables
  <2> QED BY <1>1, <2>1, <2>2, TablesAgree
<1> QED BY <1>2, <1>3, <1>4, <1>5 DEF Prepared, next

\* After the sync both the old state and the new files survive a power loss.
LEMMA InvSyncFiles == Inv /\ SyncFiles => Inv'
PROOF
<1> SUFFICES ASSUME Inv, SyncFiles PROVE Inv'
  OBVIOUS
<1>1. /\ pc = "written" /\ Core(metas, seqNo, acked, disk, stable, data)
      /\ current = seqNo /\ currentMay \cap Nat = {seqNo}
      /\ \A n \in 1..seqNo : <<"meta", n>> \in disk => n \in Numbers(metas)
      /\ \A f \in disk : f[2] <= seqNo \/ f \in op.files
      /\ Prepared(metas, op, seqNo, proposed, disk, data)
  BY DEF SyncFiles, Inv, WhenBefore, WhenPrepared, Before
<1>2. /\ stable' = disk /\ currentMay' = currentMay \ {NoFile} /\ data' = [f \in disk |-> data[f]]
      /\ pc' = "synced" /\ UNCHANGED <<disk, current, metas, seqNo, op, acked, proposed, batches>>
  BY DEF SyncFiles, OpUnchanged, AuxUnchanged, memVars
<1>3. Types
  BY DEF Inv
<1>4. seqNo \in Nat /\ seqNo \in 0..MaxSeq
  BY <1>1, SeqAssumption DEF Core
<1>5. Core(metas, seqNo, acked, disk, disk, data')
  <2>1. HasNeeded(metas, data, disk \cap disk)
    BY <1>1, CoreHas DEF HasNeeded
  <2>2. DOMAIN data = disk \cup stable /\ disk \cup disk \subseteq disk \cup stable
        /\ disk \cup disk \subseteq DOMAIN data'
    BY <1>2, <1>3 DEF Types
  <2>3. \A f \in disk \cup disk : data'[f] = data[f]
    BY <1>2
  <2> QED BY <1>1, <2>1, <2>2, <2>3, CoreKeeps, Zenon
<1>6. Prepared(metas, op, seqNo, proposed, disk, data')
  <2>1. disk \subseteq DOMAIN data /\ disk \subseteq DOMAIN data' /\ \A f \in disk : data'[f] = data[f]
    BY <1>2, <1>3 DEF Types
  <2>2. Core(metas, seqNo, acked, disk, disk, data)
    <3>1. HasNeeded(metas, data, disk \cap disk)
      BY <1>1, CoreHas DEF HasNeeded
    <3> QED BY <1>1, <1>3, <3>1, CoreKeeps, Zenon DEF Types
  <2> QED BY <1>1, <2>1, <2>2, PreparedAgree
<1>7. Types'
  BY <1>1, <1>2, <1>3, <1>4 DEF Types, Before, NoFile
<1>8. Recoverable'
  BY <1>1, <1>2, <1>5 DEF Recoverable
<1>9. WhenBefore'
  <2>1. currentMay' \cap Nat = {seqNo}
    BY <1>1, <1>2, <1>4 DEF NoFile
  <2> QED BY <1>1, <1>2, <1>5, <2>1 DEF WhenBefore
<1>10. WhenPrepared'
  BY <1>2, <1>6 DEF WhenPrepared
<1> QED BY <1>2, <1>7, <1>8, <1>9, <1>10 DEF Inv, WhenDown, WhenInitializing, WhenAfter, WhenFailed, After

\* Publishing makes the prepared state the one in memory; the old one stays
\* recoverable.
LEMMA InvPublish == Inv /\ Publish => Inv'
PROOF
<1> SUFFICES ASSUME Inv, Publish PROVE Inv'
  OBVIOUS
<1> DEFINE all == Append(metas, Opened(data, op.meta))
           del == SeqsOf(RemovedOf(all))
           deleted == op.sstDel \cup del \cup op.blobDel
           c2 == IF deleted # {} THEN op.meta + 1 ELSE op.meta
<1>1. /\ pc = "synced" /\ Core(metas, seqNo, acked, disk, disk, data) /\ disk = stable
      /\ current = seqNo /\ currentMay \cap Nat = {seqNo} /\ NoFile \notin currentMay
      /\ \A n \in 1..seqNo : <<"meta", n>> \in disk => n \in Numbers(metas)
      /\ \A f \in disk : f[2] <= seqNo \/ f \in op.files
      /\ Prepared(metas, op, seqNo, proposed, disk, data)
  BY DEF Publish, Inv, WhenBefore, WhenPrepared, Before
<1>2. Types
  BY DEF Inv
<1>3. /\ op.meta \in Nat /\ op.meta < MaxSeq /\ op.seq = op.meta /\ seqNo \in Nat /\ seqNo < op.meta
      /\ MaxSeq \in Nat
  BY <1>1, SeqAssumption DEF Core, Prepared
<1>4. /\ metas' = KeptOf(all) /\ seqNo' = op'.seq /\ pc' \in {"published", "delWritten"}
      /\ op' = [op EXCEPT !.metaDel = del, !.seq = IF deleted # {} THEN op.seq + 1 ELSE op.seq]
      /\ pc' = "published" => deleted # {}
      /\ UNCHANGED <<disk, stable, data, current, currentMay, acked, proposed, batches>>
  <2>1. NewMeta = Opened(data, op.meta)
    BY DEF NewMeta, OpenMeta, Opened, Raw
  <2>2. op.sstDel \cup op.blobDel \cup del = deleted
    OBVIOUS
  <2> QED BY <2>1, <2>2, Zenon DEF Publish, KeptOf, RemovedOf, SeqsOf, OpUnchanged, AuxUnchanged, fsVars
<1>5. op'.seq = c2 /\ op'.metaDel = del /\ op'.sstDel = op.sstDel /\ op'.blobDel = op.blobDel /\ op'.files = op.files
  BY <1>3, <1>4
<1>6. c2 \in {op.meta, op.meta + 1} /\ c2 \in 1..MaxSeq
  BY <1>3
<1>7. /\ Core(KeptOf(all), c2, proposed, disk, disk, data)
      /\ deleted \subseteq 1..op.meta /\ deleted \cap Needed(KeptOf(all), data) = {}
      /\ \A n \in 1..c2 : <<"meta", n>> \in disk => n \in Numbers(KeptOf(all)) \cup del
      /\ \A f \in disk : f[2] <= op.meta
  <2>1. disk \subseteq Files /\ disk \subseteq DOMAIN data
    BY <1>2 DEF Types
  <2>2. all = Append(metas, Opened(data, op.meta)) /\ Settled(metas, seqNo, op, disk)
    BY <1>1 DEF Settled
  <2> HIDE DEF all, c2, del, deleted
  <2>3. Published(KeptOf(all), SeqsOf(RemovedOf(all)), op, c2, proposed, disk, data)
    BY <1>1, <1>6, <2>1, <2>2, CorePublished, Zenon
  <2> QED BY <2>3 DEF Published, deleted, del
<1> HIDE DEF all, del, deleted
<1>8. Types'
  BY <1>2, <1>4, <1>5, <1>6 DEF Types, After
<1>9. Recoverable'
  BY <1>1, <1>4 DEF Recoverable
<1>10. WhenAfter'
  <2>1. deleted' \cap {} = {}
    OBVIOUS
  <2>2. \A n \in 1..op.meta : n \in 1..c2
    BY <1>3
  <2>3. deleted \subseteq 1..c2
    BY <1>7, <2>2
  <2>4. \A f \in disk : f[2] \in Nat
    BY <1>2 DEF Types, Files, Seqs
  <2>5. \A f \in disk : f[2] <= c2
    BY <1>3, <1>7, <2>4
  <2>6. pc' = "published" => c2 = op.meta + 1
    BY <1>4
  <2>7. pc' = "published" => \A f \in disk : f[2] < c2
    BY <1>3, <1>7, <2>4, <2>6
  <2>8. \A x \in currentMay : x = EmptyFile \/ x = seqNo
    BY <1>1, <1>2, SeqAssumption DEF Types
  <2>9. pc' = "published" => \A x \in currentMay : x < c2
    BY <1>3, <2>6, <2>8 DEF EmptyFile
  <2> HIDE DEF c2
  <2>10. op'.sstDel \cup op'.metaDel \cup op'.blobDel = deleted
    BY <1>5 DEF deleted
  <2> QED BY <1>1, <1>4, <1>5, <1>6, <1>7, <2>3, <2>5, <2>7, <2>9, <2>10 DEF WhenAfter
<1> QED BY <1>4, <1>8, <1>9, <1>10 DEF Inv, WhenDown, WhenInitializing, WhenBefore, WhenPrepared, WhenFailed, Before

\* The .del file lists nothing that the old or the new state needs while CURRENT
\* may name it.
LEMMA InvWriteDel == Inv /\ WriteDel => Inv'
PROOF
<1> SUFFICES ASSUME Inv, WriteDel PROVE Inv'
  OBVIOUS
<1> DEFINE deleted == op.sstDel \cup op.metaDel \cup op.blobDel
           del == <<"del", op.seq>>
<1>1. /\ pc = "published" /\ Core(metas, seqNo, proposed, disk, stable, data)
      /\ op.seq = seqNo /\ seqNo \in 1..MaxSeq
      /\ deleted \subseteq 1..seqNo /\ deleted \cap Needed(metas, data) = {}
      /\ \A n \in 1..seqNo : <<"meta", n>> \in disk => n \in Numbers(metas) \cup op.metaDel
      /\ \A f \in disk : f[2] <= seqNo /\ (f[1] # "del" => f \in stable)
      /\ NoFile \notin currentMay
      /\ \A f \in disk \cup stable : f[2] < seqNo
      /\ \A c \in currentMay : c < seqNo
  BY DEF WriteDel, Inv, WhenAfter, After
<1>2. Types /\ Recoverable
  BY DEF Inv
<1>3. /\ disk' = disk \cup {del} /\ pc' = "delWritten" /\ data' = Writing([f \in {del} |-> deleted])
      /\ UNCHANGED <<stable, current, currentMay, metas, seqNo, op, acked, proposed, batches>>
  BY DEF WriteDel, Put, OpUnchanged, AuxUnchanged, memVars
<1>5. seqNo \in Nat /\ seqNo \in Seqs /\ MaxSeq \in Nat
  BY <1>1, SeqAssumption DEF Seqs
<1>6. del \notin disk \cup stable
  <2>1. del[2] = seqNo
    BY <1>1
  <2> QED BY <1>1, <1>5, <2>1
<1> HIDE DEF deleted, del
<1>7. DOMAIN data' = disk' \cup stable' /\ data'[del] = deleted /\ \A f \in disk \cup stable : data'[f] = data[f]
  BY <1>2, <1>3, <1>6 DEF Writing, Types
<1>8. \A c \in Nat : \A ms, v : c < seqNo /\ Core(ms, c, v, disk, stable, data) => Core(ms, c, v, disk', stable', data')
  <2> TAKE c \in Nat
  <2> TAKE ms, v
  <2> HAVE c < seqNo /\ Core(ms, c, v, disk, stable, data)
  <2>1. Frame(Kinds, c, disk, stable, data, disk', stable', data')
    <3> SUFFICES ASSUME NEW k \in Kinds, NEW n \in 1..c, <<k, n>> \in disk' \cup stable'
                 PROVE  <<k, n>> \in disk \cup stable /\ data'[<<k, n>>] = data[<<k, n>>]
      BY DEF Frame
    <3>1. <<k, n>> # del
      BY <1>1, <1>5 DEF del
    <3> QED BY <1>3, <1>7, <3>1
  <2>2. HasNeeded(ms, data, disk' \cap stable')
    BY <1>3, CoreHas DEF HasNeeded
  <2>3. disk \cup stable \subseteq DOMAIN data /\ disk' \cup stable' \subseteq DOMAIN data'
    BY <1>2, <1>7 DEF Types
  <2> QED BY <2>1, <2>2, <2>3, CoreFrame
<1>9. Core(metas, seqNo, proposed, disk', stable', data')
  <2>1. Frame(Kinds \ {"del"}, seqNo, disk, stable, data, disk', stable', data')
    <3> SUFFICES ASSUME NEW k \in Kinds \ {"del"}, NEW n \in 1..seqNo, <<k, n>> \in disk' \cup stable'
                 PROVE  <<k, n>> \in disk \cup stable /\ data'[<<k, n>>] = data[<<k, n>>]
      BY DEF Frame
    <3>1. <<k, n>> # del
      BY DEF del
    <3> QED BY <1>3, <1>7, <3>1
  <2>2. HasNeeded(metas, data, disk' \cap stable')
    BY <1>1, <1>3, CoreHas DEF HasNeeded
  <2>3. disk \cup stable \subseteq DOMAIN data /\ disk' \cup stable' \subseteq DOMAIN data'
    BY <1>2, <1>7 DEF Types
  <2>4. Spare(Needed(metas, data), seqNo, disk' \cup stable', data')
    <3>1. Spare(Needed(metas, data), seqNo, disk \cup stable, data)
      BY <1>1 DEF Core, DelsOK
    <3> SUFFICES ASSUME NEW d \in 1..seqNo, <<"del", d>> \in disk' \cup stable'
                 PROVE  data'[<<"del", d>>] \subseteq 1..d /\ data'[<<"del", d>>] \cap Needed(metas, data) = {}
      BY Zenon DEF Spare
    <3>2. CASE <<"del", d>> = del
      <4>1. d = seqNo
        BY <1>1, <3>2 DEF del
      <4>2. data'[<<"del", d>>] = deleted
        BY <1>7, <3>2
      <4> QED BY <1>1, <4>1, <4>2 DEF deleted
    <3>3. CASE <<"del", d>> # del
      <4>1. <<"del", d>> \in disk \cup stable /\ data'[<<"del", d>>] = data[<<"del", d>>]
        BY <1>3, <1>7, <3>3
      <4> QED BY <3>1, <4>1 DEF Spare
    <3> QED BY <3>2, <3>3
  <2>5. OneKind(seqNo, disk' \cup stable')
    <3>1. OneKind(seqNo, disk \cup stable)
      BY <1>1 DEF Core
    <3> SUFFICES ASSUME NEW n \in 1..seqNo, NEW k \in Kinds, NEW l \in Kinds,
                        <<k, n>> \in disk' \cup stable', <<l, n>> \in disk' \cup stable'
                 PROVE  k = l
      BY DEF OneKind
    <3>2. CASE n = seqNo
      <4>1. \A j \in Kinds : <<j, n>> \notin disk \cup stable
        <5> TAKE j \in Kinds
        <5>1. <<j, n>>[2] = seqNo
          BY <3>2
        <5> QED BY <1>1, <1>5, <5>1
      <4>2. <<k, n>> = del /\ <<l, n>> = del
        BY <1>3, <4>1
      <4> QED BY <4>2 DEF del
    <3>3. CASE n # seqNo
      <4>1. <<k, n>> # del /\ <<l, n>> # del
        BY <1>1, <3>3 DEF del
      <4>2. <<k, n>> \in disk \cup stable /\ <<l, n>> \in disk \cup stable
        BY <1>3, <4>1
      <4> QED BY <3>1, <4>2 DEF OneKind
    <3> QED BY <3>2, <3>3
  <2>6. Core(metas, seqNo, proposed, disk, stable, data)
    BY <1>1
  <2> QED BY <2>1, <2>2, <2>3, <2>4, <2>5, <2>6, CoreChange
<1>10. Types'
  <2>1. del \in Files
    BY <1>1, <1>5 DEF del, Files, Kinds
  <2> QED BY <1>2, <1>3, <1>7, <2>1 DEF Types, After
<1>11. Recoverable'
  <2> SUFFICES ASSUME NEW c \in currentMay \cap Nat
               PROVE  \E ms, v : v \in {acked, proposed} /\ Core(ms, c, v, disk', stable', data')
    BY <1>1, <1>3 DEF Recoverable
  <2>1. PICK ms, v : v \in {acked, proposed} /\ Core(ms, c, v, disk, stable, data)
    BY <1>2 DEF Recoverable
  <2>2. Core(ms, c, v, disk', stable', data')
    BY <1>1, <1>8, <2>1
  <2> QED BY <2>1, <2>2, Zenon
<1>12. WhenAfter'
  <2>1. Needed(metas, data') = Needed(metas, data)
    <3>1. \A s \in ToSet(LiveSsts(metas)) : <<"sst", s>> \in disk
      BY <1>1, Zenon DEF Core, Tables
    <3>2. \A s \in ToSet(LiveSsts(metas)) : data'[<<"sst", s>>] = data[<<"sst", s>>]
      BY <1>7, <3>1, Zenon
    <3>3. BlobRefs(LiveSsts(metas), data') = BlobRefs(LiveSsts(metas), data)
      BY <3>2, Zenon DEF BlobRefs
    <3> QED BY <3>3 DEF Needed
  <2>2. \A n \in 1..seqNo : <<"meta", n>> \in disk' => n \in Numbers(metas) \cup op.metaDel
    BY <1>1, <1>3 DEF del
  <2>3. \A f \in disk' : f[2] <= seqNo /\ (f[1] # "del" => f \in stable)
    <3>1. del[2] = seqNo /\ del[1] = "del"
      BY <1>1 DEF del
    <3> QED BY <1>1, <1>3, <1>5, <3>1
  <2> QED BY <1>1, <1>3, <1>9, <2>1, <2>2, <2>3, Zenon DEF WhenAfter, deleted
<1> QED BY <1>3, <1>10, <1>11, <1>12 DEF Inv, WhenDown, WhenInitializing, WhenBefore, WhenPrepared, WhenFailed, Before

\* From here on a crash may find either state.
LEMMA InvWriteCurrent == Inv /\ WriteCurrent => Inv'
PROOF
<1> SUFFICES ASSUME Inv, WriteCurrent PROVE Inv'
  OBVIOUS
<1>1. pc = "delWritten" /\ Types /\ Recoverable /\ WhenAfter
  BY DEF WriteCurrent, Inv
<1>2. /\ current' = op.seq /\ currentMay' = currentMay \cup {op.seq} /\ pc' = "currentWritten"
      /\ UNCHANGED <<disk, stable, data, metas, seqNo, op, acked, proposed, batches>>
  BY DEF WriteCurrent, OpUnchanged, AuxUnchanged, memVars
<1>3. Core(metas, seqNo, proposed, disk, stable, data) /\ op.seq = seqNo /\ NoFile \notin currentMay /\ seqNo \in 1..MaxSeq
  BY <1>1 DEF WhenAfter, After
<1>4. Types'
  BY <1>1, <1>2 DEF Types, After
<1>5. Recoverable'
  BY <1>1, <1>2, <1>3 DEF Recoverable, NoFile
<1>6. WhenAfter'
  BY <1>1, <1>2, <1>3 DEF WhenAfter, After, NoFile
<1> QED BY <1>2, <1>4, <1>5, <1>6 DEF Inv, WhenDown, WhenInitializing, WhenBefore, WhenPrepared, WhenFailed, Before

\* Only the new state can be found any more, so the old one need not be there.
LEMMA InvSyncCurrent == Inv /\ SyncCurrent => Inv'
PROOF
<1> SUFFICES ASSUME Inv, SyncCurrent PROVE Inv'
  OBVIOUS
<1>1. pc = "currentWritten" /\ Types /\ Recoverable /\ WhenAfter
  BY DEF SyncCurrent, Inv
<1>2. /\ currentMay' = {current} /\ pc' = "currentSynced"
      /\ UNCHANGED <<disk, stable, data, current, metas, seqNo, op, acked, proposed, batches>>
  BY DEF SyncCurrent, OpUnchanged, AuxUnchanged, memVars
<1>3. current = seqNo /\ Core(metas, seqNo, proposed, disk, stable, data) /\ seqNo \in 1..MaxSeq
  BY <1>1 DEF WhenAfter, After
<1>4. Types'
  BY <1>1, <1>2 DEF Types, After
<1>5. Recoverable'
  BY <1>1, <1>2, <1>3 DEF Recoverable, NoFile
<1>6. WhenAfter'
  BY <1>1, <1>2, <1>3 DEF WhenAfter, After, NoFile
<1> QED BY <1>2, <1>4, <1>5, <1>6 DEF Inv, WhenDown, WhenInitializing, WhenBefore, WhenPrepared, WhenFailed, Before

-----------------------------------------------------------------------------
(* Removing the superseded files.                                          *)

\* OfKind(kind, S) lists the files of the kind with numbers in S.
LEMMA OfKindIs ==
  ASSUME NEW kind \in {"sst", "meta", "blob"}, NEW S, S \subseteq Seqs
  PROVE  OfKind(kind, S) \in Seq(Files) /\ ToSet(OfKind(kind, S)) = {<<kind, s>> : s \in S}
PROOF
<1> DEFINE a == Ascending(S)
           t == OfKind(kind, S)
<1>1. a \in Seq(Nat) /\ ToSet(a) = S /\ Len(a) \in Nat /\ DOMAIN a = 1..Len(a) /\ \A i \in 1..Len(a) : a[i] \in S
  <2>1. S \cap Seqs = S
    OBVIOUS
  <2> QED BY <2>1, AscendingIs, Zenon
<1>2. t = [i \in 1..Len(a) |-> <<kind, a[i]>>]
  BY <1>1 DEF OfKind
<1>3. ToSet(a) = {a[i] : i \in 1..Len(a)}
  BY <1>1, ToSetOf
<1> HIDE DEF a, t
<1>4. \A i \in 1..Len(a) : <<kind, a[i]>> \in Files
  BY <1>1 DEF Files, Kinds
<1>5. t \in Seq(Files) /\ Len(t) = Len(a)
  BY <1>1, <1>2, <1>4
<1>6. ToSet(t) = {t[i] : i \in 1..Len(t)}
  BY <1>5, ToSetOf
<1>7. ToSet(t) = {<<kind, s>> : s \in S}
  BY <1>1, <1>2, <1>3, <1>5, <1>6
<1> QED BY <1>5, <1>7 DEF t

\* The superseded files: no .del file, and all superseded meta files are among
\* them.
LEMMA SupersededIs ==
  ASSUME op.sstDel \cup op.metaDel \cup op.blobDel \subseteq Seqs
  PROVE  /\ Superseded \in Seq(Files)
         /\ \A f \in ToSet(Superseded) : f[1] # "del" /\ f[2] \in op.sstDel \cup op.metaDel \cup op.blobDel
         /\ \A n \in op.metaDel : <<"meta", n>> \in ToSet(Superseded)
PROOF
<1> DEFINE s == OfKind("sst", op.sstDel)
           m == OfKind("meta", op.metaDel)
           b == OfKind("blob", op.blobDel)
<1>1. s \in Seq(Files) /\ ToSet(s) = {<<"sst", n>> : n \in op.sstDel}
  BY OfKindIs
<1>2. m \in Seq(Files) /\ ToSet(m) = {<<"meta", n>> : n \in op.metaDel}
  BY OfKindIs
<1>3. b \in Seq(Files) /\ ToSet(b) = {<<"blob", n>> : n \in op.blobDel}
  BY OfKindIs
<1>4. Superseded = (s \o m) \o b
  BY DEF Superseded
<1> HIDE DEF s, m, b
<1> DEFINE sm == s \o m
<1>5. sm \in Seq(Files) /\ ToSet(sm) = ToSet(s) \cup ToSet(m)
  BY <1>1, <1>2, ToSetConcat
<1>6. Superseded = sm \o b
  BY <1>4
<1> HIDE DEF sm
<1>7. Superseded \in Seq(Files) /\ ToSet(Superseded) = ToSet(s) \cup ToSet(m) \cup ToSet(b)
  BY <1>3, <1>5, <1>6, ToSetConcat
<1> QED BY <1>1, <1>2, <1>3, <1>7

\* The elements of a prefix are elements of the sequence.
LEMMA PrefixOf ==
  ASSUME NEW S, NEW s \in Seq(S), NEW n \in 0..Len(s)
  PROVE  ToSet(SubSeq(s, 1, n)) \subseteq ToSet(s) /\ (n = 0 => ToSet(SubSeq(s, 1, n)) = {})
PROOF
<1> DEFINE t == SubSeq(s, 1, n)
<1>1. t \in Seq(S) /\ Len(t) = n /\ \A i \in 1..n : t[i] = s[i]
  OBVIOUS
<1>2. ToSet(s) = {s[i] : i \in 1..Len(s)} /\ Len(s) \in Nat
  BY ToSetOf
<1> HIDE DEF t
<1>3. ToSet(t) = {t[i] : i \in 1..Len(t)}
  BY <1>1, ToSetOf
<1> QED BY <1>1, <1>2, <1>3 DEF t

\* Files that a commit supersedes are not needed any more: the state stays
\* complete when some of them are gone.
LEMMA CoreRemoves ==
  ASSUME NEW ms, NEW c, NEW v, NEW dk, NEW st, NEW dat, Core(ms, c, v, dk, st, dat), DOMAIN dat = dk \cup st,
         NEW gone, \A f \in gone : f[2] \notin Needed(ms, dat),
         NEW dk2, dk2 = dk \ gone, dk2 \cup st = dk \cup st
  PROVE  Core(ms, c, v, dk2, st, dat)
PROOF
<1>1. HasNeeded(ms, dat, dk \cap st)
  BY CoreHas
<1>2. \A k, n : n \in Needed(ms, dat) => <<k, n>> \notin gone
  <2> TAKE k, n
  <2>1. <<k, n>>[2] = n
    OBVIOUS
  <2> QED BY <2>1
<1>3. HasNeeded(ms, dat, dk2 \cap st)
  BY <1>1, <1>2 DEF HasNeeded, Needed
<1> QED BY <1>3, CoreKeeps, Zenon

\* Removing what is superseded leaves the new state complete.
LEMMA InvRemoveAndFinish == Inv /\ RemoveAndFinish => Inv'
PROOF
<1> SUFFICES ASSUME Inv, RemoveAndFinish PROVE Inv'
  OBVIOUS
<1> DEFINE deleted == op.sstDel \cup op.metaDel \cup op.blobDel
           gone == ToSet(Superseded)
<1>1. pc = "currentSynced" /\ Types
  BY DEF RemoveAndFinish, Inv
<1>2. /\ Core(metas, seqNo, proposed, disk, stable, data)
      /\ op.seq = seqNo /\ seqNo \in 1..MaxSeq
      /\ deleted \subseteq 1..seqNo /\ deleted \cap Needed(metas, data) = {}
      /\ \A n \in 1..seqNo : <<"meta", n>> \in disk => n \in Numbers(metas) \cup op.metaDel
      /\ \A f \in disk : f[2] <= seqNo /\ (f[1] # "del" => f \in stable)
      /\ NoFile \notin currentMay /\ current = seqNo /\ currentMay = {seqNo}
  BY <1>1 DEF Inv, WhenAfter, After
<1>3. /\ disk' = disk \ gone /\ acked' = proposed /\ pc' = "idle" /\ op' = NoOp
      /\ UNCHANGED <<stable, data, current, currentMay, metas, seqNo, proposed, batches>>
  BY DEF RemoveAndFinish, AuxUnchanged, memVars
<1>4. seqNo \in Nat /\ deleted \subseteq Seqs
  BY <1>2, SeqAssumption DEF Seqs
<1>5. /\ \A f \in gone : f[1] # "del" /\ f[2] \in deleted
      /\ \A n \in op.metaDel : <<"meta", n>> \in gone
  BY <1>4, SupersededIs
<1> HIDE DEF gone, deleted
<1>6. disk' \cup stable' = disk \cup stable
  BY <1>2, <1>3, <1>5
<1>7. Core(metas', seqNo', acked', disk', stable', data')
  <2>1. \A f \in gone : f[2] \notin Needed(metas, data)
    BY <1>2, <1>5
  <2>2. DOMAIN data = disk \cup stable /\ disk' \cup stable = disk \cup stable
    BY <1>1, <1>3, <1>6 DEF Types
  <2>3. Core(metas, seqNo, proposed, disk', stable, data)
    BY <1>2, <1>3, <2>1, <2>2, CoreRemoves, Zenon
  <2> QED BY <1>3, <2>3
<1>8. Types'
  BY <1>1, <1>3, <1>6, SeqAssumption DEF Types, Before, NoOp
<1>9. Recoverable'
  BY <1>2, <1>3, <1>7 DEF Recoverable
<1>10. WhenBefore'
  <2>1. current' = seqNo' /\ currentMay' \cap Nat = {seqNo'}
    BY <1>2, <1>3, <1>4
  <2>2. \A n \in 1..seqNo' : <<"meta", n>> \in disk' => n \in Numbers(metas')
    BY <1>2, <1>3, <1>5
  <2> QED BY <1>2, <1>3, <1>7, <2>1, <2>2 DEF WhenBefore
<1> QED BY <1>3, <1>8, <1>9, <1>10
           DEF Inv, WhenDown, WhenInitializing, WhenPrepared, WhenAfter, WhenFailed, Before, After

\* A failed commit, whatever part of the removals was done, leaves a complete
\* state in memory.
LEMMA InvFail == Inv /\ Fail => Inv'
PROOF
<1> SUFFICES ASSUME Inv, Fail PROVE Inv'
  OBVIOUS
<1> DEFINE deleted == op.sstDel \cup op.metaDel \cup op.blobDel
<1>1. Types /\ Recoverable
  BY DEF Inv
<1>2. /\ pc' = "failed"
      /\ UNCHANGED <<stable, data, current, currentMay, metas, seqNo, op, acked, proposed, batches>>
  BY DEF Fail, OpUnchanged, AuxUnchanged, memVars
<1>3. CASE pc # "currentSynced"
  <2>1. disk' = disk
    <3>1. disk' = disk \ ToSet(SubSeq(Superseded, 1, 0))
      BY <1>3 DEF Fail
    <3>2. ToSet(SubSeq(Superseded, 1, 0)) = {}
      BY DEF ToSet
    <3> QED BY <3>1, <3>2
  <2>2. \E v : Core(metas, seqNo, v, disk, stable, data)
    BY <1>3 DEF Fail, Inv, WhenBefore, WhenAfter, Before, After
  <2>3. Types' /\ Recoverable'
    BY <1>1, <1>2, <2>1 DEF Types, Recoverable, After
  <2> QED BY <1>2, <2>1, <2>2, <2>3
             DEF Inv, WhenDown, WhenInitializing, WhenBefore, WhenPrepared, WhenAfter, WhenFailed, Before, After
<1>4. CASE pc = "currentSynced"
  <2>1. /\ Core(metas, seqNo, proposed, disk, stable, data)
        /\ seqNo \in 1..MaxSeq
        /\ deleted \subseteq 1..seqNo /\ deleted \cap Needed(metas, data) = {}
        /\ \A f \in disk : f[1] # "del" => f \in stable
        /\ current = seqNo /\ currentMay = {seqNo}
    BY <1>4 DEF Inv, WhenAfter, After
  <2>2. deleted \subseteq Seqs
    BY <2>1, SeqAssumption DEF Seqs
  <2>3. Superseded \in Seq(Files) /\ \A f \in ToSet(Superseded) : f[1] # "del" /\ f[2] \in deleted
    BY <2>2, SupersededIs
  <2>4. PICK n \in 0..Len(Superseded) : disk' = disk \ ToSet(SubSeq(Superseded, 1, n))
    BY <1>4 DEF Fail
  <2> DEFINE gone == ToSet(SubSeq(Superseded, 1, n))
  <2>5. gone \subseteq ToSet(Superseded)
    BY <2>3, PrefixOf
  <2> HIDE DEF gone, deleted
  <2>6. disk' = disk \ gone /\ \A f \in gone : f[1] # "del" /\ f[2] \notin Needed(metas, data)
    BY <2>1, <2>3, <2>4, <2>5 DEF gone
  <2>7. disk' \cup stable = disk \cup stable
    BY <2>1, <2>6
  <2>8. Core(metas, seqNo, proposed, disk', stable, data)
    BY <1>1, <2>1, <2>6, <2>7, CoreRemoves, Zenon DEF Types
  <2>9. Types'
    BY <1>1, <1>2, <2>6, <2>7 DEF Types
  <2>10. Recoverable'
    <3>1. NoFile \notin currentMay /\ currentMay \cap Nat \subseteq {seqNo}
      BY <2>1 DEF NoFile
    <3> QED BY <1>2, <2>8, <3>1 DEF Recoverable
  <2> QED BY <1>2, <2>8, <2>9, <2>10
             DEF Inv, WhenDown, WhenInitializing, WhenBefore, WhenPrepared, WhenAfter, WhenFailed, Before, After
<1> QED BY <1>3, <1>4

\* Whatever part of the unsynced files and names a crash leaves, each state
\* CURRENT may name is complete.
LEMMA InvCrash == Inv /\ Crash => Inv'
PROOF
<1> SUFFICES ASSUME Inv, Crash PROVE Inv'
  OBVIOUS
<1>1. Types /\ Recoverable
  BY DEF Inv
<1>2. /\ stable' = disk' /\ data' = Forget(data) /\ current' \in currentMay /\ currentMay' = {current'}
      /\ current' = NoFile => disk' = {}
      /\ metas' = <<>> /\ seqNo' = 0 /\ pc' = "down" /\ op' = NoOp
      /\ UNCHANGED <<acked, proposed, batches>>
  BY DEF Crash
<1>3. disk \cap stable \subseteq disk' /\ disk' \subseteq disk \cup stable
  <2>1. PICK odd \in Few(Unstable) : disk' = (disk \cap stable) \cup odd \/ disk' = (disk \cup stable) \ odd
    BY DEF Crash
  <2>2. odd \subseteq Unstable
    <3>1. CASE odd = {}
      BY <3>1
    <3>2. CASE \E t \in [1..MaxOdd -> Unstable] : odd = ToSet(t)
      <4>1. PICK t \in [1..MaxOdd -> Unstable] : odd = ToSet(t)
        BY <3>2
      <4> QED BY <4>1 DEF ToSet
    <3> QED BY <3>1, <3>2 DEF Few
  <2> QED BY <2>1, <2>2 DEF Unstable
<1>4. DOMAIN data' = disk' /\ \A f \in disk' : data'[f] = data[f]
  BY <1>1, <1>2, <1>3 DEF Types, Forget
<1>5. Types'
  BY <1>1, <1>2, <1>3, <1>4, SeqAssumption DEF Types, NoOp
<1>6. Recoverable'
  <2>1. ASSUME NEW c \in currentMay' \cap Nat
        PROVE  \E ms, v : v \in {acked', proposed'} /\ Core(ms, c, v, disk', stable', data')
    <3>1. c \in currentMay \cap Nat
      BY <1>2, <2>1
    <3>2. PICK ms, v : v \in {acked, proposed} /\ Core(ms, c, v, disk, stable, data)
      BY <1>1, <3>1 DEF Recoverable
    <3>3. HasNeeded(ms, data, disk' \cap disk')
      <4>1. HasNeeded(ms, data, disk \cap stable)
        BY <3>2, CoreHas
      <4> QED BY <1>3, <4>1 DEF HasNeeded
    <3>4. Core(ms, c, v, disk', disk', data')
      <4>1. DOMAIN data = disk \cup stable /\ disk' \cup disk' \subseteq disk \cup stable
            /\ disk' \cup disk' \subseteq DOMAIN data'
        BY <1>1, <1>3, <1>4 DEF Types
      <4>2. \A f \in disk' \cup disk' : data'[f] = data[f]
        BY <1>4
      <4> QED BY <3>2, <3>3, <4>1, <4>2, CoreKeeps, Zenon
    <3> QED BY <1>2, <3>2, <3>4
  <2>2. NoFile \in currentMay' => acked' = Empty
    BY <1>1, <1>2 DEF Recoverable
  <2> QED BY <2>1, <2>2 DEF Recoverable
<1>7. WhenDown'
  BY <1>2 DEF WhenDown
<1> QED BY <1>2, <1>5, <1>6, <1>7
           DEF Inv, WhenInitializing, WhenBefore, WhenPrepared, WhenAfter, WhenFailed, Before, After

\* Where an element of a finite set comes in the sequence made of it.
LEMMA SetIndexIs ==
  ASSUME NEW S, IsFiniteSet(S)
  PROVE  /\ Cardinality(S) \in Nat
         /\ \A x \in S : SetIndex(SetToSeq(S), x) \in 1..Cardinality(S)
         /\ \A x, y \in S : SetIndex(SetToSeq(S), x) = SetIndex(SetToSeq(S), y) => x = y
PROOF
<1> DEFINE n == Cardinality(S)
           s == SetToSeq(S)
<1>1. n \in Nat /\ ExistsBijection(1..n, S)
  BY FS_CardinalityType
<1>2. \E f \in [1..n -> S] : IsInjective(f)
  BY <1>1 DEF ExistsBijection, Bijection, Injection, IsInjective
<1>3. s \in [1..n -> S] /\ IsInjective(s)
  BY <1>2 DEF SetToSeq
<1> HIDE DEF s
<1>4. IsFiniteSet(1..n) /\ Cardinality(1..n) = n
  <2>1. 1 \in Int /\ n \in Int
    BY <1>1
  <2>2. IsFiniteSet(1..n) /\ Cardinality(1..n) = IF 1 > n THEN 0 ELSE n - 1 + 1
    BY <2>1, FS_Interval
  <2> QED BY <1>1, <2>2
<1>5. s \in Surjection(1..n, S)
  <2>1. s \in Injection(1..n, S)
    BY <1>3 DEF Injection
  <2> QED BY <1>4, <2>1, FS_Injection
<1>6. ASSUME NEW x \in S PROVE SetIndex(s, x) \in 1..n /\ s[SetIndex(s, x)] = x
  <2>1. \E i \in DOMAIN s : s[i] = x
    BY <1>3, <1>5 DEF Surjection
  <2> QED BY <1>3, <2>1 DEF SetIndex
<1>7. \A x, y \in S : SetIndex(s, x) = SetIndex(s, y) => x = y
  <2> TAKE x \in S, y \in S
  <2>1. s[SetIndex(s, x)] = x /\ s[SetIndex(s, y)] = y
    BY <1>6
  <2> QED BY <2>1
<1> QED BY <1>1, <1>6, <1>7 DEF s

\* A write batch or a compaction has written its files, numbered above the
\* state the process has, and nothing else has changed.
LEMMA InvWritten ==
  ASSUME Inv, pc = "idle", pc' = "written", batches' \in Nat, op'.seq = op'.meta,
         disk' = disk \cup op'.files, op'.files \subseteq Files, DOMAIN data' = disk' \cup stable',
         \A f \in disk \cup stable : f \notin op'.files => data'[f] = data[f],
         UNCHANGED <<stable, current, currentMay, metas, seqNo, acked>>,
         Prepared(metas, op', seqNo, proposed', disk', data')
  PROVE  Inv'
PROOF
<1>1. Types /\ Recoverable
  BY DEF Inv
<1>2. /\ Core(metas, seqNo, acked, disk, stable, data)
      /\ current = seqNo /\ currentMay \cap Nat = {seqNo}
      /\ \A n \in 1..seqNo : <<"meta", n>> \in disk => n \in Numbers(metas)
      /\ \A f \in disk : f[2] <= seqNo
  BY DEF Inv, WhenBefore, Before
<1>3. op'.meta \in seqNo + 1..MaxSeq - 1 /\ \A f \in op'.files : f[2] \in seqNo + 1..op'.meta
  BY DEF Prepared
<1>4. seqNo \in Nat /\ MaxSeq \in Nat
  BY <1>2, SeqAssumption DEF Core
<1>5. \A k, n : n \in 1..seqNo => <<k, n>> \notin op'.files
  <2> TAKE k, n
  <2> HAVE n \in 1..seqNo
  <2>1. <<k, n>>[2] = n
    OBVIOUS
  <2> QED BY <1>3, <1>4, <2>1
<1>6. Core(metas, seqNo, acked, disk', stable', data')
  <2>1. Frame(Kinds, seqNo, disk, stable, data, disk', stable', data')
    BY <1>5 DEF Frame
  <2>2. HasNeeded(metas, data, disk' \cap stable')
    BY <1>2, CoreHas DEF HasNeeded
  <2>3. disk \cup stable \subseteq DOMAIN data /\ disk' \cup stable' \subseteq DOMAIN data'
    BY <1>1 DEF Types
  <2> QED BY <1>2, <2>1, <2>2, <2>3, CoreFrame
<1>7. Types'
  BY <1>1, <1>3, <1>4 DEF Types, Before
<1>8. Recoverable'
  <2>1. NoFile \in currentMay' => acked' = Empty
    BY <1>1 DEF Recoverable
  <2> QED BY <1>2, <1>6, <2>1 DEF Recoverable
<1>9. WhenBefore'
  <2>1. \A n \in 1..seqNo : <<"meta", n>> \in disk' => n \in Numbers(metas)
    BY <1>2, <1>5
  <2> QED BY <1>2, <1>6, <2>1 DEF WhenBefore
<1>10. WhenPrepared'
  BY DEF WhenPrepared
<1> QED BY <1>7, <1>8, <1>9, <1>10 DEF Inv, WhenDown, WhenInitializing, WhenAfter, WhenFailed, After

\* The sequence numbers of a write batch.
LEMMA BatchNumbers ==
  ASSUME NEW b \in Batches, seqNo \in Nat
  PROVE  /\ MetaSeq(b) \in Nat /\ seqNo < MetaSeq(b) /\ Blobs(b) \subseteq Written(b) /\ Written(b) \subseteq Keys
         /\ \A k \in Written(b) : SstSeq(b, k) \in seqNo + 1..MetaSeq(b) - 1
         /\ \A k \in Blobs(b) : BlobSeq(b, k) \in seqNo + 1..MetaSeq(b) - 1
         /\ \A k \in Blobs(b), l \in Written(b) : BlobSeq(b, k) # SstSeq(b, l)
         /\ \A k, l \in Written(b) : SstSeq(b, k) = SstSeq(b, l) => k = l
         /\ \A k, l \in Blobs(b) : BlobSeq(b, k) = BlobSeq(b, l) => k = l
PROOF
<1> DEFINE B == Blobs(b)
           W == Written(b)
           nb == Cardinality(B)
           nw == Cardinality(W)
           ib(k) == SetIndex(SetToSeq(B), k)
           iw(k) == SetIndex(SetToSeq(W), k)
<1>1. B \subseteq Keys /\ W \subseteq Keys /\ B \subseteq W
  BY DEF Blobs, Written
<1>2. IsFiniteSet(B) /\ IsFiniteSet(W)
  BY <1>1, BatchAssumption, FS_Subset
<1>3. nb \in Nat /\ (\A k \in B : ib(k) \in 1..nb) /\ \A k, l \in B : ib(k) = ib(l) => k = l
  BY <1>2, SetIndexIs
<1>4. nw \in Nat /\ (\A k \in W : iw(k) \in 1..nw) /\ \A k, l \in W : iw(k) = iw(l) => k = l
  BY <1>2, SetIndexIs
<1>5. /\ MetaSeq(b) = seqNo + nb + nw + 1
      /\ \A k : BlobSeq(b, k) = seqNo + ib(k) /\ SstSeq(b, k) = seqNo + nb + iw(k)
  BY DEF MetaSeq, BlobSeq, SstSeq
<1> HIDE DEF B, W, nb, nw, ib, iw
<1>6. MetaSeq(b) \in Nat /\ seqNo < MetaSeq(b)
  BY <1>3, <1>4, <1>5
<1>7. \A k \in W : SstSeq(b, k) \in seqNo + 1..MetaSeq(b) - 1 /\ SstSeq(b, k) > seqNo + nb
  BY <1>3, <1>4, <1>5
<1>8. \A k \in B : BlobSeq(b, k) \in seqNo + 1..MetaSeq(b) - 1 /\ BlobSeq(b, k) <= seqNo + nb
  BY <1>3, <1>4, <1>5
<1>9. \A k, l \in W : SstSeq(b, k) = SstSeq(b, l) => k = l
  <2> TAKE k \in W, l \in W
  <2>1. iw(k) \in Nat /\ iw(l) \in Nat
    BY <1>4
  <2> QED BY <1>3, <1>4, <1>5, <2>1
<1>10. \A k, l \in B : BlobSeq(b, k) = BlobSeq(b, l) => k = l
  <2> TAKE k \in B, l \in B
  <2>1. ib(k) \in Nat /\ ib(l) \in Nat
    BY <1>3
  <2> QED BY <1>3, <1>5, <2>1
<1>11. \A k \in B, l \in W : BlobSeq(b, k) # SstSeq(b, l)
  <2> TAKE k \in B, l \in W
  <2>1. BlobSeq(b, k) \in Nat /\ SstSeq(b, l) \in Nat /\ seqNo + nb \in Nat
    BY <1>3, <1>4, <1>5
  <2> QED BY <1>7, <1>8, <2>1
<1> QED BY <1>1, <1>6, <1>7, <1>8, <1>9, <1>10, <1>11 DEF B, W

\* What a write batch leaves in its files.
LEMMA BatchFiles ==
  ASSUME Types, seqNo \in Nat, NEW b \in Batches, WriteBatch(b),
         NEW ssts, ssts = {SstSeq(b, k) : k \in Written(b)}
  PROVE  /\ op'.meta = MetaSeq(b) /\ op'.seq = MetaSeq(b) /\ MetaSeq(b) < MaxSeq
         /\ op'.sstDel = {} /\ op'.metaDel = {} /\ op'.blobDel = {}
         /\ op'.files \subseteq Files
         /\ \A f \in op'.files : \/ f = <<"meta", MetaSeq(b)>>
                                 \/ \E s \in ssts : f = <<"sst", s>>
                                 \/ \E k \in Blobs(b) : f = <<"blob", BlobSeq(b, k)>>
         /\ <<"meta", MetaSeq(b)>> \in op'.files
         /\ \A s \in ssts : <<"sst", s>> \in op'.files
         /\ \A k \in Blobs(b) : <<"blob", BlobSeq(b, k)>> \in op'.files
         /\ disk' = disk \cup op'.files /\ DOMAIN data' = disk' \cup stable'
         /\ \A f \in disk \cup stable : f \notin op'.files => data'[f] = data[f]
         /\ Raw(data', MetaSeq(b)) = [entries |-> Ascending(ssts), obsolete |-> {}]
         /\ \A s \in ssts : data'[<<"sst", s>>] =
              [k \in Keys |-> IF k \in Written(b) /\ SstSeq(b, k) = s THEN Entry(b, k) ELSE Absent]
PROOF
<1> DEFINE meta == MetaSeq(b)
           new == {<<"blob", BlobSeq(b, k)>> : k \in Blobs(b)} \cup {<<"sst", s>> : s \in ssts} \cup {<<"meta", meta>>}
           contents(f) ==
             CASE f[1] = "sst"  -> [k \in Keys |-> IF k \in Written(b) /\ SstSeq(b, k) = f[2] THEN Entry(b, k) ELSE Absent]
               [] f[1] = "meta" -> [entries |-> Ascending(ssts), obsolete |-> {}]
               [] OTHER         -> {}
<1>1. /\ op' = [NoOp EXCEPT !.files = new, !.meta = meta, !.seq = meta]
      /\ meta < MaxSeq /\ disk' = disk \cup new /\ stable' = stable
      /\ data' = Writing([f \in new |-> contents(f)])
  BY DEF WriteBatch, Put
<1>2. /\ op'.files = new /\ op'.meta = meta /\ op'.seq = meta
      /\ op'.sstDel = {} /\ op'.metaDel = {} /\ op'.blobDel = {}
  BY <1>1 DEF NoOp
<1>3. \A f \in new : \/ f = <<"meta", meta>>
                     \/ \E s \in ssts : f = <<"sst", s>>
                     \/ \E k \in Blobs(b) : f = <<"blob", BlobSeq(b, k)>>
  OBVIOUS
<1>4. /\ <<"meta", meta>> \in new /\ \A s \in ssts : <<"sst", s>> \in new
      /\ \A k \in Blobs(b) : <<"blob", BlobSeq(b, k)>> \in new
  OBVIOUS
<1>5. contents(<<"meta", meta>>) = [entries |-> Ascending(ssts), obsolete |-> {}]
  OBVIOUS
<1>6. \A s \in ssts : contents(<<"sst", s>>) =
        [k \in Keys |-> IF k \in Written(b) /\ SstSeq(b, k) = s THEN Entry(b, k) ELSE Absent]
  OBVIOUS
<1> HIDE DEF new, contents
<1>7. /\ DOMAIN data' = disk' \cup stable'
      /\ \A f \in new : data'[f] = contents(f)
      /\ \A f \in disk \cup stable : f \notin new => data'[f] = data[f]
  BY <1>1 DEF Writing
<1>8. new \subseteq Files
  <2>1. /\ meta \in Seqs /\ \A s \in ssts : s \in Seqs
        /\ \A k \in Blobs(b) : BlobSeq(b, k) \in Seqs
    <3>1. /\ meta \in Nat /\ seqNo < meta
          /\ \A k \in Written(b) : SstSeq(b, k) \in seqNo + 1..meta - 1
          /\ \A k \in Blobs(b) : BlobSeq(b, k) \in seqNo + 1..meta - 1
      BY BatchNumbers
    <3> HIDE DEF meta
    <3>2. \A n \in seqNo + 1..meta - 1 : n \in Seqs
      BY <1>1, <3>1, SeqAssumption DEF Seqs
    <3>3. meta \in Seqs
      BY <1>1, <3>1, SeqAssumption DEF Seqs
    <3> QED BY <3>1, <3>2, <3>3
  <2> QED BY <1>3, <2>1 DEF Files, Kinds
<1>9. Raw(data', meta) = [entries |-> Ascending(ssts), obsolete |-> {}]
  BY <1>4, <1>5, <1>7 DEF Raw
<1>10. \A s \in ssts : data'[<<"sst", s>>] = contents(<<"sst", s>>)
  BY <1>4, <1>7, Zenon
<1> QED BY <1>1, <1>2, <1>3, <1>4, <1>6, <1>7, <1>8, <1>9, <1>10

\* From the files dk with contents dat to dk2 with dat2 only the files new,
\* numbered above c, have been written.
Adds(new, c, dk, dat, dk2, dat2) ==
  /\ dk \subseteq dk2 /\ dk2 \subseteq DOMAIN dat2
  /\ \A f \in new : f[2] > c
  /\ \A f \in dk : f \notin new => dat2[f] = dat[f]

\* New files above the state c leave its SSTs alone.
LEMMA OldTables ==
  ASSUME NEW ms, NEW c \in Nat, NEW v, NEW dk, NEW st, NEW dat, Core(ms, c, v, dk, st, dat), dk \subseteq DOMAIN dat,
         NEW new, NEW dk2, NEW dat2, Adds(new, c, dk, dat, dk2, dat2)
  PROVE  LET L == LiveSsts(ms)
         IN /\ Tables(L, dk2, dat2) /\ BlobRefs(L, dat2) = BlobRefs(L, dat) /\ ContentOf(L, dat2) = v
            /\ \A s \in ToSet(L) : s \in 1..c /\ dat2[<<"sst", s>>] = dat[<<"sst", s>>]
            /\ BlobRefs(L, dat) \subseteq 1..c
PROOF
<1> DEFINE L == LiveSsts(ms)
<1>1. /\ ToSet(L) \subseteq 1..c /\ BlobRefs(L, dat) \subseteq 1..c /\ Tables(L, dk \cap st, dat)
      /\ ContentOf(L, dat) = v
  BY DEF Core, Needed
<1> HIDE DEF L
<1>2. \A k, n : n \in 1..c => <<k, n>> \notin new
  <2> TAKE k, n
  <2> HAVE n \in 1..c
  <2>1. <<k, n>>[2] = n
    OBVIOUS
  <2> QED BY <2>1 DEF Adds
<1>3. \A s \in ToSet(L) : <<"sst", s>> \in dk
  BY <1>1, Zenon DEF Tables
<1>4. \A s \in ToSet(L) : <<"sst", s>> \in dk2 /\ dat2[<<"sst", s>>] = dat[<<"sst", s>>]
  BY <1>1, <1>2, <1>3, Zenon DEF Adds
<1>5. \A x \in BlobRefs(L, dat) : <<"blob", x>> \in dk2
  BY <1>1, Zenon DEF Tables, Adds
<1>6. dk \cap st \subseteq DOMAIN dat /\ dk2 \subseteq DOMAIN dat2
  BY DEF Adds
<1>7. BlobRefs(L, dat2) = BlobRefs(L, dat) /\ Tables(L, dk2, dat2) /\ ContentOf(L, dat2) = ContentOf(L, dat)
  BY <1>1, <1>4, <1>5, <1>6, TablesAgree
<1> QED BY <1>1, <1>4, <1>7 DEF L

\* The files of a write batch prepare a state with the contents the batch
\* leaves.
LEMMA BatchPrepared ==
  ASSUME Inv, NEW b \in Batches, WriteBatch(b)
  PROVE  Prepared(metas, op', seqNo, proposed', disk', data')
PROOF
<1> DEFINE L == LiveSsts(metas)
           N == MetaSeq(b)
           ssts == {SstSeq(b, k) : k \in Written(b)}
           E == Ascending(ssts)
           dat == data'
<1>1. /\ pc = "idle" /\ Types
      /\ Core(metas, seqNo, acked, disk, stable, data)
      /\ \A f \in disk : f[2] <= seqNo
  BY DEF WriteBatch, Inv, WhenBefore, Before
<1>2. seqNo \in Nat /\ MaxSeq \in Nat /\ b \in [Keys -> Writes] /\ batches \in Nat
  BY <1>1, SeqAssumption, BatchAssumption DEF Core, Types
<1>3. /\ N \in Nat /\ seqNo < N /\ Blobs(b) \subseteq Written(b) /\ Written(b) \subseteq Keys
      /\ \A k \in Written(b) : SstSeq(b, k) \in seqNo + 1..N - 1
      /\ \A k \in Blobs(b) : BlobSeq(b, k) \in seqNo + 1..N - 1
      /\ \A k \in Blobs(b), l \in Written(b) : BlobSeq(b, k) # SstSeq(b, l)
      /\ \A k, l \in Written(b) : SstSeq(b, k) = SstSeq(b, l) => k = l
      /\ \A k, l \in Blobs(b) : BlobSeq(b, k) = BlobSeq(b, l) => k = l
  BY <1>2, BatchNumbers
<1>4. /\ op'.meta = N /\ op'.seq = N /\ N < MaxSeq
      /\ op'.sstDel = {} /\ op'.metaDel = {} /\ op'.blobDel = {}
      /\ op'.files \subseteq Files
      /\ \A f \in op'.files : \/ f = <<"meta", N>>
                              \/ \E s \in ssts : f = <<"sst", s>>
                              \/ \E k \in Blobs(b) : f = <<"blob", BlobSeq(b, k)>>
      /\ <<"meta", N>> \in op'.files
      /\ \A s \in ssts : <<"sst", s>> \in op'.files
      /\ \A k \in Blobs(b) : <<"blob", BlobSeq(b, k)>> \in op'.files
      /\ disk' = disk \cup op'.files /\ DOMAIN dat = disk' \cup stable'
      /\ \A f \in disk \cup stable : f \notin op'.files => dat[f] = data[f]
      /\ Raw(dat, N) = [entries |-> E, obsolete |-> {}]
      /\ \A s \in ssts : dat[<<"sst", s>>] =
           [k \in Keys |-> IF k \in Written(b) /\ SstSeq(b, k) = s THEN Entry(b, k) ELSE Absent]
  BY <1>1, <1>2, BatchFiles
<1>5. proposed' = [k \in Keys |-> IF b[k] = "none" THEN acked[k] ELSE Visible(Entry(b, k))]
  BY DEF WriteBatch
<1>6. \A s \in ssts : s \in seqNo + 1..N - 1 /\ \E k \in Written(b) : s = SstSeq(b, k)
  BY <1>3
<1>7. \A k \in Written(b) : /\ Entry(b, k) \in {"val", "blob", "deleted"} \X Nat
                            /\ Entry(b, k)[1] = "blob" <=> k \in Blobs(b)
                            /\ k \in Blobs(b) => Entry(b, k) = <<"blob", BlobSeq(b, k)>>
  <2> TAKE k \in Written(b)
  <2>1. k \in Keys /\ b[k] \in {"val", "blob", "deleted"}
    BY <1>2 DEF Written, Writes
  <2>2. k \in Blobs(b) <=> b[k] = "blob"
    BY <2>1 DEF Blobs
  <2>3. CASE b[k] = "val"
    BY <1>2, <2>2, <2>3 DEF Entry
  <2>4. CASE b[k] = "blob"
    BY <1>2, <1>3, <2>2, <2>4 DEF Entry
  <2>5. CASE b[k] = "deleted"
    BY <2>2, <2>5 DEF Entry
  <2> QED BY <2>1, <2>3, <2>4, <2>5
<1>8. ssts \subseteq Seqs
  <2>1. \A n \in seqNo + 1..N - 1 : n \in Seqs
    BY <1>2, <1>3, <1>4 DEF Seqs
  <2> QED BY <1>6, <2>1
<1> HIDE DEF L, N, ssts, dat
<1>9. /\ E \in Seq(Nat) /\ ToSet(E) = ssts /\ Len(E) \in Nat
      /\ \A i \in 1..Len(E) : E[i] \in ssts
      /\ \A i, j \in 1..Len(E) : i < j => E[i] < E[j]
  <2>1. ssts \cap Seqs = ssts
    BY <1>8
  <2> QED BY <2>1, AscendingIs, Zenon
<1> HIDE DEF E
<1>10. \A f \in op'.files : /\ f[2] \in seqNo + 1..N /\ f[1] # "del" /\ f[2] > seqNo
                            /\ f[1] = "meta" => f[2] = N
  BY <1>2, <1>3, <1>4, <1>6
<1>11. /\ Tables(L, disk', dat) /\ BlobRefs(L, dat) = BlobRefs(L, data) /\ ContentOf(L, dat) = acked
       /\ \A s \in ToSet(L) : s \in 1..seqNo /\ dat[<<"sst", s>>] = data[<<"sst", s>>]
       /\ BlobRefs(L, data) \subseteq 1..seqNo
  <2>1. disk \subseteq DOMAIN data
    BY <1>1 DEF Types
  <2>2. Adds(op'.files, seqNo, disk, data, disk', dat)
    BY <1>4, <1>10 DEF Adds
  <2>4. /\ Tables(LiveSsts(metas), disk', dat) /\ BlobRefs(LiveSsts(metas), dat) = BlobRefs(LiveSsts(metas), data)
        /\ ContentOf(LiveSsts(metas), dat) = acked
        /\ \A s \in ToSet(LiveSsts(metas)) : s \in 1..seqNo /\ dat[<<"sst", s>>] = data[<<"sst", s>>]
        /\ BlobRefs(LiveSsts(metas), data) \subseteq 1..seqNo
    BY <1>1, <1>2, <2>1, <2>2, OldTables
  <2> QED BY <2>4 DEF L
<1>12. L \in Seq(Nat) /\ Len(L) \in Nat /\ \A i \in 1..Len(L) : L[i] \in ToSet(L)
  <2>1. L \in Seq(Nat)
    BY <1>11 DEF Tables
  <2> QED BY <2>1, ToSetOf
<1>13. NextSsts(metas, op', dat) = L \o E
  <2>1. RawMentions(dat, N) = ssts
    BY <1>4, <1>9 DEF RawMentions
  <2>2. \A s \in ToSet(L) : s \notin ssts
    <3> TAKE s \in ToSet(L)
    <3>1. s \in 1..seqNo
      BY <1>11, Zenon
    <3> QED BY <1>2, <1>6, <3>1
  <2>3. Without(L, ssts) = L
    BY <1>12, <2>2, WithoutNothing
  <2> QED BY <1>4, <2>1, <2>3 DEF NextSsts, L
<1> DEFINE next == L \o E
<1>14. next \in Seq(Nat) /\ ToSet(next) = ToSet(L) \cup ssts
  BY <1>9, <1>12, ToSetConcat
<1>15. Len(next) = Len(L) + Len(E) /\ \A i \in 1..Len(next) : next[i] = IF i <= Len(L) THEN L[i] ELSE E[i - Len(L)]
  BY <1>9, <1>12
<1>16. \A i, j \in 1..Len(next) : next[i] = next[j] => i = j
  <2> SUFFICES ASSUME NEW i \in 1..Len(next), NEW j \in 1..Len(next), next[i] = next[j] PROVE i = j
    OBVIOUS
  <2>1. \A x \in 1..Len(L), y \in 1..Len(E) : L[x] # E[y]
    <3> TAKE x \in 1..Len(L), y \in 1..Len(E)
    <3>1. L[x] \in 1..seqNo /\ E[y] \in seqNo + 1..N - 1
      BY <1>6, <1>9, <1>11, <1>12, Zenon
    <3> QED BY <1>2, <3>1
  <2>2. CASE i <= Len(L) /\ j <= Len(L)
    <3>1. i \in 1..Len(L) /\ j \in 1..Len(L) /\ L[i] = L[j]
      BY <1>12, <1>15, <2>2
    <3> QED BY <1>11, <3>1 DEF Tables
  <2>3. CASE ~ (i <= Len(L)) /\ ~ (j <= Len(L))
    <3>1. i - Len(L) \in 1..Len(E) /\ j - Len(L) \in 1..Len(E) /\ E[i - Len(L)] = E[j - Len(L)]
      BY <1>9, <1>12, <1>15, <2>3
    <3>2. \A x, y \in 1..Len(E) : E[x] = E[y] => x = y
      <4> TAKE x \in 1..Len(E), y \in 1..Len(E)
      <4>1. E[x] \in Nat /\ E[y] \in Nat /\ (x < y => E[x] < E[y]) /\ (y < x => E[y] < E[x])
        BY <1>9, SMTT(30)
      <4> QED BY <4>1
    <3> QED BY <1>9, <1>12, <3>1, <3>2, SMTT(30)
  <2>4. CASE i <= Len(L) /\ ~ (j <= Len(L))
    <3>1. i \in 1..Len(L) /\ j - Len(L) \in 1..Len(E) /\ L[i] = E[j - Len(L)]
      BY <1>9, <1>12, <1>15, <2>4
    <3> QED BY <2>1, <3>1
  <2>5. CASE ~ (i <= Len(L)) /\ j <= Len(L)
    <3>1. j \in 1..Len(L) /\ i - Len(L) \in 1..Len(E) /\ L[j] = E[i - Len(L)]
      BY <1>9, <1>12, <1>15, <2>5
    <3> QED BY <2>1, <3>1
  <2> QED BY <2>2, <2>3, <2>4, <2>5
<1> HIDE DEF next
\* The SST of a key holds its entry and nothing else.
<1>17. \A l \in Written(b), k \in Keys :
         /\ SstSeq(b, l) \in ssts
         /\ dat[<<"sst", SstSeq(b, l)>>][k] = IF k = l THEN Entry(b, k) ELSE Absent
  <2> TAKE l \in Written(b), k \in Keys
  <2>1. SstSeq(b, l) \in ssts
    BY DEF ssts
  <2>2. dat[<<"sst", SstSeq(b, l)>>][k] = IF k \in Written(b) /\ SstSeq(b, k) = SstSeq(b, l) THEN Entry(b, k) ELSE Absent
    <3> DEFINE s == SstSeq(b, l)
    <3>1. dat[<<"sst", s>>] = [j \in Keys |-> IF j \in Written(b) /\ SstSeq(b, j) = s THEN Entry(b, j) ELSE Absent]
      BY <1>4, <2>1, Zenon
    <3> HIDE DEF s
    <3>2. dat[<<"sst", s>>][k] = IF k \in Written(b) /\ SstSeq(b, k) = s THEN Entry(b, k) ELSE Absent
      BY <3>1, Zenon
    <3> QED BY <3>2 DEF s
  <2> QED BY <1>3, <2>1, <2>2
<1>18. \A s \in ssts : <<"sst", s>> \in disk' /\ dat[<<"sst", s>>] \in Table
  <2> TAKE s \in ssts
  <2>1. \A k \in Keys : (IF k \in Written(b) /\ SstSeq(b, k) = s THEN Entry(b, k) ELSE Absent)
                          \in {"absent", "val", "blob", "deleted"} \X Nat
    BY <1>7 DEF Absent
  <2>2. dat[<<"sst", s>>] = [k \in Keys |-> IF k \in Written(b) /\ SstSeq(b, k) = s THEN Entry(b, k) ELSE Absent]
    BY <1>4
  <2> QED BY <1>4, <2>1, <2>2 DEF Table
<1>19. \A s \in ssts, k \in Keys : dat[<<"sst", s>>][k][1] = "blob" =>
         /\ k \in Blobs(b) /\ s = SstSeq(b, k) /\ dat[<<"sst", s>>][k] = <<"blob", BlobSeq(b, k)>>
  <2> TAKE s \in ssts, k \in Keys
  <2> HAVE dat[<<"sst", s>>][k][1] = "blob"
  <2>1. PICK l \in Written(b) : s = SstSeq(b, l)
    BY <1>6
  <2>2. k = l
    BY <1>17, <2>1 DEF Absent
  <2> QED BY <1>7, <1>17, <2>1, <2>2
<1>20. \A s \in ToSet(L), k \in Keys : dat[<<"sst", s>>][k][1] = "blob" =>
         dat[<<"sst", s>>][k] = <<"blob", dat[<<"sst", s>>][k][2]>> /\ dat[<<"sst", s>>][k][2] \in BlobRefs(L, dat)
  <2> TAKE s \in ToSet(L), k \in Keys
  <2> DEFINE e == dat[<<"sst", s>>][k]
  <2> HAVE e[1] = "blob"
  <2>1. e \in {"absent", "val", "blob", "deleted"} \X Nat
    BY <1>11 DEF Tables, Table
  <2>2. e = <<"blob", e[2]>> /\ e[2] \in Nat
    BY <2>1
  <2> QED BY <2>2 DEF BlobRefs
<1>21. \A x \in BlobRefs(next, dat) : x \in BlobRefs(L, dat) \/ \E k \in Blobs(b) : x = BlobSeq(b, k)
  <2> TAKE x \in BlobRefs(next, dat)
  <2>1. PICK s \in ToSet(next), k \in Keys : x \in Nat /\ dat[<<"sst", s>>][k] = <<"blob", x>>
    BY Zenon DEF BlobRefs
  <2>2. CASE s \in ToSet(L)
    BY <2>1, <2>2 DEF BlobRefs
  <2>3. CASE s \in ssts
    <3>1. dat[<<"sst", s>>][k][1] = "blob" /\ dat[<<"sst", s>>][k][2] = x
      BY <2>1
    <3>2. k \in Blobs(b) /\ dat[<<"sst", s>>][k] = <<"blob", BlobSeq(b, k)>>
      BY <1>19, <2>3, <3>1
    <3> QED BY <3>1, <3>2
  <2> QED BY <1>14, <2>2, <2>3
<1>22. \A s \in ToSet(next), t \in ToSet(next), k \in Keys, l \in Keys :
         dat[<<"sst", s>>][k] = dat[<<"sst", t>>][l] /\ dat[<<"sst", s>>][k][1] = "blob" => s = t /\ k = l
  <2> SUFFICES ASSUME NEW s \in ToSet(next), NEW t \in ToSet(next), NEW k \in Keys, NEW l \in Keys,
                      dat[<<"sst", s>>][k] = dat[<<"sst", t>>][l], dat[<<"sst", s>>][k][1] = "blob"
               PROVE  s = t /\ k = l
    OBVIOUS
  <2>1. dat[<<"sst", t>>][l][1] = "blob"
    OBVIOUS
  <2>2. \A x \in BlobRefs(L, dat), j \in Blobs(b) : x # BlobSeq(b, j)
    BY <1>2, <1>3, <1>11
  <2>3. CASE s \in ToSet(L) /\ t \in ToSet(L)
    BY <1>11, <2>3 DEF Tables
  <2>4. CASE s \in ToSet(L) /\ t \in ssts
    <3>1. dat[<<"sst", s>>][k][2] \in BlobRefs(L, dat)
      BY <1>20, <2>4
    <3>2. l \in Blobs(b) /\ dat[<<"sst", t>>][l][2] = BlobSeq(b, l)
      BY <1>19, <2>1, <2>4
    <3> QED BY <2>2, <3>1, <3>2
  <2>5. CASE s \in ssts /\ t \in ToSet(L)
    <3>1. dat[<<"sst", t>>][l][2] \in BlobRefs(L, dat)
      BY <1>20, <2>1, <2>5
    <3>2. k \in Blobs(b) /\ dat[<<"sst", s>>][k][2] = BlobSeq(b, k)
      BY <1>19, <2>5
    <3> QED BY <2>2, <3>1, <3>2
  <2>6. CASE s \in ssts /\ t \in ssts
    <3>1. k \in Blobs(b) /\ s = SstSeq(b, k) /\ dat[<<"sst", s>>][k][2] = BlobSeq(b, k)
      BY <1>19, <2>6
    <3>2. l \in Blobs(b) /\ t = SstSeq(b, l) /\ dat[<<"sst", t>>][l][2] = BlobSeq(b, l)
      BY <1>19, <2>1, <2>6
    <3> QED BY <1>3, <3>1, <3>2
  <2> QED BY <1>14, <2>3, <2>4, <2>5, <2>6
<1>23. Tables(next, disk', dat)
  <2>1. \A s \in ToSet(next) : <<"sst", s>> \in disk' /\ dat[<<"sst", s>>] \in Table
    BY <1>11, <1>14, <1>18, Zenon DEF Tables
  <2>2. \A x \in BlobRefs(next, dat) : <<"blob", x>> \in disk'
    BY <1>4, <1>11, <1>21, Zenon DEF Tables
  <2> QED BY <1>14, <1>16, <1>22, <2>1, <2>2 DEF Tables
<1>24. ContentOf(next, dat) = proposed'
  <2> SUFFICES ASSUME NEW k \in Keys
               PROVE  Visible(Newest(next, k, dat)) = IF b[k] = "none" THEN acked[k] ELSE Visible(Entry(b, k))
    BY <1>5 DEF ContentOf
  <2>1. Newest(next, k, dat) = IF NoHit(E, k, dat) THEN Newest(L, k, dat) ELSE Newest(E, k, dat)
    BY <1>9, <1>12, NewestConcat DEF next
  <2>2. \A i \in 1..Len(E) : SstEntry(E[i], k, dat) = dat[<<"sst", E[i]>>][k]
    BY <1>4, <1>9 DEF SstEntry
  <2>3. CASE b[k] = "none"
    <3>1. NoHit(E, k, dat)
      <4> SUFFICES ASSUME NEW i \in 1..Len(E) PROVE dat[<<"sst", E[i]>>][k] = Absent
        BY <2>2, Zenon DEF NoHit
      <4>1. PICK l \in Written(b) : E[i] = SstSeq(b, l)
        BY <1>6, <1>9
      <4>2. k # l
        BY <2>3 DEF Written
      <4> QED BY <1>17, <4>1, <4>2
    <3>2. acked[k] = Visible(Newest(L, k, dat))
      BY <1>11 DEF ContentOf
    <3> QED BY <2>1, <2>3, <3>1, <3>2
  <2>4. CASE b[k] # "none"
    <3>1. k \in Written(b)
      BY <2>4 DEF Written
    <3>2. SstSeq(b, k) \in ToSet(E)
      BY <1>9, <1>17, <3>1, Zenon
    <3>3. PICK i \in 1..Len(E) : E[i] = SstSeq(b, k)
      <4>1. ToSet(E) = {E[i] : i \in 1..Len(E)}
        BY <1>9, ToSetOf
      <4> QED BY <3>2, <4>1
    <3>4. SstEntry(E[i], k, dat) = Entry(b, k)
      BY <1>17, <2>2, <3>1, <3>3, Zenon
    <3>5. Entry(b, k) # Absent
      BY <1>7, <3>1 DEF Absent
    <3>6. \A j \in 1..Len(E) : j # i => SstEntry(E[j], k, dat) = Absent
      <4> TAKE j \in 1..Len(E)
      <4> HAVE j # i
      <4>1. PICK l \in Written(b) : E[j] = SstSeq(b, l)
        BY <1>6, <1>9, Zenon
      <4>2. E[i] # E[j]
        <5>1. E[i] \in Nat /\ E[j] \in Nat /\ (i < j => E[i] < E[j]) /\ (j < i => E[j] < E[i])
          BY <1>9
        <5> QED BY <5>1
      <4>3. l # k
        BY <3>3, <4>1, <4>2
      <4>4. dat[<<"sst", SstSeq(b, l)>>][k] = Absent
        BY <1>17, <4>3
      <4> QED BY <2>2, <4>1, <4>4
    <3>7. IsHit(E, k, dat, i)
      BY <3>4, <3>5, <3>6 DEF IsHit
    <3>8. ~ NoHit(E, k, dat)
      BY <3>4, <3>5 DEF NoHit
    <3>9. Newest(E, k, dat) = SstEntry(E[i], k, dat)
      BY <1>9, <3>7, NewestIs
    <3> QED BY <2>1, <2>4, <3>4, <3>8, <3>9
  <2> QED BY <2>3, <2>4
<1>25. OneKind(N, op'.files)
  <2> SUFFICES ASSUME NEW n \in 1..N, NEW k \in Kinds, NEW l \in Kinds, <<k, n>> \in op'.files, <<l, n>> \in op'.files
               PROVE  k = l
    BY DEF OneKind
  <2>1. \A j \in Kinds : <<j, n>> \in op'.files =>
          \/ j = "meta" /\ n = N
          \/ j = "sst" /\ n \in ssts
          \/ j = "blob" /\ \E x \in Blobs(b) : n = BlobSeq(b, x)
    BY <1>4
  <2>2. \A s \in ssts : s # N /\ \A x \in Blobs(b) : s # BlobSeq(b, x)
    BY <1>2, <1>3, <1>6
  <2>3. \A x \in Blobs(b) : BlobSeq(b, x) # N
    BY <1>2, <1>3
  <2> QED BY <2>1, <2>2, <2>3
<1>26. ToSet(next) \subseteq ToSet(L) \cup (seqNo + 1..N)
  BY <1>2, <1>3, <1>6, <1>14
<1>27. BlobRefs(next, dat) \subseteq BlobRefs(L, dat) \cup (seqNo + 1..N)
  BY <1>2, <1>3, <1>21
<1>28. N \in seqNo + 1..MaxSeq - 1
  BY <1>2, <1>3, <1>4
<1> QED BY <1>4, <1>9, <1>10, <1>13, <1>23, <1>24, <1>25, <1>26, <1>27, <1>28 DEF Prepared, next, L, dat

\* A write batch leaves a commit prepared, and everything else as it was.
LEMMA InvWriteBatch ==
  ASSUME Inv, NEW b \in Batches, WriteBatch(b)
  PROVE  Inv'
PROOF
<1>1. Prepared(metas, op', seqNo, proposed', disk', data')
  BY BatchPrepared
<1>2. Types /\ seqNo \in Nat
  BY SeqAssumption DEF Inv, WhenBefore, Core, Before, WriteBatch
<1> DEFINE ssts == {SstSeq(b, k) : k \in Written(b)}
<1>3. /\ op'.meta = MetaSeq(b) /\ op'.seq = MetaSeq(b) /\ op'.files \subseteq Files
      /\ disk' = disk \cup op'.files /\ DOMAIN data' = disk' \cup stable'
      /\ \A f \in disk \cup stable : f \notin op'.files => data'[f] = data[f]
  BY <1>2, BatchFiles, Zenon
<1>4. /\ pc = "idle" /\ pc' = "written" /\ batches' \in Nat
      /\ UNCHANGED <<stable, current, currentMay, metas, seqNo, acked>>
  BY <1>2 DEF WriteBatch, Types, memVars
<1> QED BY <1>1, <1>3, <1>4, InvWritten

-----------------------------------------------------------------------------
(* Compactions.                                                            *)

\* How many elements of a set come up to one of them numbers them from 1 on.
LEMMA Ranks ==
  ASSUME NEW m \in Nat, NEW T, T \subseteq 1..m
  PROVE  /\ Cardinality(T) \in Nat
         /\ \A i \in T : Cardinality({j \in T : j <= i}) \in 1..Cardinality(T)
         /\ \A i, j \in T : Cardinality({x \in T : x <= i}) = Cardinality({x \in T : x <= j}) => i = j
PROOF
<1> DEFINE upTo(i) == {x \in T : x <= i}
<1>1. IsFiniteSet(T) /\ Cardinality(T) \in Nat
  <2>1. 1 \in Int /\ m \in Int
    OBVIOUS
  <2>2. IsFiniteSet(1..m)
    BY <2>1, FS_Interval
  <2>3. IsFiniteSet(T)
    BY <2>2, FS_Subset, Zenon
  <2> QED BY <2>3, FS_CardinalityType
<1>2. ASSUME NEW i \in T
      PROVE  /\ IsFiniteSet(upTo(i)) /\ Cardinality(upTo(i)) \in 1..Cardinality(T) /\ i \in upTo(i)
  <2>1. upTo(i) \in SUBSET T /\ i \in upTo(i)
    OBVIOUS
  <2> HIDE DEF upTo
  <2>2. IsFiniteSet(upTo(i)) /\ Cardinality(upTo(i)) <= Cardinality(T)
    BY <1>1, <2>1, FS_Subset
  <2>3. Cardinality(upTo(i)) \in Nat
    BY <2>2, FS_CardinalityType
  <2>4. Cardinality(upTo(i)) # 0
    BY <2>1, <2>2, FS_EmptySet
  <2> QED BY <1>1, <2>1, <2>2, <2>3, <2>4
<1>3. ASSUME NEW i \in T, NEW j \in T, i < j PROVE Cardinality(upTo(i)) # Cardinality(upTo(j))
  <2>1. upTo(i) \in SUBSET upTo(j) /\ j \in upTo(j) /\ j \notin upTo(i)
    <3>1. \A x \in T : x \in Nat
      OBVIOUS
    <3>2. \A x \in T : x <= i => x <= j
      BY <1>3, <3>1
    <3>3. upTo(i) \subseteq upTo(j)
      BY <3>2, Zenon
    <3>4. j \in upTo(j) /\ j \notin upTo(i)
      BY <1>3, <3>1
    <3> QED BY <3>3, <3>4
  <2>2. IsFiniteSet(upTo(j))
    BY <1>2
  <2> HIDE DEF upTo
  <2>3. Cardinality(upTo(j)) = Cardinality(upTo(i)) => upTo(j) = upTo(i)
    BY <2>1, <2>2, FS_Subset
  <2> QED BY <2>1, <2>3
<1>4. \A i, j \in T : Cardinality(upTo(i)) = Cardinality(upTo(j)) => i = j
  <2> TAKE i \in T, j \in T
  <2>1. i \in Nat /\ j \in Nat
    OBVIOUS
  <2>2. i < j \/ j < i \/ i = j
    BY <2>1
  <2> QED BY <1>3, <2>2
<1> QED BY <1>1, <1>2, <1>4

\* What a part of a sequence has at each place.
LEMMA PartIs ==
  ASSUME NEW L \in Seq(Nat), NEW a \in 1..Len(L), NEW z \in a..Len(L)
  PROVE  /\ SubSeq(L, a, z) \in Seq(Nat) /\ Len(SubSeq(L, a, z)) = z - a + 1
         /\ \A i \in 1..z - a + 1 : SubSeq(L, a, z)[i] = L[a + i - 1]
PROOF
  OBVIOUS

\* The newest entry among consecutive SSTs.
IsNewestOf(e, L, a, z, k, dir) ==
  \/ e = Absent /\ \A p \in a..z : SstEntry(L[p], k, dir) = Absent
  \/ \E p \in a..z : /\ e = SstEntry(L[p], k, dir) /\ e # Absent
                     /\ \A x \in a..z : x > p => SstEntry(L[x], k, dir) = Absent

\* A lookup in a part finds its newest entry.
LEMMA NewestOfPart ==
  ASSUME NEW L \in Seq(Nat), NEW a \in 1..Len(L), NEW z \in a..Len(L), NEW k, NEW dir
  PROVE  IsNewestOf(Newest(SubSeq(L, a, z), k, dir), L, a, z, k, dir)
PROOF
<1> DEFINE t == SubSeq(L, a, z)
<1>1. t \in Seq(Nat) /\ Len(t) = z - a + 1 /\ \A i \in 1..z - a + 1 : t[i] = L[a + i - 1]
  BY PartIs
<1> HIDE DEF t
<1>2. \A p \in a..z : p - a + 1 \in 1..Len(t) /\ t[p - a + 1] = L[p]
  <2> TAKE p \in a..z
  <2>1. p - a + 1 \in 1..z - a + 1 /\ a + (p - a + 1) - 1 = p
    OBVIOUS
  <2> QED BY <1>1, <2>1
<1>3. CASE NoHit(t, k, dir)
  <2>1. Newest(t, k, dir) = Absent
    BY <1>1, <1>3, NewestIs
  <2>2. \A p \in a..z : SstEntry(L[p], k, dir) = Absent
    BY <1>2, <1>3 DEF NoHit
  <2> QED BY <2>1, <2>2 DEF t, IsNewestOf
<1>4. CASE ~ NoHit(t, k, dir)
  <2>1. PICK i : IsHit(t, k, dir, i)
    BY <1>1, <1>4, NewestIs
  <2>2. /\ i \in 1..Len(t) /\ Newest(t, k, dir) = SstEntry(t[i], k, dir) /\ SstEntry(t[i], k, dir) # Absent
        /\ \A j \in 1..Len(t) : j > i => SstEntry(t[j], k, dir) = Absent
    <3>1. Newest(t, k, dir) = SstEntry(t[i], k, dir)
      BY <1>1, <2>1, NewestIs, ZenonT(40)
    <3> QED BY <2>1, <3>1, Zenon DEF IsHit
  <2> DEFINE p == a + i - 1
  <2>3. p \in a..z /\ t[i] = L[p]
    BY <1>1, <2>2
  <2>4. \A x \in a..z : x > p => x - a + 1 > i
    BY <1>1, <2>2
  <2>5. \A x \in a..z : x > p => SstEntry(L[x], k, dir) = Absent
    BY <1>2, <2>2, <2>4
  <2> QED BY <2>2, <2>3, <2>5 DEF t, IsNewestOf
<1> QED BY <1>3, <1>4

\* The positions of L are cut into as many consecutive parts as M has
\* elements, part j from lo[j] to hi[j].
Parts(L, M, lo, hi) ==
  /\ \A j \in 1..Len(M) : lo[j] \in 1..Len(L) /\ hi[j] \in lo[j]..Len(L)
  /\ \A i, j \in 1..Len(M) : i < j => hi[i] < lo[j]
  /\ \A p \in 1..Len(L) : \E j \in 1..Len(M) : p \in lo[j]..hi[j]
\* Each SST of M in dat has what a lookup finds in its part of L in dir.
Merges(L, M, lo, hi, dir, dat) ==
  \A j \in 1..Len(M), k \in Keys : SstEntry(M[j], k, dat) = Newest(SubSeq(L, lo[j], hi[j]), k, dir)

\* A lookup sees no difference between SSTs and what parts of them were merged
\* into.
LEMMA MergedLookup ==
  ASSUME NEW L \in Seq(Nat), NEW M \in Seq(Nat), NEW lo, NEW hi, Parts(L, M, lo, hi),
         NEW dir, NEW dat, Merges(L, M, lo, hi, dir, dat)
  PROVE  ContentOf(M, dat) = ContentOf(L, dir)
PROOF
<1> SUFFICES ASSUME NEW k \in Keys PROVE Newest(M, k, dat) = Newest(L, k, dir)
  BY DEF ContentOf
<1>1. Len(L) \in Nat /\ Len(M) \in Nat
  OBVIOUS
<1>2. \A j \in 1..Len(M) : lo[j] \in 1..Len(L) /\ hi[j] \in lo[j]..Len(L)
  BY DEF Parts
<1>3. \A j \in 1..Len(M) : SstEntry(M[j], k, dat) = Newest(SubSeq(L, lo[j], hi[j]), k, dir)
  BY DEF Merges
<1>4. CASE NoHit(L, k, dir)
  <2>1. ASSUME NEW j \in 1..Len(M) PROVE SstEntry(M[j], k, dat) = Absent
    <3>1. lo[j] \in 1..Len(L) /\ hi[j] \in lo[j]..Len(L)
      BY <1>2
    <3>2. \A p \in lo[j]..hi[j] : SstEntry(L[p], k, dir) = Absent
      BY <1>1, <1>4, <3>1 DEF NoHit
    <3>3. Newest(SubSeq(L, lo[j], hi[j]), k, dir) = Absent
      BY <3>1, <3>2, NewestOfPart DEF IsNewestOf
    <3> QED BY <1>3, <3>3
  <2>2. NoHit(M, k, dat)
    BY <2>1 DEF NoHit
  <2> QED BY <1>4, <2>2, NewestIs
<1>5. CASE ~ NoHit(L, k, dir)
  <2>1. PICK i : IsHit(L, k, dir, i)
    BY <1>5, NewestIs
  <2>2. /\ i \in 1..Len(L) /\ Newest(L, k, dir) = SstEntry(L[i], k, dir) /\ SstEntry(L[i], k, dir) # Absent
        /\ \A x \in 1..Len(L) : x > i => SstEntry(L[x], k, dir) = Absent
    <3>1. Newest(L, k, dir) = SstEntry(L[i], k, dir)
      BY <2>1, NewestIs, Zenon
    <3> QED BY <2>1, <3>1, Zenon DEF IsHit
  <2>3. PICK j \in 1..Len(M) : i \in lo[j]..hi[j]
    BY <2>2 DEF Parts
  <2>4. lo[j] \in 1..Len(L) /\ hi[j] \in lo[j]..Len(L)
    BY <1>2
  <2>5. Newest(SubSeq(L, lo[j], hi[j]), k, dir) = SstEntry(L[i], k, dir)
    <3> DEFINE e == Newest(SubSeq(L, lo[j], hi[j]), k, dir)
    <3>1. IsNewestOf(e, L, lo[j], hi[j], k, dir)
      BY <2>4, NewestOfPart
    <3> HIDE DEF e
    <3>2. PICK p \in lo[j]..hi[j] : /\ e = SstEntry(L[p], k, dir) /\ e # Absent
                                    /\ \A x \in lo[j]..hi[j] : x > p => SstEntry(L[x], k, dir) = Absent
      BY <2>2, <2>3, <3>1 DEF IsNewestOf
    <3>3. ~ (i > p)
      BY <2>2, <2>3, <3>2, Zenon
    <3>4. ~ (p > i)
      <4>1. p \in 1..Len(L)
        BY <2>4
      <4> QED BY <2>2, <3>2, <4>1
    <3>5. p = i
      BY <1>1, <2>2, <2>4, <3>3, <3>4
    <3> QED BY <3>2, <3>5 DEF e
  <2>6. ASSUME NEW x \in 1..Len(M), x > j PROVE SstEntry(M[x], k, dat) = Absent
    <3>1. lo[x] \in 1..Len(L) /\ hi[x] \in lo[x]..Len(L) /\ hi[j] < lo[x]
      BY <1>2, <2>6 DEF Parts
    <3>2. \A p \in lo[x]..hi[x] : p \in 1..Len(L) /\ p > i
      <4> TAKE p \in lo[x]..hi[x]
      <4>1. i <= hi[j] /\ hi[j] \in 1..Len(L) /\ i \in 1..Len(L)
        BY <1>1, <2>2, <2>3, <2>4
      <4>2. hi[x] \in 1..Len(L) /\ lo[x] <= p /\ p <= hi[x] /\ p \in Int
        BY <1>1, <3>1, SMTT(30)
      <4>3. lo[x] \in Int /\ 1 <= lo[x]
        BY <3>1
      <4>4. hi[x] <= Len(L)
        BY <3>1
      <4>5. hi[j] \in Int /\ i \in Int
        BY <4>1
      <4>6. hi[j] < lo[x]
        BY <3>1
      <4>7. p \in 1..Len(L)
        BY <1>1, <4>2, <4>3, SMTT(30)
      <4>8. i < lo[x]
        BY <4>1, <4>3, <4>5, <4>6
      <4>9. p > i
        BY <4>2, <4>3, <4>5, <4>8
      <4> QED BY <4>7, <4>9
    <3>3. \A p \in lo[x]..hi[x] : SstEntry(L[p], k, dir) = Absent
      BY <2>2, <3>2, Zenon
    <3>4. Newest(SubSeq(L, lo[x], hi[x]), k, dir) = Absent
      <4>1. IsNewestOf(Newest(SubSeq(L, lo[x], hi[x]), k, dir), L, lo[x], hi[x], k, dir)
        BY <3>1, NewestOfPart
      <4> QED BY <3>3, <4>1 DEF IsNewestOf
    <3> QED BY <1>3, <3>4
  <2>7. SstEntry(M[j], k, dat) = SstEntry(L[i], k, dir)
    BY <1>3, <2>5
  <2>8. IsHit(M, k, dat, j)
    BY <2>2, <2>6, <2>7 DEF IsHit
  <2>9. Newest(M, k, dat) = SstEntry(M[j], k, dat)
    BY <2>8, NewestIs
  <2> QED BY <2>2, <2>7, <2>9
<1> QED BY <1>4, <1>5

\* The SSTs L are cut at the positions s.
CutEnd(s, L, i) == IF i = Len(s) THEN Len(L) ELSE s[i + 1] - 1
IsCut(segs, s, L) ==
  /\ s \in Seq(Nat) /\ Len(s) > 0 /\ Len(segs) = Len(s) /\ DOMAIN segs = 1..Len(s)
  /\ \A i \in 1..Len(s) : /\ s[i] \in 1..Len(L) /\ CutEnd(s, L, i) \in s[i]..Len(L)
                          /\ segs[i] = SubSeq(L, s[i], CutEnd(s, L, i))
  /\ \A i, j \in 1..Len(s) : i < j => s[i] < s[j] /\ CutEnd(s, L, i) < s[j]

\* The segments of a merge job are cut from the live SSTs one after the other.
LEMMA MergeJobIs ==
  ASSUME NEW L \in Seq(Nat), NEW segs \in MergeJobs(L)
  PROVE  \E s : IsCut(segs, s, L)
PROOF
<1>1. PICK starts \in SUBSET DOMAIN L : segs = Segments(L, starts) /\ IsMergeJob(segs)
  BY DEF MergeJobs
<1> DEFINE s == Ascending(starts)
<1>2. /\ s \in Seq(Nat) /\ Len(s) \in Nat /\ DOMAIN s = 1..Len(s)
      /\ \A i \in 1..Len(s) : s[i] \in 1..Len(L)
      /\ \A i, j \in 1..Len(s) : i < j => s[i] < s[j]
  <2>1. starts \subseteq 1..Len(L)
    OBVIOUS
  <2> QED BY <2>1, AscendingIs
<1>3. segs = [i \in 1..Len(s) |-> SubSeq(L, s[i], CutEnd(s, L, i))]
  BY <1>1, <1>2 DEF Segments, Cut, CutEnd
<1> HIDE DEF s
<1>4. Len(s) > 0
  <2> SUFFICES ASSUME Len(s) = 0 PROVE FALSE
    BY <1>2
  <2>1. segs = <<>>
    BY <1>3
  <2> QED BY <1>1, <2>1 DEF IsMergeJob
<1>5. DOMAIN segs = 1..Len(s) /\ Len(segs) = Len(s)
  BY <1>2, <1>3
<1>6. Len(s) \in Nat
  BY <1>2
<1>7. ASSUME NEW i \in 1..Len(s) PROVE CutEnd(s, L, i) \in s[i]..Len(L)
  <2>1. CASE i = Len(s)
    BY <1>2, <2>1 DEF CutEnd
  <2>2. CASE i # Len(s)
    <3>1. i + 1 \in 1..Len(s) /\ i < i + 1
      BY <1>6, <2>2
    <3>2. s[i] < s[i + 1] /\ s[i] \in 1..Len(L) /\ s[i + 1] \in 1..Len(L)
      BY <1>2, <3>1
    <3>3. CutEnd(s, L, i) = s[i + 1] - 1
      BY <2>2 DEF CutEnd
    <3> QED BY <3>2, <3>3, SMTT(30)
  <2> QED BY <2>1, <2>2
<1>8. ASSUME NEW i \in 1..Len(s), NEW j \in 1..Len(s), i < j PROVE CutEnd(s, L, i) < s[j]
  <2>1. i + 1 \in 1..Len(s) /\ i # Len(s) /\ (i + 1 = j \/ i + 1 < j)
    BY <1>6, <1>8
  <2>2. s[i + 1] \in 1..Len(L) /\ s[j] \in 1..Len(L) /\ (i + 1 < j => s[i + 1] < s[j])
    BY <1>2, <2>1, Zenon
  <2>3. s[i + 1] <= s[j] /\ s[i + 1] \in Nat /\ s[j] \in Nat
    BY <2>1, <2>2
  <2> QED BY <2>1, <2>3 DEF CutEnd
<1>9. \A i \in 1..Len(s) : segs[i] = SubSeq(L, s[i], CutEnd(s, L, i))
  BY <1>3, Zenon
<1> QED BY <1>2, <1>4, <1>5, <1>7, <1>8, <1>9, Zenon DEF IsCut

\* The parts of L: the SSTs before the first cut one by one, then the segments.
PartLo(s) == [j \in 1..s[1] - 1 + Len(s) |-> IF j < s[1] THEN j ELSE s[j - s[1] + 1]]
PartHi(s, L) == [j \in 1..s[1] - 1 + Len(s) |-> IF j < s[1] THEN j ELSE CutEnd(s, L, j - s[1] + 1)]

\* The SSTs before the first cut and the segments are parts of all live SSTs.
LEMMA CutParts ==
  ASSUME NEW L \in Seq(Nat), NEW segs, NEW s, IsCut(segs, s, L),
         NEW M, Len(M) = s[1] - 1 + Len(s)
  PROVE  Parts(L, M, PartLo(s), PartHi(s, L))
PROOF
<1> DEFINE a == s[1]
           q == Len(M)
           lo == PartLo(s)
           hi == PartHi(s, L)
           end(i) == CutEnd(s, L, i)
<1>1. /\ s \in Seq(Nat) /\ Len(s) \in Nat /\ Len(s) > 0 /\ Len(L) \in Nat
      /\ \A i \in 1..Len(s) : s[i] \in 1..Len(L) /\ end(i) \in s[i]..Len(L)
      /\ \A i, j \in 1..Len(s) : i < j => s[i] < s[j] /\ end(i) < s[j]
  BY SMTT(30) DEF IsCut
<1>2. a \in 1..Len(L) /\ 1 \in 1..Len(s) /\ q = a - 1 + Len(s) /\ q \in Nat
  BY <1>1
<1>3. \A j \in 1..q : j < a => lo[j] = j /\ hi[j] = j
  BY <1>2 DEF PartLo, PartHi
<1>4. \A j \in 1..q : ~ (j < a) => lo[j] = s[j - a + 1] /\ hi[j] = end(j - a + 1)
  BY <1>2, Zenon DEF PartLo, PartHi
<1>5. end(Len(s)) = Len(L) /\ \A i \in 1..Len(s) : i # Len(s) => end(i) = s[i + 1] - 1
  BY <1>1 DEF CutEnd
<1> HIDE DEF lo, hi, end, a, q
<1>6. \A j \in 1..q : ~ (j < a) => j - a + 1 \in 1..Len(s)
  BY <1>1, <1>2
<1>7. \A i \in 1..Len(s) : a <= s[i] /\ s[i] \in 1..Len(L)
  <2> TAKE i \in 1..Len(s)
  <2>1. i = 1 \/ 1 < i
    BY <1>1
  <2>2. s[1] = a /\ s[i] \in 1..Len(L)
    BY <1>1, Zenon DEF a
  <2> QED BY <1>1, <1>2, <2>1, <2>2, SMTT(30)
<1>8. ASSUME NEW j \in 1..q PROVE lo[j] \in 1..Len(L) /\ hi[j] \in lo[j]..Len(L)
  <2>1. CASE j < a
    BY <1>2, <1>3, <2>1, SMTT(30)
  <2>2. CASE ~ (j < a)
    <3>1. j - a + 1 \in 1..Len(s)
      BY <1>6, <2>2
    <3> QED BY <1>1, <1>4, <2>2, <3>1, Zenon
  <2> QED BY <2>1, <2>2
<1>9. ASSUME NEW i \in 1..q, NEW j \in 1..q, i < j PROVE hi[i] < lo[j]
  <2>1. CASE j < a
    BY <1>2, <1>3, <1>9, <2>1, SMTT(30)
  <2>2. CASE ~ (j < a) /\ i < a
    <3>1. lo[j] = s[j - a + 1] /\ j - a + 1 \in 1..Len(s) /\ hi[i] = i
      BY <1>3, <1>4, <1>6, <2>2
    <3>2. a <= s[j - a + 1] /\ s[j - a + 1] \in 1..Len(L)
      BY <1>7, <3>1
    <3> QED BY <1>2, <2>2, <3>1, <3>2, SMTT(30)
  <2>3. CASE ~ (j < a) /\ ~ (i < a)
    <3>1. lo[j] = s[j - a + 1] /\ j - a + 1 \in 1..Len(s) /\ hi[i] = end(i - a + 1) /\ i - a + 1 \in 1..Len(s)
      BY <1>4, <1>6, <2>3
    <3>2. i - a + 1 < j - a + 1
      BY <1>2, <1>9
    <3> QED BY <1>1, <3>1, <3>2, Zenon
  <2> QED BY <2>1, <2>2, <2>3, <1>2, <1>9
<1>10. ASSUME NEW p \in 1..Len(L) PROVE \E j \in 1..q : p \in lo[j]..hi[j]
  <2>1. CASE p < a
    <3>1. p \in 1..q
      <4>1. Len(s) \in Nat /\ Len(s) > 0 /\ a \in Nat /\ p \in Nat
        BY <1>1, <1>2
      <4> QED BY <1>2, <2>1, <4>1
    <3>2. lo[p] = p /\ hi[p] = p
      BY <1>3, <2>1, <3>1
    <3> QED BY <3>1, <3>2
  <2>2. CASE ~ (p < a)
    <3> DEFINE T == {i \in 1..Len(s) : s[i] <= p}
    <3>1. T \subseteq 0..Len(s) /\ T # {}
      <4>1. s[1] <= p
        BY <1>2, <2>2 DEF a
      <4>2. \A i \in 1..Len(s) : i \in 0..Len(s)
        BY <1>1
      <4>3. 1 \in T
        BY <1>2, <4>1
      <4> QED BY <4>2, <4>3, Zenon
    <3> HIDE DEF T
    <3>2. PICK i \in T : \A y \in T : y <= i
      BY <1>1, <3>1, LargestElement, Zenon
    <3>3. i \in 1..Len(s) /\ s[i] <= p /\ \A y \in 1..Len(s) : s[y] <= p => y <= i
      BY <3>2 DEF T
    <3>4. p <= end(i)
      <4>1. CASE i = Len(s)
        BY <1>5, <4>1
      <4>2. CASE i # Len(s)
        <5>1. i + 1 \in 1..Len(s) /\ ~ (i + 1 <= i)
          <6>1. Len(s) \in Nat /\ i \in 1..Len(s)
            BY <1>1, <3>3
          <6> QED BY <4>2, <6>1
        <5>2. ~ (s[i + 1] <= p) /\ s[i + 1] \in Nat
          <6>1. s[i + 1] \in 1..Len(L)
            BY <1>1, <5>1, Zenon
          <6> QED BY <3>3, <5>1, <6>1
        <5> QED BY <1>5, <3>3, <4>2, <5>2
      <4> QED BY <4>1, <4>2
    <3> DEFINE j == i + a - 1
    <3>5. j \in 1..q /\ ~ (j < a) /\ j - a + 1 = i
      BY <1>1, <1>2, <3>3
    <3> HIDE DEF j
    <3>6. lo[j] = s[i] /\ hi[j] = end(i)
      BY <1>4, <3>5
    <3>7. s[i] \in 1..Len(L) /\ end(i) \in s[i]..Len(L)
      BY <1>1, <3>3
    <3>8. p \in lo[j]..hi[j]
      BY <1>1, <3>3, <3>4, <3>6, <3>7
    <3> QED BY <3>5, <3>8
  <2> QED BY <2>1, <2>2
<1> QED BY <1>8, <1>9, <1>10 DEF Parts, lo, hi, q

\* The segments that are merged, and what the new meta file lists.
Merged(segs) == {i \in DOMAIN segs : Len(segs[i]) > 1}
Out(segs, c) ==
  [i \in DOMAIN segs |-> IF i \in Merged(segs) THEN c + Cardinality({j \in Merged(segs) : j <= i}) ELSE Head(segs[i])]
CompactMeta(segs, c) == c + Cardinality(Merged(segs)) + 1
Obsolete(segs) == UNION {ToSet(segs[i]) : i \in Merged(segs)}
AllSuperseded(segs) == UNION {SupersededBlobs(segs[i]) : i \in Merged(segs)}

\* The merged SSTs and then the meta file have new sequence numbers, all
\* different.
LEMMA OutNumbers ==
  ASSUME NEW segs, NEW m \in Nat, DOMAIN segs = 1..m, NEW c \in Nat
  PROVE  /\ CompactMeta(segs, c) \in Nat /\ c < CompactMeta(segs, c)
         /\ \A i \in Merged(segs) : i \in 1..m /\ Out(segs, c)[i] \in c + 1..CompactMeta(segs, c) - 1
         /\ \A i, j \in Merged(segs) : Out(segs, c)[i] = Out(segs, c)[j] => i = j
         /\ \A i \in 1..m : i \notin Merged(segs) => Out(segs, c)[i] = Head(segs[i])
         /\ DOMAIN Out(segs, c) = 1..m
PROOF
<1> DEFINE T == Merged(segs)
           rank(i) == Cardinality({j \in T : j <= i})
           n == Cardinality(T)
<1>1. T \subseteq 1..m
  BY DEF Merged
<1>2. n \in Nat /\ (\A i \in T : rank(i) \in 1..n) /\ \A i, j \in T : rank(i) = rank(j) => i = j
  <2> HIDE DEF T
  <2> QED BY <1>1, Ranks, Zenon
<1>3. /\ \A i \in T : Out(segs, c)[i] = c + rank(i)
      /\ \A i \in 1..m : i \notin T => Out(segs, c)[i] = Head(segs[i])
      /\ DOMAIN Out(segs, c) = 1..m
  BY <1>1 DEF Out
<1>4. CompactMeta(segs, c) = c + n + 1
  BY DEF CompactMeta
<1> HIDE DEF T, rank, n
<1>5. \A i \in T : Out(segs, c)[i] \in c + 1..c + n
  BY <1>2, <1>3
<1>6. \A i, j \in T : Out(segs, c)[i] = Out(segs, c)[j] => i = j
  <2> TAKE i \in T, j \in T
  <2>1. rank(i) \in Nat /\ rank(j) \in Nat
    BY <1>2
  <2> QED BY <1>2, <1>3, <2>1
<1>7. c + n + 1 \in Nat /\ c < c + n + 1 /\ c + n + 1 - 1 = c + n
  BY <1>2
<1>8. \A i \in T : i \in 1..m /\ Out(segs, c)[i] \in c + 1..CompactMeta(segs, c) - 1
  <2> TAKE i \in T
  <2>1. Out(segs, c)[i] \in c + 1..c + n /\ CompactMeta(segs, c) - 1 = c + n
    <3>1. n \in Nat
      BY <1>2
    <3> QED BY <1>4, <1>5, <3>1
  <2> QED BY <1>1, <2>1
<1>9. CompactMeta(segs, c) \in Nat /\ c < CompactMeta(segs, c)
  BY <1>4, <1>7
<1> QED BY <1>3, <1>6, <1>8, <1>9 DEF T

\* What a compaction leaves in its files.
LEMMA CompactFiles ==
  ASSUME Types, seqNo \in Nat, NEW segs, NEW m \in Nat, DOMAIN segs = 1..m, Compact(segs),
         NEW out, out = Out(segs, seqNo), NEW N, N = CompactMeta(segs, seqNo)
  PROVE  /\ op'.meta = N /\ op'.seq = N /\ N < MaxSeq
         /\ op'.sstDel = Obsolete(segs) /\ op'.metaDel = {}
         /\ op'.blobDel = AllSuperseded(segs)
         /\ op'.files \subseteq Files
         /\ \A f \in op'.files : f = <<"meta", N>> \/ \E i \in Merged(segs) : f = <<"sst", out[i]>>
         /\ <<"meta", N>> \in op'.files /\ \A i \in Merged(segs) : <<"sst", out[i]>> \in op'.files
         /\ disk' = disk \cup op'.files /\ DOMAIN data' = disk' \cup stable'
         /\ \A f \in disk \cup stable : f \notin op'.files => data'[f] = data[f]
         /\ Raw(data', N) = [entries |-> out, obsolete |-> Obsolete(segs)]
         /\ \A i \in Merged(segs) : data'[<<"sst", out[i]>>] = [k \in Keys |-> Newest(segs[i], k, Dir)]
PROOF
<1> DEFINE T == Merged(segs)
           new == {<<"sst", out[i]>> : i \in T} \cup {<<"meta", N>>}
           contents(f) ==
             IF f[1] = "meta" THEN [entries |-> out, obsolete |-> Obsolete(segs)]
             ELSE LET i == CHOOSE i \in T : out[i] = f[2] IN [k \in Keys |-> Newest(segs[i], k, Dir)]
<1>1. /\ op' = [NoOp EXCEPT !.files = new, !.meta = N, !.seq = N, !.sstDel = Obsolete(segs),
                            !.blobDel = AllSuperseded(segs)]
      /\ N < MaxSeq /\ disk' = disk \cup new /\ stable' = stable
      /\ data' = Writing([f \in new |-> contents(f)])
  BY DEF Compact, Put, Merged, Out, CompactMeta, Obsolete, AllSuperseded
<1>2. /\ op'.files = new /\ op'.meta = N /\ op'.seq = N
      /\ op'.sstDel = Obsolete(segs) /\ op'.metaDel = {} /\ op'.blobDel = AllSuperseded(segs)
  BY <1>1 DEF NoOp
<1>3. /\ \A f \in new : f = <<"meta", N>> \/ \E i \in T : f = <<"sst", out[i]>>
      /\ <<"meta", N>> \in new /\ \A i \in T : <<"sst", out[i]>> \in new
  OBVIOUS
<1>4. /\ N \in Nat /\ seqNo < N /\ \A i \in T : i \in 1..m /\ out[i] \in seqNo + 1..N - 1
      /\ \A i, j \in T : out[i] = out[j] => i = j
  BY OutNumbers, Zenon
<1>5. contents(<<"meta", N>>) = [entries |-> out, obsolete |-> Obsolete(segs)]
  OBVIOUS
<1>6. \A i \in T : contents(<<"sst", out[i]>>) = [k \in Keys |-> Newest(segs[i], k, Dir)]
  <2> TAKE i \in T
  <2> DEFINE x == CHOOSE x \in T : out[x] = out[i]
  <2>1. x = i
    <3>1. x \in T /\ out[x] = out[i]
      OBVIOUS
    <3> QED BY <1>4, <3>1
  <2>2. contents(<<"sst", out[i]>>) = [k \in Keys |-> Newest(segs[x], k, Dir)]
    OBVIOUS
  <2> QED BY <2>1, <2>2, Zenon
<1> HIDE DEF new, contents, T
<1>7. /\ DOMAIN data' = disk' \cup stable'
      /\ \A f \in new : data'[f] = contents(f)
      /\ \A f \in disk \cup stable : f \notin new => data'[f] = data[f]
  BY <1>1 DEF Writing
<1>8. new \subseteq Files
  <2>1. N \in Seqs /\ \A i \in T : out[i] \in Seqs
    <3>1. MaxSeq \in Nat
      BY SeqAssumption
    <3>2. N \in Seqs
      BY <1>1, <1>4, <3>1 DEF Seqs
    <3>3. \A x \in seqNo + 1..N - 1 : x \in Seqs
      BY <1>1, <1>4, <3>1 DEF Seqs
    <3> QED BY <1>4, <3>2, <3>3
  <2> QED BY <1>3, <2>1 DEF Files, Kinds
<1>9. Raw(data', N) = [entries |-> out, obsolete |-> Obsolete(segs)]
  BY <1>3, <1>5, <1>7 DEF Raw
<1>10. \A i \in T : data'[<<"sst", out[i]>>] = [k \in Keys |-> Newest(segs[i], k, Dir)]
  BY <1>3, <1>6, <1>7
<1> QED BY <1>1, <1>2, <1>3, <1>7, <1>8, <1>9, <1>10, Zenon DEF T

\* A part of a place is no part of another one.
LEMMA PartOf ==
  ASSUME NEW L \in Seq(Nat), NEW M, Len(M) \in Nat, NEW lo, NEW hi, Parts(L, M, lo, hi),
         NEW i \in 1..Len(M), NEW j \in 1..Len(M), NEW p \in 1..Len(L),
         lo[i] <= p, p <= hi[i], lo[j] <= p, p <= hi[j]
  PROVE  i = j
PROOF
<1>1. /\ lo[i] \in 1..Len(L) /\ hi[i] \in lo[i]..Len(L) /\ lo[j] \in 1..Len(L) /\ hi[j] \in lo[j]..Len(L)
      /\ (i < j => hi[i] < lo[j]) /\ (j < i => hi[j] < lo[i])
  BY Zenon DEF Parts
<1>2. p \in Int /\ lo[i] \in Int /\ hi[i] \in Int /\ lo[j] \in Int /\ hi[j] \in Int
  <2>1. Len(L) \in Nat
    OBVIOUS
  <2> QED BY <1>1, <2>1, SMTT(30)
<1>3. ~ (hi[i] < lo[j]) /\ ~ (hi[j] < lo[i])
  BY <1>2, SMTT(30)
<1> QED BY <1>1, <1>3

\* The SSTs M among the files fs are those of L with each part merged into one.
Merging(L, M, lo, hi, fs, dat) ==
  /\ L \in Seq(Nat) /\ M \in Seq(Nat) /\ Tables(L, fs, dat) /\ fs \subseteq DOMAIN dat
  /\ Parts(L, M, lo, hi) /\ Merges(L, M, lo, hi, dat, dat)
  /\ \A j \in 1..Len(M) : /\ <<"sst", M[j]>> \in fs
                          /\ dat[<<"sst", M[j]>>] = [k \in Keys |-> dat[<<"sst", M[j]>>][k]]
  /\ \A i, j \in 1..Len(M) : M[i] = M[j] => i = j

\* An entry of a merged SST comes from a place in its part.
ComesFrom(e, L, lo, hi, j, k, dat) ==
  \/ e = Absent
  \/ \E p \in lo[j]..hi[j] : p \in 1..Len(L) /\ e = dat[<<"sst", L[p]>>][k]

\* An entry of a merged SST is the newest in its part, so it comes from there.
LEMMA MergedFrom ==
  ASSUME NEW L, NEW M, NEW lo, NEW hi, NEW fs, NEW dat, Merging(L, M, lo, hi, fs, dat),
         NEW j \in 1..Len(M), NEW k \in Keys
  PROVE  /\ dat[<<"sst", M[j]>>][k] = Newest(SubSeq(L, lo[j], hi[j]), k, dat)
         /\ ComesFrom(dat[<<"sst", M[j]>>][k], L, lo, hi, j, k, dat)
PROOF
<1> DEFINE e == dat[<<"sst", M[j]>>][k]
<1>1. e = SstEntry(M[j], k, dat)
  BY Zenon DEF Merging, SstEntry
<1>2. e = Newest(SubSeq(L, lo[j], hi[j]), k, dat)
  BY <1>1 DEF Merging, Merges
<1>3. L \in Seq(Nat) /\ Tables(L, fs, dat) /\ fs \subseteq DOMAIN dat /\ lo[j] \in 1..Len(L) /\ hi[j] \in lo[j]..Len(L)
  BY DEF Merging, Parts
<1> HIDE DEF e
<1>4. IsNewestOf(e, L, lo[j], hi[j], k, dat)
  BY <1>2, <1>3, NewestOfPart
<1>5. \A p \in lo[j]..hi[j] : p \in 1..Len(L) /\ L[p] \in ToSet(L)
  <2>1. Len(L) \in Nat
    BY <1>3
  <2>2. \A p \in lo[j]..hi[j] : p \in 1..Len(L)
    BY <1>3, <2>1
  <2>3. \A p \in 1..Len(L) : L[p] \in ToSet(L)
    BY <1>3, ToSetOf
  <2> QED BY <2>2, <2>3
<1>6. \A p \in lo[j]..hi[j] : SstEntry(L[p], k, dat) = dat[<<"sst", L[p]>>][k]
  BY <1>3, <1>5, InTable, SMTT(30)
<1>7. ComesFrom(e, L, lo, hi, j, k, dat)
  BY <1>4, <1>5, <1>6 DEF IsNewestOf, ComesFrom
<1> QED BY <1>2, <1>7 DEF e

\* Where a blob of a merged SST was referred to before.
LEMMA MergedBlob ==
  ASSUME NEW L, NEW M, NEW lo, NEW hi, NEW fs, NEW dat, Merging(L, M, lo, hi, fs, dat),
         NEW j \in 1..Len(M), NEW k \in Keys, dat[<<"sst", M[j]>>][k][1] = "blob"
  PROVE  \E p \in lo[j]..hi[j] : /\ p \in 1..Len(L) /\ L[p] \in ToSet(L)
                                 /\ dat[<<"sst", M[j]>>][k] = dat[<<"sst", L[p]>>][k]
PROOF
<1> DEFINE e == dat[<<"sst", M[j]>>][k]
<1>1. ComesFrom(e, L, lo, hi, j, k, dat)
  BY MergedFrom
<1>2. e # Absent
  BY DEF Absent
<1>3. L \in Seq(Nat)
  BY DEF Merging
<1>4. \A p \in 1..Len(L) : L[p] \in ToSet(L)
  BY <1>3, ToSetOf
<1> HIDE DEF e
<1> QED BY <1>1, <1>2, <1>4, Zenon DEF ComesFrom, e

\* The merged SSTs are complete, refer to no new blob and have the same
\* contents.
LEMMA MergedTables ==
  ASSUME NEW L, NEW M, NEW lo, NEW hi, NEW fs, NEW dat, Merging(L, M, lo, hi, fs, dat)
  PROVE  Tables(M, fs, dat) /\ BlobRefs(M, dat) \subseteq BlobRefs(L, dat) /\ ContentOf(M, dat) = ContentOf(L, dat)
PROOF
<1>1. /\ L \in Seq(Nat) /\ M \in Seq(Nat) /\ Tables(L, fs, dat) /\ Parts(L, M, lo, hi)
      /\ Merges(L, M, lo, hi, dat, dat) /\ Len(L) \in Nat /\ Len(M) \in Nat
      /\ \A i, j \in 1..Len(M) : M[i] = M[j] => i = j
  BY DEF Merging
<1>2. \A s \in ToSet(M) : \E j \in 1..Len(M) : s = M[j]
  <2>1. ToSet(M) = {M[j] : j \in 1..Len(M)}
    BY <1>1, ToSetOf
  <2> QED BY <2>1
<1>3. \A p \in 1..Len(L) : L[p] \in ToSet(L) /\ dat[<<"sst", L[p]>>] \in Table
  <2>1. \A p \in 1..Len(L) : L[p] \in ToSet(L)
    BY <1>1, ToSetOf
  <2> QED BY <1>1, <2>1 DEF Tables
<1>4. ASSUME NEW j \in 1..Len(M)
      PROVE  <<"sst", M[j]>> \in fs /\ dat[<<"sst", M[j]>>] \in Table
  <2>1. <<"sst", M[j]>> \in fs /\ dat[<<"sst", M[j]>>] = [k \in Keys |-> dat[<<"sst", M[j]>>][k]]
    BY DEF Merging
  <2>2. ASSUME NEW k \in Keys PROVE dat[<<"sst", M[j]>>][k] \in {"absent", "val", "blob", "deleted"} \X Nat
    <3>1. ComesFrom(dat[<<"sst", M[j]>>][k], L, lo, hi, j, k, dat)
      BY MergedFrom
    <3>2. \A p \in 1..Len(L) : dat[<<"sst", L[p]>>][k] \in {"absent", "val", "blob", "deleted"} \X Nat
      BY <1>3, Zenon DEF Table
    <3>3. Absent \in {"absent", "val", "blob", "deleted"} \X Nat
      BY DEF Absent
    <3>4. dat[<<"sst", M[j]>>][k] = Absent
          \/ \E p \in 1..Len(L) : dat[<<"sst", M[j]>>][k] = dat[<<"sst", L[p]>>][k]
      BY <3>1 DEF ComesFrom
    <3> QED BY <3>2, <3>3, <3>4, Zenon
  <2> QED BY <2>1, <2>2 DEF Table
<1>5. BlobRefs(M, dat) \subseteq BlobRefs(L, dat)
  <2> SUFFICES ASSUME NEW b \in BlobRefs(M, dat) PROVE b \in BlobRefs(L, dat)
    OBVIOUS
  <2>1. PICK s \in ToSet(M), k \in Keys : b \in Nat /\ dat[<<"sst", s>>][k] = <<"blob", b>>
    BY Zenon DEF BlobRefs
  <2>2. PICK j \in 1..Len(M) : s = M[j]
    BY <1>2
  <2>3. dat[<<"sst", M[j]>>][k][1] = "blob"
    BY <2>1, <2>2
  <2>4. PICK p \in lo[j]..hi[j] : L[p] \in ToSet(L) /\ dat[<<"sst", M[j]>>][k] = dat[<<"sst", L[p]>>][k]
    BY <2>3, MergedBlob
  <2> QED BY <2>1, <2>2, <2>4 DEF BlobRefs
<1>6. \A s \in ToSet(M), t \in ToSet(M), k \in Keys, l \in Keys :
        dat[<<"sst", s>>][k] = dat[<<"sst", t>>][l] /\ dat[<<"sst", s>>][k][1] = "blob" => s = t /\ k = l
  <2> SUFFICES ASSUME NEW s \in ToSet(M), NEW t \in ToSet(M), NEW k \in Keys, NEW l \in Keys,
                      dat[<<"sst", s>>][k] = dat[<<"sst", t>>][l], dat[<<"sst", s>>][k][1] = "blob"
               PROVE  s = t /\ k = l
    OBVIOUS
  <2>1. PICK i \in 1..Len(M), j \in 1..Len(M) : s = M[i] /\ t = M[j]
    BY <1>2
  <2>2. dat[<<"sst", M[i]>>][k] = dat[<<"sst", M[j]>>][l]
        /\ dat[<<"sst", M[i]>>][k][1] = "blob" /\ dat[<<"sst", M[j]>>][l][1] = "blob"
    BY <2>1
  <2>3. PICK p \in lo[i]..hi[i] : /\ p \in 1..Len(L) /\ L[p] \in ToSet(L)
                                  /\ dat[<<"sst", M[i]>>][k] = dat[<<"sst", L[p]>>][k]
    BY <2>2, MergedBlob
  <2>4. PICK x \in lo[j]..hi[j] : /\ x \in 1..Len(L) /\ L[x] \in ToSet(L)
                                  /\ dat[<<"sst", M[j]>>][l] = dat[<<"sst", L[x]>>][l]
    BY <2>2, MergedBlob
  <2>5. L[p] = L[x] /\ k = l
    <3>1. dat[<<"sst", L[p]>>][k] = dat[<<"sst", L[x]>>][l] /\ dat[<<"sst", L[p]>>][k][1] = "blob"
      BY <2>2, <2>3, <2>4, Zenon
    <3> QED BY <1>1, <2>3, <2>4, <3>1, SMTT(30) DEF Tables
  <2>6. p = x
    BY <1>1, <2>3, <2>4, <2>5 DEF Tables
  <2>7. i = j
    <3>1. lo[i] <= p /\ p <= hi[i] /\ lo[j] <= p /\ p <= hi[j]
      BY <2>6
    <3> QED BY <1>1, <2>3, <3>1, PartOf, SMTT(30)
  <2> QED BY <2>1, <2>5, <2>7
<1>7. \A b \in BlobRefs(M, dat) : <<"blob", b>> \in fs
  BY <1>1, <1>5, Zenon DEF Tables
<1>8. Tables(M, fs, dat)
  BY <1>1, <1>2, <1>4, <1>6, <1>7 DEF Tables
<1>9. ContentOf(M, dat) = ContentOf(L, dat)
  BY <1>1, MergedLookup
<1> QED BY <1>5, <1>8, <1>9

\* A blob whose reference does not survive the merge of its part is not
\* referred to any more.
LEMMA MergedAway ==
  ASSUME NEW L, NEW M, NEW lo, NEW hi, NEW fs, NEW dat, Merging(L, M, lo, hi, fs, dat),
         NEW j \in 1..Len(M), NEW p \in lo[j]..hi[j], NEW k \in Keys, NEW e, e = dat[<<"sst", L[p]>>][k],
         e[1] = "blob", e # Newest(SubSeq(L, lo[j], hi[j]), k, dat)
  PROVE  e[2] \in BlobRefs(L, dat) /\ e[2] \notin BlobRefs(M, dat)
PROOF
<1>1. /\ L \in Seq(Nat) /\ M \in Seq(Nat) /\ Tables(L, fs, dat) /\ Parts(L, M, lo, hi)
      /\ Len(L) \in Nat /\ Len(M) \in Nat
  BY DEF Merging
<1>2. lo[j] \in 1..Len(L) /\ hi[j] \in lo[j]..Len(L)
  BY <1>1 DEF Parts
<1>3. p \in 1..Len(L) /\ L[p] \in ToSet(L)
  <2>1. p \in 1..Len(L)
    BY <1>1, <1>2
  <2> QED BY <1>1, <2>1, ToSetOf, SMTT(30)
<1>4. e \in {"absent", "val", "blob", "deleted"} \X Nat
  <2>1. dat[<<"sst", L[p]>>] \in Table
    BY <1>1, <1>3 DEF Tables
  <2> QED BY <2>1, Zenon DEF Table
<1>5. e = <<"blob", e[2]>> /\ e[2] \in Nat
  BY <1>4
<1>6. e[2] \in BlobRefs(L, dat)
  BY <1>3, <1>5, Zenon DEF BlobRefs
<1>7. ASSUME e[2] \in BlobRefs(M, dat) PROVE FALSE
  <2>1. PICK s \in ToSet(M), l \in Keys : dat[<<"sst", s>>][l] = <<"blob", e[2]>>
    BY <1>7, Zenon DEF BlobRefs
  <2>2. PICK i \in 1..Len(M) : s = M[i]
    <3>1. ToSet(M) = {M[i] : i \in 1..Len(M)}
      BY <1>1, ToSetOf, Zenon
    <3> QED BY <3>1
  <2>3. dat[<<"sst", M[i]>>][l] = e /\ dat[<<"sst", M[i]>>][l][1] = "blob"
    BY <1>5, <2>1, <2>2, Zenon
  <2>4. PICK x \in lo[i]..hi[i] : /\ x \in 1..Len(L) /\ L[x] \in ToSet(L)
                                  /\ dat[<<"sst", M[i]>>][l] = dat[<<"sst", L[x]>>][l]
    BY <2>3, MergedBlob
  <2>5. L[p] = L[x] /\ k = l
    <3>1. dat[<<"sst", L[p]>>][k] = dat[<<"sst", L[x]>>][l] /\ dat[<<"sst", L[p]>>][k][1] = "blob"
      BY <2>3, <2>4
    <3>2. \A u \in ToSet(L), v \in ToSet(L), y \in Keys, z \in Keys :
            dat[<<"sst", u>>][y] = dat[<<"sst", v>>][z] /\ dat[<<"sst", u>>][y][1] = "blob" => u = v /\ y = z
      BY <1>1 DEF Tables
    <3>3. L[p] \in ToSet(L) /\ L[x] \in ToSet(L)
      BY <1>3, <2>4
    <3> QED BY <3>1, <3>2, <3>3
  <2>6. p = x
    BY <1>1, <1>3, <2>4, <2>5, Zenon DEF Tables
  <2>7. i = j
    <3>1. lo[i] <= p /\ p <= hi[i] /\ lo[j] <= p /\ p <= hi[j]
      BY <2>6
    <3> QED BY <1>1, <1>3, <3>1, PartOf
  <2>8. dat[<<"sst", M[j]>>][k] = Newest(SubSeq(L, lo[j], hi[j]), k, dat)
    BY MergedFrom
  <2> QED BY <2>3, <2>5, <2>7, <2>8
<1> QED BY <1>6, <1>7

\* What the new meta file of a compaction lists.
LEMMA CutOut ==
  ASSUME NEW L \in Seq(Nat), NEW segs, NEW s, IsCut(segs, s, L), NEW c \in Nat, NEW out, out = Out(segs, c)
  PROVE  /\ out \in Seq(Nat) /\ Len(out) = Len(s) /\ Len(s) \in Nat
         /\ \A i \in Merged(segs) : i \in 1..Len(s) /\ out[i] \in c + 1..CompactMeta(segs, c) - 1
         /\ \A i \in 1..Len(s) : i \notin Merged(segs) => CutEnd(s, L, i) = s[i] /\ out[i] = L[s[i]]
         /\ \A i \in Merged(segs), p \in 1..Len(L) : s[i] <= p /\ p <= CutEnd(s, L, i) => L[p] \in Obsolete(segs)
         /\ \A x \in Obsolete(segs) : \E i \in Merged(segs), p \in 1..Len(L) :
              s[i] <= p /\ p <= CutEnd(s, L, i) /\ x = L[p]
PROOF
<1> DEFINE end(i) == CutEnd(s, L, i)
           T == Merged(segs)
           N == CompactMeta(segs, c)
<1>1. /\ s \in Seq(Nat) /\ Len(s) \in Nat /\ Len(L) \in Nat /\ DOMAIN segs = 1..Len(s)
      /\ \A i \in 1..Len(s) : s[i] \in 1..Len(L) /\ end(i) \in s[i]..Len(L) /\ segs[i] = SubSeq(L, s[i], end(i))
  BY DEF IsCut
<1>2. /\ \A i \in T : i \in 1..Len(s) /\ out[i] \in c + 1..N - 1
      /\ \A i \in 1..Len(s) : i \notin T => out[i] = Head(segs[i])
      /\ DOMAIN out = 1..Len(s) /\ N \in Nat
  <2> DEFINE m == Len(s)
  <2>1. DOMAIN segs = 1..m /\ m \in Nat
    BY <1>1
  <2> HIDE DEF m
  <2>2. /\ CompactMeta(segs, c) \in Nat /\ c < CompactMeta(segs, c)
        /\ \A i \in Merged(segs) : i \in 1..m /\ Out(segs, c)[i] \in c + 1..CompactMeta(segs, c) - 1
        /\ \A i \in 1..m : i \notin Merged(segs) => Out(segs, c)[i] = Head(segs[i])
        /\ DOMAIN Out(segs, c) = 1..m
    BY <2>1, OutNumbers, Zenon
  <2> QED BY <2>2 DEF m
<1>3. \A i \in 1..Len(s) : i \in T <=> Len(segs[i]) > 1
  BY <1>1 DEF Merged
<1> HIDE DEF end, T, N
<1>4. ASSUME NEW i \in 1..Len(s)
      PROVE  /\ segs[i] \in Seq(Nat) /\ Len(segs[i]) = end(i) - s[i] + 1
             /\ \A x \in 1..end(i) - s[i] + 1 : segs[i][x] = L[s[i] + x - 1]
  <2> DEFINE a == s[i]
             z == end(i)
  <2>1. a \in 1..Len(L) /\ z \in a..Len(L) /\ segs[i] = SubSeq(L, a, z)
    BY <1>1
  <2> HIDE DEF a, z
  <2>2. /\ SubSeq(L, a, z) \in Seq(Nat) /\ Len(SubSeq(L, a, z)) = z - a + 1
        /\ \A x \in 1..z - a + 1 : SubSeq(L, a, z)[x] = L[a + x - 1]
    BY <2>1, PartIs, Zenon
  <2> QED BY <2>1, <2>2, Zenon DEF a, z
<1>5. ASSUME NEW i \in 1..Len(s), i \notin T PROVE end(i) = s[i] /\ out[i] = L[s[i]]
  <2>1. s[i] \in 1..Len(L) /\ end(i) \in s[i]..Len(L)
    BY <1>1
  <2>2. Len(segs[i]) = end(i) - s[i] + 1 /\ ~ (Len(segs[i]) > 1)
    BY <1>3, <1>4, <1>5
  <2>3. end(i) = s[i]
    BY <1>1, <2>1, <2>2, SMTT(30)
  <2>4. segs[i][1] = L[s[i]]
    BY <1>4, <2>1, <2>3
  <2>5. Head(segs[i]) = segs[i][1]
    BY <1>4
  <2> QED BY <1>2, <1>5, <2>3, <2>4, <2>5
<1>6. out \in Seq(Nat) /\ Len(out) = Len(s)
  <2>1. \A i \in 1..Len(s) : out[i] \in Nat
    <3> TAKE i \in 1..Len(s)
    <3>1. CASE i \in T
      BY <1>2, <3>1
    <3>2. CASE i \notin T
      <4>1. s[i] \in 1..Len(L) /\ out[i] = L[s[i]]
        BY <1>1, <1>5, <3>2, Zenon
      <4> QED BY <4>1
    <3> QED BY <3>1, <3>2
  <2>2. out = [i \in 1..Len(s) |-> out[i]]
    <3>1. DOMAIN segs = 1..Len(s)
      BY <1>1
    <3> QED BY <3>1 DEF Out
  <2> QED BY <1>1, <2>1, <2>2
<1>7. \A i \in T : ToSet(segs[i]) \subseteq Obsolete(segs)
  BY DEF Obsolete, T
<1>8. ASSUME NEW i \in T, NEW p \in 1..Len(L), s[i] <= p, p <= end(i) PROVE L[p] \in Obsolete(segs)
  <2> DEFINE x == p - s[i] + 1
  <2>1. i \in 1..Len(s) /\ s[i] \in 1..Len(L) /\ end(i) \in s[i]..Len(L)
    BY <1>1, <1>2, Zenon
  <2>2. x \in 1..end(i) - s[i] + 1 /\ s[i] + x - 1 = p
    <3>1. s[i] \in Int /\ p \in Int /\ end(i) \in Int
      BY <1>1, <2>1
    <3> QED BY <1>8, <3>1
  <2> HIDE DEF x
  <2>3. segs[i][x] = L[p] /\ x \in 1..Len(segs[i]) /\ segs[i] \in Seq(Nat)
    BY <1>4, <2>1, <2>2, Zenon
  <2>4. L[p] \in ToSet(segs[i])
    <3>1. ToSet(segs[i]) = {segs[i][y] : y \in 1..Len(segs[i])}
      BY <2>3, ToSetOf, Zenon
    <3> QED BY <2>3, <3>1
  <2> QED BY <1>7, <2>4
<1>9. ASSUME NEW y \in Obsolete(segs)
      PROVE  \E i \in T, p \in 1..Len(L) : s[i] <= p /\ p <= end(i) /\ y = L[p]
  <2>1. PICK i \in T : y \in ToSet(segs[i])
    BY DEF Obsolete, T
  <2>2. i \in 1..Len(s) /\ s[i] \in 1..Len(L) /\ end(i) \in s[i]..Len(L)
    BY <1>1, <1>2, Zenon
  <2>3. PICK x \in 1..Len(segs[i]) : y = segs[i][x]
    <3>1. segs[i] \in Seq(Nat)
      BY <1>4, <2>2
    <3>2. ToSet(segs[i]) = {segs[i][j] : j \in 1..Len(segs[i])}
      BY <3>1, ToSetOf
    <3> QED BY <2>1, <3>2
  <2> DEFINE p == s[i] + x - 1
  <2>4. x \in 1..end(i) - s[i] + 1 /\ y = L[p]
    BY <1>4, <2>2, <2>3, Zenon
  <2>5. p \in 1..Len(L) /\ s[i] <= p /\ p <= end(i)
    <3>1. s[i] \in Int /\ 1 <= s[i] /\ end(i) \in Int /\ end(i) <= Len(L) /\ Len(L) \in Nat
      BY <1>1, <2>2
    <3>2. x \in Int /\ 1 <= x /\ x <= end(i) - s[i] + 1
      BY <2>4, <3>1
    <3>3. \A u, v, z \in Int, n \in Nat :
            1 <= u /\ z <= n /\ 1 <= v /\ v <= z - u + 1 => u + v - 1 \in 1..n /\ u <= u + v - 1 /\ u + v - 1 <= z
      OBVIOUS
    <3> QED BY <3>1, <3>2, <3>3, Zenon
  <2> QED BY <2>4, <2>5
<1> QED BY <1>1, <1>2, <1>5, <1>6, <1>8, <1>9 DEF T, N, end

\* The SSTs after a compaction of L: those before the first cut, then what the
\* new meta file lists.
Compacted(L, s, out) == SubSeq(L, 1, s[1] - 1) \o out
\* Place j of them has the one SST of part j, or what a segment was merged into.
Kept(L, segs, s, M, j) ==
  /\ PartHi(s, L)[j] = PartLo(s)[j] /\ PartLo(s)[j] \in 1..Len(L) /\ M[j] = L[PartLo(s)[j]]
  /\ \A i \in Merged(segs) : j # s[1] - 1 + i
Joined(L, segs, s, out, M, i) ==
  LET j == s[1] - 1 + i
  IN j \in 1..Len(M) /\ M[j] = out[i] /\ PartLo(s)[j] = s[i] /\ PartHi(s, L)[j] = CutEnd(s, L, i)

\* The SSTs after a compaction, place by place.
LEMMA CompactedPlaces ==
  ASSUME NEW L \in Seq(Nat), NEW segs, NEW s, IsCut(segs, s, L), NEW c \in Nat, NEW out, out = Out(segs, c),
         NEW M, M = Compacted(L, s, out)
  PROVE  /\ M \in Seq(Nat) /\ Len(M) = s[1] - 1 + Len(s) /\ Len(M) \in Nat
         /\ Parts(L, M, PartLo(s), PartHi(s, L))
         /\ \A i \in Merged(segs) : Joined(L, segs, s, out, M, i)
         /\ \A j \in 1..Len(M) : Kept(L, segs, s, M, j) \/ \E i \in Merged(segs) : j = s[1] - 1 + i
PROOF
<1> DEFINE a == s[1]
           P == SubSeq(L, 1, a - 1)
           lo == PartLo(s)
           hi == PartHi(s, L)
           T == Merged(segs)
<1>1. /\ out \in Seq(Nat) /\ Len(out) = Len(s) /\ Len(s) \in Nat
      /\ \A i \in T : i \in 1..Len(s)
      /\ \A i \in 1..Len(s) : i \notin T => CutEnd(s, L, i) = s[i] /\ out[i] = L[s[i]]
  BY CutOut
<1>2. Len(s) > 0 /\ \A i \in 1..Len(s) : s[i] \in 1..Len(L)
  BY DEF IsCut
<1>3. a \in 1..Len(L) /\ Len(L) \in Nat
  <2>1. 1 \in 1..Len(s)
    BY <1>1, <1>2
  <2> QED BY <1>2, <2>1
<1>4. /\ \A j \in 1..a - 1 + Len(s) : j < a => lo[j] = j /\ hi[j] = j
      /\ \A j \in 1..a - 1 + Len(s) : ~ (j < a) => lo[j] = s[j - a + 1] /\ hi[j] = CutEnd(s, L, j - a + 1)
  BY DEF PartLo, PartHi
<1> HIDE DEF a, lo, hi, T
<1>5. P \in Seq(Nat) /\ Len(P) = a - 1 /\ \A j \in 1..a - 1 : P[j] = L[j]
  BY <1>3
<1>6. M = P \o out
  BY DEF Compacted, a
<1> HIDE DEF P
<1>7. /\ M \in Seq(Nat) /\ Len(M) = a - 1 + Len(s)
      /\ \A j \in 1..Len(M) : M[j] = IF j <= a - 1 THEN P[j] ELSE out[j - (a - 1)]
  BY <1>1, <1>5, <1>6
<1>8. ASSUME NEW j \in 1..Len(M), j < a PROVE Kept(L, segs, s, M, j)
  <2>1. lo[j] = j /\ hi[j] = j
    BY <1>4, <1>7, <1>8
  <2>2. j \in 1..a - 1 /\ j \in 1..Len(L) /\ M[j] = L[j]
    BY <1>3, <1>5, <1>7, <1>8, SMTT(30)
  <2>3. \A i \in T : j # a - 1 + i
    BY <1>1, <1>3, <1>8
  <2> QED BY <2>1, <2>2, <2>3 DEF Kept, lo, hi, T, a
<1>9. ASSUME NEW i \in 1..Len(s)
      PROVE  LET j == a - 1 + i
             IN j \in 1..Len(M) /\ M[j] = out[i] /\ lo[j] = s[i] /\ hi[j] = CutEnd(s, L, i)
  <2> DEFINE j == a - 1 + i
  <2>1. j \in 1..Len(M) /\ ~ (j < a) /\ ~ (j <= a - 1) /\ j - a + 1 = i /\ j - (a - 1) = i
    <3>1. a \in Nat /\ 1 <= a
      BY <1>3
    <3>2. Len(s) \in Nat /\ Len(M) = a - 1 + Len(s)
      BY <1>1, <1>7
    <3> QED BY <3>1, <3>2
  <2> HIDE DEF j
  <2>2. M[j] = out[i] /\ lo[j] = s[i] /\ hi[j] = CutEnd(s, L, i)
    BY <1>4, <1>7, <2>1
  <2> QED BY <2>1, <2>2 DEF j
<1>10. ASSUME NEW i \in T PROVE Joined(L, segs, s, out, M, i)
  <2>1. i \in 1..Len(s)
    BY <1>1
  <2> QED BY <1>9, <2>1 DEF Joined, lo, hi, a
<1>11. ASSUME NEW j \in 1..Len(M), ~ (j < a), \A i \in T : j # a - 1 + i PROVE Kept(L, segs, s, M, j)
  <2> DEFINE i == j - a + 1
  <2>1. i \in 1..Len(s) /\ j = a - 1 + i
    BY <1>1, <1>3, <1>7, <1>11, SMTT(30)
  <2>2. i \notin T
    BY <1>11, <2>1
  <2> HIDE DEF i
  <2>3. M[j] = out[i] /\ lo[j] = s[i] /\ hi[j] = CutEnd(s, L, i)
    BY <1>9, <2>1
  <2>4. CutEnd(s, L, i) = s[i] /\ out[i] = L[s[i]] /\ s[i] \in 1..Len(L)
    BY <1>1, <1>2, <2>1, <2>2, Zenon
  <2> QED BY <1>11, <2>3, <2>4 DEF Kept, lo, hi, T, a
<1>12. Parts(L, M, lo, hi)
  <2>1. Len(M) = s[1] - 1 + Len(s)
    BY <1>7 DEF a
  <2> QED BY <2>1, CutParts DEF lo, hi
<1>13. Len(M) \in Nat
  BY <1>7
<1> QED BY <1>7, <1>8, <1>10, <1>11, <1>12, <1>13, Zenon DEF a, T, lo, hi

\* What a merged segment is made of is no SST that is kept.
LEMMA KeptStays ==
  ASSUME NEW L \in Seq(Nat), \A i, j \in 1..Len(L) : L[i] = L[j] => i = j,
         NEW segs, NEW s, IsCut(segs, s, L), NEW c \in Nat, NEW out, out = Out(segs, c),
         NEW M, M = Compacted(L, s, out), NEW j \in 1..Len(M), Kept(L, segs, s, M, j)
  PROVE  M[j] \in ToSet(L) /\ M[j] \notin Obsolete(segs)
PROOF
<1> DEFINE lo == PartLo(s)
           hi == PartHi(s, L)
<1>1. Len(M) \in Nat /\ Parts(L, M, lo, hi) /\ \A i \in Merged(segs) : Joined(L, segs, s, out, M, i)
  BY CompactedPlaces
<1>2. /\ hi[j] = lo[j] /\ lo[j] \in 1..Len(L) /\ M[j] = L[lo[j]]
      /\ \A i \in Merged(segs) : j # s[1] - 1 + i
  BY DEF Kept
<1> HIDE DEF lo, hi
<1>3. M[j] \in ToSet(L)
  BY <1>2, ToSetOf
<1>4. ASSUME M[j] \in Obsolete(segs) PROVE FALSE
  <2>1. PICK i \in Merged(segs), p \in 1..Len(L) : s[i] <= p /\ p <= CutEnd(s, L, i) /\ M[j] = L[p]
    <3>1. \A x \in Obsolete(segs) : \E i \in Merged(segs), p \in 1..Len(L) :
            s[i] <= p /\ p <= CutEnd(s, L, i) /\ x = L[p]
      BY CutOut
    <3> QED BY <1>4, <3>1, Zenon
  <2>2. p = lo[j]
    BY <1>2, <2>1, Zenon
  <2> DEFINE x == s[1] - 1 + i
  <2>3. x \in 1..Len(M) /\ lo[x] = s[i] /\ hi[x] = CutEnd(s, L, i) /\ x # j
    BY <1>1, <1>2, Zenon DEF Joined, lo, hi
  <2> HIDE DEF x
  <2>4. lo[j] <= p /\ p <= hi[j] /\ lo[x] <= p /\ p <= hi[x]
    BY <1>2, <2>1, <2>2, <2>3
  <2> QED BY <1>1, <2>3, <2>4, PartOf
<1> QED BY <1>3, <1>4

\* They are different ones, and none of them is declared obsolete.
LEMMA CompactedSsts ==
  ASSUME NEW L \in Seq(Nat), \A i, j \in 1..Len(L) : L[i] = L[j] => i = j,
         NEW segs, NEW s, IsCut(segs, s, L), NEW c \in Nat, ToSet(L) \subseteq 1..c,
         NEW out, out = Out(segs, c), NEW M, M = Compacted(L, s, out)
  PROVE  /\ ToSet(M) \subseteq ToSet(L) \cup (c + 1..CompactMeta(segs, c))
         /\ Obsolete(segs) \subseteq ToSet(L) /\ Obsolete(segs) \cap ToSet(M) = {}
         /\ \A i, j \in 1..Len(M) : M[i] = M[j] => i = j
PROOF
<1> DEFINE lo == PartLo(s)
           hi == PartHi(s, L)
           T == Merged(segs)
           N == CompactMeta(segs, c)
<1>1. /\ M \in Seq(Nat) /\ Len(M) \in Nat /\ Parts(L, M, lo, hi) /\ \A i \in T : Joined(L, segs, s, out, M, i)
      /\ \A j \in 1..Len(M) : Kept(L, segs, s, M, j) \/ \E i \in T : j = s[1] - 1 + i
  BY CompactedPlaces
<1>2. \A j \in 1..Len(M) : Kept(L, segs, s, M, j) => M[j] \in ToSet(L) /\ M[j] \notin Obsolete(segs)
  BY KeptStays
<1>3. N \in Nat /\ \A i \in T : i \in 1..Len(s) /\ out[i] \in c + 1..N - 1
  <2>1. /\ DOMAIN segs = 1..Len(s) /\ Len(s) \in Nat
    BY DEF IsCut
  <2> DEFINE m == Len(s)
  <2>2. DOMAIN segs = 1..m /\ m \in Nat
    BY <2>1
  <2> HIDE DEF m
  <2>3. /\ CompactMeta(segs, c) \in Nat
        /\ \A i \in Merged(segs) : i \in 1..m /\ Out(segs, c)[i] \in c + 1..CompactMeta(segs, c) - 1
    BY <2>2, OutNumbers, Zenon
  <2> QED BY <2>3 DEF m
<1>4. \A i, j \in T : out[i] = out[j] => i = j
  <2>1. DOMAIN segs = 1..Len(s) /\ Len(s) \in Nat
    BY DEF IsCut
  <2> DEFINE m == Len(s)
  <2>2. DOMAIN segs = 1..m /\ m \in Nat
    BY <2>1
  <2> HIDE DEF m
  <2>3. \A i, j \in Merged(segs) : Out(segs, c)[i] = Out(segs, c)[j] => i = j
    BY <2>2, OutNumbers, Zenon
  <2> QED BY <2>3
<1>5. Obsolete(segs) \subseteq ToSet(L)
  <2> SUFFICES ASSUME NEW x \in Obsolete(segs) PROVE x \in ToSet(L)
    OBVIOUS
  <2>1. PICK p \in 1..Len(L) : x = L[p]
    BY CutOut
  <2> QED BY <2>1, ToSetOf
<1> HIDE DEF lo, hi, T, N
<1>6. \A j \in 1..Len(M) : \/ Kept(L, segs, s, M, j)
                           \/ \E i \in T : j = s[1] - 1 + i /\ M[j] = out[i]
  <2> TAKE j \in 1..Len(M)
  <2>1. CASE Kept(L, segs, s, M, j)
    BY <2>1
  <2>2. CASE ~ Kept(L, segs, s, M, j)
    <3>1. PICK i \in T : j = s[1] - 1 + i
      BY <1>1, <2>2
    <3>2. M[j] = out[i]
      BY <1>1, <3>1 DEF Joined
    <3> QED BY <3>1, <3>2
  <2> QED BY <2>1, <2>2
<1>7. ASSUME NEW x \in ToSet(M) PROVE (x \in ToSet(L) /\ x \notin Obsolete(segs)) \/ x \in c + 1..N - 1
  <2>1. PICK j \in 1..Len(M) : x = M[j]
    <3>1. ToSet(M) = {M[j] : j \in 1..Len(M)}
      BY <1>1, ToSetOf
    <3> QED BY <3>1
  <2>2. CASE Kept(L, segs, s, M, j)
    BY <1>2, <2>1, <2>2
  <2>3. CASE \E i \in T : j = s[1] - 1 + i /\ M[j] = out[i]
    BY <1>3, <2>1, <2>3
  <2> QED BY <1>6, <2>2, <2>3
<1>8. \A x \in c + 1..N - 1 : x \in c + 1..N /\ x \notin ToSet(L)
  BY <1>3
<1>9. \A i, j \in 1..Len(M) : M[i] = M[j] => i = j
  <2> SUFFICES ASSUME NEW i \in 1..Len(M), NEW j \in 1..Len(M), M[i] = M[j] PROVE i = j
    OBVIOUS
  <2>1. CASE Kept(L, segs, s, M, i) /\ Kept(L, segs, s, M, j)
    <3>1. /\ hi[i] = lo[i] /\ lo[i] \in 1..Len(L) /\ M[i] = L[lo[i]]
          /\ hi[j] = lo[j] /\ lo[j] \in 1..Len(L) /\ M[j] = L[lo[j]]
      BY <2>1, Zenon DEF Kept, lo, hi
    <3>2. lo[i] = lo[j]
      BY <3>1, Zenon
    <3>3. lo[i] \in Nat
      BY <3>1
    <3>4. lo[i] <= lo[i] /\ lo[i] <= hi[i] /\ lo[j] <= lo[i] /\ lo[i] <= hi[j]
      BY <3>1, <3>2, <3>3
    <3> QED BY <1>1, <3>1, <3>4, PartOf, SMTT(30)
  <2>2. CASE ~ Kept(L, segs, s, M, i) /\ ~ Kept(L, segs, s, M, j)
    <3>1. PICK x \in T, y \in T : i = s[1] - 1 + x /\ M[i] = out[x] /\ j = s[1] - 1 + y /\ M[j] = out[y]
      BY <1>6, <2>2
    <3>2. x = y
      BY <1>4, <3>1
    <3> QED BY <3>1, <3>2
  <2>3. \A x, y \in 1..Len(M) : Kept(L, segs, s, M, x) /\ ~ Kept(L, segs, s, M, y) => M[x] # M[y]
    <3> TAKE x \in 1..Len(M), y \in 1..Len(M)
    <3> HAVE Kept(L, segs, s, M, x) /\ ~ Kept(L, segs, s, M, y)
    <3>1. M[x] \in ToSet(L)
      BY <1>2
    <3>2. M[y] \in c + 1..N - 1
      BY <1>3, <1>6, Zenon
    <3> QED BY <1>8, <3>1, <3>2
  <2> QED BY <2>1, <2>2, <2>3
<1> QED BY <1>5, <1>7, <1>8, <1>9 DEF N

\* The meta files before a compaction keep the SSTs it leaves alone.
LEMMA CompactedRest ==
  ASSUME NEW L \in Seq(Nat), \A i, j \in 1..Len(L) : L[i] = L[j] => i = j,
         NEW segs, NEW s, IsCut(segs, s, L), NEW c \in Nat, ToSet(L) \subseteq 1..c,
         NEW out, out = Out(segs, c), NEW M, M = Compacted(L, s, out)
  PROVE  Without(L, ToSet(out) \cup Obsolete(segs)) \o out = M
PROOF
<1> DEFINE a == s[1]
           P == SubSeq(L, 1, a - 1)
           R == SubSeq(L, a, Len(L))
           K == ToSet(out) \cup Obsolete(segs)
<1>1. /\ out \in Seq(Nat) /\ Len(out) = Len(s) /\ Len(s) \in Nat
      /\ \A i \in Merged(segs) : i \in 1..Len(s)
      /\ \A i \in 1..Len(s) : i \notin Merged(segs) => CutEnd(s, L, i) = s[i] /\ out[i] = L[s[i]]
      /\ \A i \in Merged(segs), p \in 1..Len(L) : s[i] <= p /\ p <= CutEnd(s, L, i) => L[p] \in Obsolete(segs)
  BY CutOut
<1>2. Len(s) > 0 /\ \A i \in 1..Len(s) : s[i] \in 1..Len(L)
  BY DEF IsCut
<1>3. a \in 1..Len(L) /\ Len(L) \in Nat
  <2>1. 1 \in 1..Len(s)
    BY <1>1, <1>2
  <2> QED BY <1>2, <2>1
<1>4. /\ M \in Seq(Nat) /\ Len(M) = a - 1 + Len(s) /\ Parts(L, M, PartLo(s), PartHi(s, L))
      /\ \A i \in Merged(segs) : Joined(L, segs, s, out, M, i)
      /\ \A j \in 1..Len(M) : Kept(L, segs, s, M, j) \/ \E i \in Merged(segs) : j = s[1] - 1 + i
  BY CompactedPlaces
<1>5. Obsolete(segs) \cap ToSet(M) = {} /\ \A i, j \in 1..Len(M) : M[i] = M[j] => i = j
  BY CompactedSsts
<1> HIDE DEF a
<1>6. P \in Seq(Nat) /\ R \in Seq(Nat) /\ Len(P) = a - 1 /\ L = P \o R
  BY <1>3, SMTT(30)
<1>7. M = P \o out
  BY DEF Compacted, a
<1>8. \A y \in 1..a - 1 + Len(out) : M[y] = IF y <= a - 1 THEN P[y] ELSE out[y - (a - 1)]
  <2>1. P \in Seq(Nat) /\ out \in Seq(Nat)
    BY <1>1, <1>6
  <2>2. \A y \in 1..Len(P) + Len(out) : (P \o out)[y] = IF y <= Len(P) THEN P[y] ELSE out[y - Len(P)]
    BY <2>1
  <2> QED BY <1>6, <1>7, <2>2
<1>9. ToSet(out) = {out[i] : i \in 1..Len(out)}
  BY <1>1, ToSetOf
<1>10. Len(R) = Len(L) - a + 1 /\ \A x \in 1..Len(R) : R[x] = L[a + x - 1]
  BY <1>3
<1> HIDE DEF P, R, K
<1>11. \A x \in 1..a - 1 : P[x] \notin K
  <2> TAKE x \in 1..a - 1
  <2>1. x \in 1..Len(M) /\ M[x] = P[x] /\ M[x] \in ToSet(M)
    <3>1. x \in 1..Len(M) /\ M[x] = P[x]
      <4>1. a \in Nat /\ Len(out) \in Nat /\ Len(M) = a - 1 + Len(out)
        BY <1>1, <1>3, <1>4
      <4> QED BY <1>8, <4>1
    <3> QED BY <1>4, <3>1, ToSetOf
  <2>2. P[x] \notin Obsolete(segs)
    BY <1>5, <2>1
  <2>3. ASSUME P[x] \in ToSet(out) PROVE FALSE
    <3>1. PICK i \in 1..Len(out) : P[x] = out[i]
      BY <1>9, <2>3
    <3>2. a - 1 + i \in 1..Len(M) /\ M[a - 1 + i] = out[i] /\ a - 1 + i # x
      <4>1. a \in Nat /\ 1 <= a /\ Len(out) \in Nat /\ i \in 1..Len(out) /\ Len(M) = a - 1 + Len(out)
        BY <1>1, <1>3, <1>4
      <4>2. a - 1 + i \in 1..Len(M) /\ ~ (a - 1 + i <= a - 1) /\ a - 1 + i - (a - 1) = i /\ a - 1 + i # x
        BY <4>1
      <4> QED BY <1>8, <4>1, <4>2
    <3> QED BY <1>5, <2>1, <3>1, <3>2
  <2> QED BY <2>2, <2>3 DEF K
<1>12. Without(P, K) = P
  <2>1. ToSet(P) \cap K = {}
    <3>1. ToSet(P) = {P[x] : x \in 1..Len(P)}
      BY <1>6, ToSetOf
    <3> QED BY <1>6, <1>11, <3>1
  <2> QED BY <1>6, <2>1, WithoutNothing
<1>13. ASSUME NEW x \in 1..Len(R) PROVE R[x] \in K
  <2> DEFINE p == a + x - 1
             lo == PartLo(s)
             hi == PartHi(s, L)
  <2>1. p \in 1..Len(L) /\ a <= p /\ R[x] = L[p]
    BY <1>3, <1>10
  <2> HIDE DEF p
  <2>2. PICK j \in 1..Len(M) : p \in lo[j]..hi[j]
    BY <1>4, <2>1 DEF Parts
  <2>3. ~ (j < a)
    <3> SUFFICES ASSUME j < a PROVE FALSE
      OBVIOUS
    <3>1. j \in 1..a - 1 + Len(s)
      BY <1>4
    <3>2. hi[j] = j /\ lo[j] = j
      BY <3>1 DEF PartHi, PartLo, a
    <3> QED BY <1>3, <2>1, <2>2, <3>2
  <2> DEFINE i == j - a + 1
  <2>4. i \in 1..Len(s) /\ j = a - 1 + i
    BY <1>1, <1>3, <1>4, <2>3
  <2>5. lo[j] = s[i] /\ hi[j] = CutEnd(s, L, i)
    <3>1. j \in 1..a - 1 + Len(s)
      BY <1>4
    <3> QED BY <2>3, <3>1 DEF PartHi, PartLo, a
  <2> HIDE DEF i, lo, hi
  <2>6. s[i] <= p /\ p <= CutEnd(s, L, i)
    BY <2>2, <2>5
  <2>7. CASE i \in Merged(segs)
    BY <1>1, <2>1, <2>6, <2>7, Zenon DEF K
  <2>8. CASE i \notin Merged(segs)
    <3>1. CutEnd(s, L, i) = s[i] /\ out[i] = L[s[i]] /\ s[i] \in 1..Len(L)
      BY <1>1, <1>2, <2>4, <2>8, Zenon
    <3>2. p = s[i]
      BY <2>1, <2>6, <3>1
    <3>3. out[i] \in ToSet(out)
      BY <1>9, <1>1, <2>4
    <3> QED BY <2>1, <3>1, <3>2, <3>3 DEF K
  <2> QED BY <2>7, <2>8
<1>14. Without(R, K) = <<>>
  <2>1. ToSet(R) \subseteq K
    <3>1. ToSet(R) = {R[x] : x \in 1..Len(R)}
      BY <1>6, ToSetOf
    <3> QED BY <1>13, <3>1
  <2> QED BY <1>6, <2>1, WithoutAll
<1>15. Without(L, K) = Without(P, K) \o Without(R, K)
  BY <1>6, WithoutConcat
<1>16. Without(L, K) = P
  BY <1>6, <1>12, <1>14, <1>15
<1> QED BY <1>7, <1>16, Zenon DEF K

\* A superseded blob is one of an entry that is not the newest of its key.
LEMMA SupersededBlobIs ==
  ASSUME NEW seg, NEW x \in SupersededBlobs(seg)
  PROVE  \E t \in ToSet(seg), k \in Keys : LET e == SstEntry(t, k, Dir)
                                           IN e # Newest(seg, k, Dir) /\ e[1] = "blob" /\ x = e[2]
PROOF
  BY DEF SupersededBlobs

\* The newest entry of a single SST is its own.
LEMMA NewestOfOne ==
  ASSUME NEW L \in Seq(Nat), NEW p \in 1..Len(L), NEW k, NEW dir
  PROVE  Newest(SubSeq(L, p, p), k, dir) = SstEntry(L[p], k, dir)
PROOF
<1>1. p \in p..Len(L) /\ p \in Nat
  OBVIOUS
<1> DEFINE e == Newest(SubSeq(L, p, p), k, dir)
<1>2. IsNewestOf(e, L, p, p, k, dir)
  BY <1>1, NewestOfPart
<1>3. p..p = {p}
  BY <1>1
<1> HIDE DEF e
<1>4. e = SstEntry(L[p], k, dir)
  BY <1>2, <1>3 DEF IsNewestOf
<1> QED BY <1>4 DEF e

\* A lookup in one of the SSTs L finds the same in both directories.
SameTables(L, dir, dat) == \A t \in ToSet(L), k \in Keys : SstEntry(t, k, dir) = SstEntry(t, k, dat)
\* The files fs with contents dat have what the segments, in dir, are merged into.
HasMerged(segs, out, fs, dir, dat) ==
  \A i \in Merged(segs) : /\ <<"sst", out[i]>> \in fs
                          /\ dat[<<"sst", out[i]>>] = [k \in Keys |-> Newest(segs[i], k, dir)]
\* Lookups in the merged segments, which were in dir, are the same in dat.
SameSegments(segs, s, L, dir, dat) ==
  \A i \in Merged(segs), k \in Keys :
    Newest(segs[i], k, dir) = Newest(SubSeq(L, s[i], CutEnd(s, L, i)), k, dat)

\* The files of a compaction: each SST of M has what a lookup finds in its part of L.
LEMMA CompactMerges ==
  ASSUME NEW L \in Seq(Nat), NEW segs, NEW s, IsCut(segs, s, L), NEW c \in Nat, NEW out, out = Out(segs, c),
         NEW M, M = Compacted(L, s, out), NEW fs, NEW dat, Tables(L, fs, dat), fs \subseteq DOMAIN dat,
         NEW dir, SameTables(L, dir, dat), HasMerged(segs, out, fs, dir, dat)
  PROVE  /\ Merges(L, M, PartLo(s), PartHi(s, L), dat, dat)
         /\ \A j \in 1..Len(M) : /\ <<"sst", M[j]>> \in fs
                                 /\ dat[<<"sst", M[j]>>] = [k \in Keys |-> dat[<<"sst", M[j]>>][k]]
         /\ SameSegments(segs, s, L, dir, dat)
PROOF
<1> DEFINE lo == PartLo(s)
           hi == PartHi(s, L)
           T == Merged(segs)
<1>1. /\ \A i \in T : Joined(L, segs, s, out, M, i)
      /\ \A j \in 1..Len(M) : Kept(L, segs, s, M, j) \/ \E i \in T : j = s[1] - 1 + i
  BY CompactedPlaces
<1>2. \A i \in T : i \in 1..Len(s)
  BY CutOut
<1>3. \A i \in 1..Len(s) : s[i] \in 1..Len(L) /\ CutEnd(s, L, i) \in s[i]..Len(L) /\ segs[i] = SubSeq(L, s[i], CutEnd(s, L, i))
  BY DEF IsCut
<1>4. ASSUME NEW i \in T, NEW k \in Keys
      PROVE  Newest(segs[i], k, dir) = Newest(SubSeq(L, s[i], CutEnd(s, L, i)), k, dat)
  <2> DEFINE a == s[i]
             z == CutEnd(s, L, i)
             seg == SubSeq(L, a, z)
  <2>1. a \in 1..Len(L) /\ z \in a..Len(L) /\ segs[i] = seg
    BY <1>2, <1>3, Zenon
  <2> HIDE DEF a, z
  <2>2. seg \in Seq(Nat) /\ Len(seg) = z - a + 1 /\ \A x \in 1..z - a + 1 : seg[x] = L[a + x - 1]
    BY <2>1, PartIs, Zenon
  <2> HIDE DEF seg
  <2>3. \A x \in 1..Len(seg) : SstEntry(seg[x], k, dir) = SstEntry(seg[x], k, dat)
    <3> TAKE x \in 1..Len(seg)
    <3>1. a + x - 1 \in 1..Len(L) /\ seg[x] = L[a + x - 1]
      BY <2>1, <2>2
    <3>2. \A p \in 1..Len(L) : L[p] \in ToSet(L)
      BY ToSetOf
    <3> QED BY <3>1, <3>2 DEF SameTables
  <2>4. Newest(seg, k, dir) = Newest(seg, k, dat)
    BY <2>2, <2>3, NewestAgree
  <2> QED BY <2>1, <2>4 DEF seg, a, z
<1> HIDE DEF T, lo, hi
<1>5. ASSUME NEW j \in 1..Len(M), Kept(L, segs, s, M, j)
      PROVE  /\ <<"sst", M[j]>> \in fs /\ dat[<<"sst", M[j]>>] = [k \in Keys |-> dat[<<"sst", M[j]>>][k]]
             /\ \A k \in Keys : SstEntry(M[j], k, dat) = Newest(SubSeq(L, lo[j], hi[j]), k, dat)
  <2>1. hi[j] = lo[j] /\ lo[j] \in 1..Len(L) /\ M[j] = L[lo[j]]
    BY <1>5 DEF Kept, lo, hi
  <2>2. M[j] \in ToSet(L)
    BY <2>1, ToSetOf
  <2>3. <<"sst", M[j]>> \in fs /\ dat[<<"sst", M[j]>>] \in Table
    BY <2>2 DEF Tables
  <2>4. dat[<<"sst", M[j]>>] = [k \in Keys |-> dat[<<"sst", M[j]>>][k]]
    BY <2>3, Zenon DEF Table
  <2>5. \A k \in Keys : Newest(SubSeq(L, lo[j], hi[j]), k, dat) = SstEntry(M[j], k, dat)
    BY <2>1, NewestOfOne
  <2> QED BY <2>3, <2>4, <2>5
<1>6. ASSUME NEW j \in 1..Len(M), NEW i \in T, j = s[1] - 1 + i
      PROVE  /\ <<"sst", M[j]>> \in fs /\ dat[<<"sst", M[j]>>] = [k \in Keys |-> dat[<<"sst", M[j]>>][k]]
             /\ \A k \in Keys : SstEntry(M[j], k, dat) = Newest(SubSeq(L, lo[j], hi[j]), k, dat)
  <2>1. M[j] = out[i] /\ lo[j] = s[i] /\ hi[j] = CutEnd(s, L, i)
    BY <1>1, <1>6 DEF Joined, lo, hi
  <2>2. <<"sst", M[j]>> \in fs /\ dat[<<"sst", M[j]>>] = [k \in Keys |-> Newest(segs[i], k, dir)]
    BY <2>1, Zenon DEF T, HasMerged
  <2>3. \A k \in Keys : SstEntry(M[j], k, dat) = Newest(segs[i], k, dir)
    BY <2>2 DEF SstEntry
  <2>4. dat[<<"sst", M[j]>>] = [k \in Keys |-> dat[<<"sst", M[j]>>][k]]
    BY <2>2
  <2> QED BY <1>4, <2>1, <2>2, <2>3, <2>4
<1>7. \A j \in 1..Len(M) :
        /\ <<"sst", M[j]>> \in fs /\ dat[<<"sst", M[j]>>] = [k \in Keys |-> dat[<<"sst", M[j]>>][k]]
        /\ \A k \in Keys : SstEntry(M[j], k, dat) = Newest(SubSeq(L, lo[j], hi[j]), k, dat)
  BY <1>1, <1>5, <1>6, Zenon
<1>8. Merges(L, M, lo, hi, dat, dat)
  BY <1>7, Zenon DEF Merges
<1> QED BY <1>4, <1>7, <1>8 DEF T, lo, hi, SameSegments

\* The blobs a compaction deletes are superseded.
LEMMA CompactBlobs ==
  ASSUME NEW L \in Seq(Nat), NEW segs, NEW s, IsCut(segs, s, L), NEW c \in Nat, NEW out, out = Out(segs, c),
         NEW M, M = Compacted(L, s, out), NEW fs, NEW dat,
         Merging(L, M, PartLo(s), PartHi(s, L), fs, dat),
         SameTables(L, Dir, dat), SameSegments(segs, s, L, Dir, dat),
         NEW i \in Merged(segs), NEW x \in SupersededBlobs(segs[i])
  PROVE  x \in BlobRefs(L, dat) /\ x \notin BlobRefs(M, dat)
PROOF
<1> DEFINE lo == PartLo(s)
           hi == PartHi(s, L)
           j == s[1] - 1 + i
<1>1. j \in 1..Len(M) /\ lo[j] = s[i] /\ hi[j] = CutEnd(s, L, i)
  BY CompactedPlaces DEF Joined
<1>2. PICK t \in ToSet(segs[i]), k \in Keys :
        SstEntry(t, k, Dir) # Newest(segs[i], k, Dir) /\ SstEntry(t, k, Dir)[1] = "blob" /\ x = SstEntry(t, k, Dir)[2]
  BY SupersededBlobIs
<1>3. t \in Obsolete(segs)
  BY DEF Obsolete
<1>4. i \in 1..Len(s)
  BY CutOut
<1>5. s[i] \in 1..Len(L) /\ CutEnd(s, L, i) \in s[i]..Len(L) /\ segs[i] = SubSeq(L, s[i], CutEnd(s, L, i))
  BY <1>4 DEF IsCut
<1> HIDE DEF lo, hi, j
<1>6. PICK p \in lo[j]..hi[j] : p \in 1..Len(L) /\ t = L[p]
  <2> DEFINE a == s[i]
             z == CutEnd(s, L, i)
             seg == SubSeq(L, a, z)
  <2>1. a \in 1..Len(L) /\ z \in a..Len(L) /\ segs[i] = seg
    BY <1>5
  <2> HIDE DEF a, z
  <2>2. seg \in Seq(Nat) /\ Len(seg) = z - a + 1 /\ \A y \in 1..z - a + 1 : seg[y] = L[a + y - 1]
    BY <2>1, PartIs, Zenon
  <2> HIDE DEF seg
  <2>3. ToSet(seg) = {seg[y] : y \in 1..Len(seg)}
    BY <2>2, ToSetOf
  <2>4. PICK y \in 1..Len(seg) : t = seg[y]
    BY <1>2, <2>1, <2>3
  <2>5. a + y - 1 \in a..z /\ a + y - 1 \in 1..Len(L) /\ t = L[a + y - 1]
    BY <2>1, <2>2, <2>4, SMTT(30)
  <2> QED BY <1>1, <2>5, Zenon DEF a, z
<1>7. t \in ToSet(L)
  BY <1>6, ToSetOf
<1>8. SstEntry(t, k, Dir) = dat[<<"sst", t>>][k]
  <2>1. Tables(L, fs, dat) /\ fs \subseteq DOMAIN dat
    BY DEF Merging
  <2>2. SstEntry(t, k, dat) = dat[<<"sst", t>>][k]
    BY <1>7, <2>1, InTable
  <2> QED BY <1>7, <2>2 DEF SameTables
<1> DEFINE e == dat[<<"sst", L[p]>>][k]
<1>9. e[1] = "blob" /\ x = e[2] /\ e # Newest(SubSeq(L, lo[j], hi[j]), k, dat)
  BY <1>1, <1>2, <1>6, <1>8 DEF SameSegments
<1>10. Merging(L, M, lo, hi, fs, dat)
  BY DEF lo, hi
<1> QED BY <1>1, <1>6, <1>9, <1>10, MergedAway

\* The files of a compaction prepare a state with the contents there were.
LEMMA CompactPrepared ==
  ASSUME Inv, pc = "idle", NEW segs \in MergeJobs(LiveSsts(metas)), Compact(segs)
  PROVE  Prepared(metas, op', seqNo, proposed', disk', data')
PROOF
<1> DEFINE L == LiveSsts(metas)
           N == CompactMeta(segs, seqNo)
           T == Merged(segs)
           out == Out(segs, seqNo)
           dat == data'
<1>1. /\ Types /\ Core(metas, seqNo, acked, disk, stable, data)
      /\ \A f \in disk : f[2] <= seqNo
  BY DEF Inv, WhenBefore, Before
<1>2. seqNo \in Nat /\ MaxSeq \in Nat /\ disk \subseteq DOMAIN data
  BY <1>1, SeqAssumption DEF Core, Types
<1>3. L \in Seq(Nat) /\ ToSet(L) \subseteq 1..seqNo /\ \A i, j \in 1..Len(L) : L[i] = L[j] => i = j
  BY <1>1 DEF Core, Needed, Tables
<1>4. PICK s : IsCut(segs, s, L)
  BY <1>3, MergeJobIs
<1> DEFINE m == Len(s)
           M == Compacted(L, s, out)
           lo == PartLo(s)
           hi == PartHi(s, L)
<1>5. m \in Nat /\ DOMAIN segs = 1..m
  BY <1>4 DEF IsCut
<1> HIDE DEF m
<1>6. /\ op'.meta = N /\ op'.seq = N /\ N < MaxSeq
      /\ op'.sstDel = Obsolete(segs) /\ op'.metaDel = {}
      /\ op'.blobDel = AllSuperseded(segs)
      /\ op'.files \subseteq Files
      /\ \A f \in op'.files : f = <<"meta", N>> \/ \E i \in T : f = <<"sst", out[i]>>
      /\ <<"meta", N>> \in op'.files /\ \A i \in T : <<"sst", out[i]>> \in op'.files
      /\ disk' = disk \cup op'.files /\ DOMAIN dat = disk' \cup stable'
      /\ \A f \in disk \cup stable : f \notin op'.files => dat[f] = data[f]
      /\ Raw(dat, N) = [entries |-> out, obsolete |-> Obsolete(segs)]
      /\ \A i \in T : dat[<<"sst", out[i]>>] = [k \in Keys |-> Newest(segs[i], k, Dir)]
  <2>1. Types /\ seqNo \in Nat /\ out = Out(segs, seqNo) /\ N = CompactMeta(segs, seqNo) /\ T = Merged(segs)
    BY <1>1, <1>2
  <2> HIDE DEF out, N, T
  <2> QED BY <1>5, <2>1, CompactFiles, SMTT(30)
<1>7. N \in Nat /\ seqNo < N /\ \A i \in T : out[i] \in seqNo + 1..N - 1
  BY <1>2, <1>5, OutNumbers, Zenon
<1>8. proposed' = acked
  BY DEF Compact
<1>9. out \in Seq(Nat)
  BY <1>2, <1>3, <1>4, CutOut
<1> HIDE DEF L, N, T, out, dat, M, lo, hi
<1>10. \A f \in op'.files : /\ f[2] \in seqNo + 1..N /\ f[1] # "del" /\ f[2] > seqNo
                            /\ f[1] = "meta" => f[2] = N
  BY <1>2, <1>6, <1>7
<1>11. /\ Tables(L, disk', dat) /\ BlobRefs(L, dat) = BlobRefs(L, data) /\ ContentOf(L, dat) = acked
       /\ \A t \in ToSet(L) : dat[<<"sst", t>>] = data[<<"sst", t>>]
  <2>1. Adds(op'.files, seqNo, disk, data, disk', dat)
    BY <1>6, <1>10 DEF Adds
  <2>2. /\ Tables(LiveSsts(metas), disk', dat) /\ BlobRefs(LiveSsts(metas), dat) = BlobRefs(LiveSsts(metas), data)
        /\ ContentOf(LiveSsts(metas), dat) = acked
        /\ \A t \in ToSet(LiveSsts(metas)) : dat[<<"sst", t>>] = data[<<"sst", t>>]
    BY <1>1, <1>2, <2>1, OldTables
  <2> QED BY <2>2 DEF L
<1>12. disk' \subseteq DOMAIN dat
  BY <1>6
<1>13. SameTables(L, Dir, dat)
  <2> SUFFICES ASSUME NEW t \in ToSet(L), NEW k \in Keys PROVE SstEntry(t, k, Dir) = SstEntry(t, k, dat)
    BY DEF SameTables
  <2>1. <<"sst", t>> \in disk
    BY <1>1 DEF Core, Tables, L
  <2>2. <<"sst", t>> \in DOMAIN dat /\ dat[<<"sst", t>>] = data[<<"sst", t>>]
    BY <1>6, <1>11, <2>1
  <2>3. <<"sst", t>> \in DOMAIN Dir /\ Dir[<<"sst", t>>] = data[<<"sst", t>>]
    BY <2>1 DEF Dir
  <2> QED BY <2>2, <2>3 DEF SstEntry
<1>14. M = Compacted(L, s, out) /\ out = Out(segs, seqNo) /\ T = Merged(segs) /\ N = CompactMeta(segs, seqNo)
       /\ lo = PartLo(s) /\ hi = PartHi(s, L)
  BY DEF M, out, T, N, lo, hi
<1>15. /\ M \in Seq(Nat) /\ Parts(L, M, lo, hi)
  BY <1>2, <1>3, <1>4, <1>14, CompactedPlaces
<1>16. /\ ToSet(M) \subseteq ToSet(L) \cup (seqNo + 1..N)
       /\ Obsolete(segs) \subseteq ToSet(L) /\ Obsolete(segs) \cap ToSet(M) = {}
       /\ \A i, j \in 1..Len(M) : M[i] = M[j] => i = j
  BY <1>2, <1>3, <1>4, <1>14, CompactedSsts
<1>17. NextSsts(metas, op', dat) = M
  <2>1. RawMentions(dat, op'.meta) = ToSet(out) \cup Obsolete(segs) /\ Raw(dat, op'.meta).entries = out
    BY <1>6 DEF RawMentions
  <2>2. Without(L, ToSet(out) \cup Obsolete(segs)) \o out = M
    <3>1. out = Out(segs, seqNo) /\ seqNo \in Nat /\ M = Compacted(L, s, out)
      BY <1>2, <1>14
    <3> QED BY <1>3, <1>4, <3>1, CompactedRest, Zenon
  <2> QED BY <1>14, <2>1, <2>2, Zenon DEF NextSsts, L
<1>18. /\ Merges(L, M, lo, hi, dat, dat)
       /\ \A j \in 1..Len(M) : /\ <<"sst", M[j]>> \in disk'
                               /\ dat[<<"sst", M[j]>>] = [k \in Keys |-> dat[<<"sst", M[j]>>][k]]
       /\ SameSegments(segs, s, L, Dir, dat)
  <2>1. HasMerged(segs, out, disk', Dir, dat)
    BY <1>6, <1>14 DEF HasMerged
  <2>2. out = Out(segs, seqNo) /\ seqNo \in Nat /\ Tables(L, disk', dat) /\ M = Compacted(L, s, out) /\ L \in Seq(Nat)
    BY <1>2, <1>3, <1>11, <1>14
  <2>3. /\ Merges(L, M, PartLo(s), PartHi(s, L), dat, dat)
        /\ \A j \in 1..Len(M) : /\ <<"sst", M[j]>> \in disk'
                                /\ dat[<<"sst", M[j]>>] = [k \in Keys |-> dat[<<"sst", M[j]>>][k]]
        /\ SameSegments(segs, s, L, Dir, dat)
    BY <1>4, <1>12, <1>13, <2>1, <2>2, CompactMerges
  <2> QED BY <1>14, <2>3
<1>19. Merging(L, M, lo, hi, disk', dat)
  BY <1>3, <1>11, <1>12, <1>15, <1>16, <1>18 DEF Merging
<1>20. Tables(M, disk', dat) /\ BlobRefs(M, dat) \subseteq BlobRefs(L, dat) /\ ContentOf(M, dat) = ContentOf(L, dat)
  BY <1>19, MergedTables
<1>21. op'.blobDel \subseteq BlobRefs(L, dat) \ BlobRefs(M, dat)
  <2> SUFFICES ASSUME NEW i \in T, NEW x \in SupersededBlobs(segs[i])
               PROVE  x \in BlobRefs(L, dat) /\ x \notin BlobRefs(M, dat)
    <3>1. op'.blobDel = AllSuperseded(segs) /\ T = Merged(segs)
      BY <1>6, <1>14
    <3> QED BY <3>1 DEF AllSuperseded
  <2>1. out = Out(segs, seqNo) /\ seqNo \in Nat /\ M = Compacted(L, s, out) /\ i \in Merged(segs)
    BY <1>2, <1>14
  <2>2. Merging(L, M, PartLo(s), PartHi(s, L), disk', dat)
    BY <1>14, <1>19
  <2>3. SameSegments(segs, s, L, Dir, dat)
    BY <1>18
  <2>4. L \in Seq(Nat)
    BY <1>3
  <2> QED BY <1>4, <1>13, <2>1, <2>2, <2>3, <2>4, CompactBlobs
<1>22. OneKind(N, op'.files)
  <2> SUFFICES ASSUME NEW n \in 1..N, NEW k \in Kinds, NEW l \in Kinds, <<k, n>> \in op'.files, <<l, n>> \in op'.files
               PROVE  k = l
    BY DEF OneKind
  <2>1. \A j \in Kinds : <<j, n>> \in op'.files => (j = "meta" /\ n = N) \/ (j = "sst" /\ \E i \in T : n = out[i])
    <3>1. \A f \in op'.files : f = <<"meta", N>> \/ \E i \in T : f = <<"sst", out[i]>>
      BY <1>6
    <3> QED BY <3>1
  <2>2. \A i \in T : out[i] # N
    BY <1>2, <1>7
  <2> QED BY <2>1, <2>2
<1>23. N \in seqNo + 1..MaxSeq - 1
  BY <1>2, <1>6, <1>7
<1>24. /\ op'.meta \in seqNo + 1..MaxSeq - 1 /\ op'.seq = op'.meta /\ op'.metaDel = {}
       /\ op'.files \subseteq disk' /\ <<"meta", op'.meta>> \in op'.files
       /\ \A f \in op'.files : /\ f[2] \in seqNo + 1..op'.meta /\ f[1] # "del"
                               /\ f[1] = "meta" => f[2] = op'.meta
       /\ OneKind(op'.meta, op'.files)
  BY <1>6, <1>10, <1>22, <1>23
<1>25. /\ Raw(dat, op'.meta).entries \in Seq(Nat) /\ Raw(dat, op'.meta).obsolete = op'.sstDel
       /\ op'.sstDel \subseteq ToSet(L) /\ op'.sstDel \cap ToSet(M) = {}
       /\ ToSet(M) \subseteq ToSet(L) \cup (seqNo + 1..op'.meta)
  BY <1>6, <1>9, <1>16
<1>26. BlobRefs(M, dat) \subseteq BlobRefs(L, dat) \cup (seqNo + 1..op'.meta) /\ ContentOf(M, dat) = proposed'
  BY <1>8, <1>11, <1>20
<1> QED BY <1>17, <1>20, <1>21, <1>24, <1>25, <1>26 DEF Prepared, L, dat

\* A compaction leaves a commit prepared that changes no contents.
LEMMA InvCompact ==
  ASSUME Inv, pc = "idle", NEW segs \in MergeJobs(LiveSsts(metas)), Compact(segs)
  PROVE  Inv'
PROOF
<1>1. Prepared(metas, op', seqNo, proposed', disk', data')
  BY CompactPrepared
<1>2. Types /\ Core(metas, seqNo, acked, disk, stable, data)
  BY DEF Inv, WhenBefore, Before
<1>3. seqNo \in Nat /\ LiveSsts(metas) \in Seq(Nat)
  BY <1>2, SeqAssumption DEF Core, Tables
<1>4. PICK s : IsCut(segs, s, LiveSsts(metas))
  BY <1>3, MergeJobIs
<1> DEFINE m == Len(s)
<1>5. m \in Nat /\ DOMAIN segs = 1..m
  BY <1>4 DEF IsCut
<1> HIDE DEF m
<1>6. /\ op'.meta = op'.seq /\ op'.files \subseteq Files
      /\ disk' = disk \cup op'.files /\ DOMAIN data' = disk' \cup stable'
      /\ \A f \in disk \cup stable : f \notin op'.files => data'[f] = data[f]
  BY <1>2, <1>3, <1>5, CompactFiles, Zenon
<1>7. /\ pc' = "written" /\ batches' \in Nat
      /\ UNCHANGED <<stable, current, currentMay, metas, seqNo, acked>>
  BY <1>2 DEF Compact, Types, memVars
<1> QED BY <1>1, <1>6, <1>7, InvWritten

-----------------------------------------------------------------------------
(* Every behaviour.                                                        *)

\* The invariant depends on the variables of the specification only.
LEMMA InvStutter == Inv /\ UNCHANGED vars => Inv'
PROOF
<1> SUFFICES ASSUME Inv, UNCHANGED vars PROVE Inv'
  OBVIOUS
<1>1. UNCHANGED <<disk, stable, data, current, currentMay, metas, seqNo, pc, op, acked, proposed, batches>>
  BY DEF vars, fsVars, memVars
<1>2. Types' /\ Recoverable' /\ WhenDown' /\ WhenInitializing'
  BY <1>1 DEF Inv, Types, Recoverable, WhenDown, WhenInitializing
<1>3. WhenBefore' /\ WhenPrepared' /\ WhenAfter' /\ WhenFailed'
  BY <1>1 DEF Inv, WhenBefore, WhenPrepared, WhenAfter, WhenFailed
<1> QED BY <1>2, <1>3 DEF Inv

\* Every step keeps the invariant.
LEMMA InvNext == Inv /\ [Next]_vars => Inv'
PROOF
<1> SUFFICES ASSUME Inv, [Next]_vars PROVE Inv'
  OBVIOUS
<1>1. CASE CreateCurrent
  BY <1>1, InvCreateCurrent
<1>2. CASE WriteZero
  BY <1>2, InvWriteZero
<1>3. CASE Open
  BY <1>3, InvOpen
<1>4. ASSUME NEW b \in Batches, WriteBatch(b) PROVE Inv'
  BY <1>4, InvWriteBatch
<1>5. ASSUME pc = "idle", NEW segs \in MergeJobs(LiveSsts(metas)), Compact(segs) PROVE Inv'
  BY <1>5, InvCompact
<1>6. CASE Commit
  BY <1>6, InvSyncFiles, InvPublish, InvWriteDel, InvWriteCurrent, InvSyncCurrent, InvRemoveAndFinish DEF Commit
<1>7. CASE Fail
  BY <1>7, InvFail
<1>8. CASE Crash
  BY <1>8, InvCrash
<1>9. CASE UNCHANGED vars
  BY <1>9, InvStutter
<1> QED BY <1>1, <1>2, <1>3, <1>4, <1>5, <1>6, <1>7, <1>8, <1>9 DEF Next

\* In every state of the store the directory can be recovered to what was last
\* acknowledged or is being committed, and holds all a reader follows.
THEOREM Invariant == Spec => []Inv
PROOF
<1>1. Init => Inv
  BY InvInit
<1>2. Inv /\ [Next]_vars => Inv'
  BY InvNext
<1> QED BY <1>1, <1>2, PTL DEF Spec

\* While the process is up its meta files and all they need are a complete
\* state of the directory.
LEMMA CoreUp ==
  ASSUME Inv, Up
  PROVE  /\ \E v : Core(metas, seqNo, v, disk, stable, data)
         /\ pc \in Before => Core(metas, seqNo, acked, disk, stable, data)
         /\ pc \in After => Core(metas, seqNo, proposed, disk, stable, data)
PROOF
<1>1. pc \in Before \cup After \cup {"failed"}
  BY DEF Inv, Types, Up
<1>2. pc \in Before => Core(metas, seqNo, acked, disk, stable, data)
  BY DEF Inv, WhenBefore
<1>3. pc \in After => Core(metas, seqNo, proposed, disk, stable, data)
  BY DEF Inv, WhenAfter
<1>4. pc = "failed" => \E v : Core(metas, seqNo, v, disk, stable, data)
  BY DEF Inv, WhenFailed
<1> QED BY <1>1, <1>2, <1>3, <1>4

\* The types of the store, for every set of keys and batches and all bounds; the
\* loaded meta files are in the order of their sequence numbers.
THEOREM TypeCorrect == Spec => []TypeOK
PROOF
<1>1. ASSUME Inv PROVE TypeOK
  <2>1. Types /\ WhenDown /\ WhenInitializing
    BY <1>1 DEF Inv
  <2>2. disk \subseteq Files /\ stable \subseteq Files /\ DOMAIN data = disk \cup stable
        /\ current \in Nat \cup {NoFile, EmptyFile} /\ current \in currentMay
        /\ op.files \subseteq Files /\ op.seq \in 0..MaxSeq
    BY <2>1, SeqAssumption DEF Types
  <2>3. CASE Up
    <3>1. PICK v : Core(metas, seqNo, v, disk, stable, data)
      BY <1>1, <2>3, CoreUp
    <3>2. seqNo \in 0..MaxSeq /\ metas \in Seq(MetaRec) /\ IsAscending(metas)
      BY <3>1 DEF Core, MetasOK, Good
    <3>3. DOMAIN metas = 1..Len(metas)
      BY <3>2
    <3> QED BY <2>2, <3>2, <3>3 DEF TypeOK, IsAscending
  <2>4. CASE ~ Up
    <3>1. metas = <<>> /\ seqNo = 0
      BY <2>1, <2>4 DEF Up, WhenDown, WhenInitializing
    <3>2. \A i, j \in DOMAIN metas : i < j => metas[i].seq < metas[j].seq
      BY <3>1
    <3>3. seqNo \in 0..MaxSeq
      BY <3>1, SeqAssumption
    <3> QED BY <2>2, <3>2, <3>3 DEF TypeOK
  <2> QED BY <2>3, <2>4
<1> QED BY <1>1, Invariant, PTL

\* A reader sees a commit exactly from the moment it is published on, all of it
\* at once, and no difference when a compaction is published.
THEOREM ReadersAreConsistent == Spec => []ReadersSeeCommits
PROOF
<1>1. ASSUME Inv PROVE ReadersSeeCommits
  <2> SUFFICES ASSUME Up, pc # "failed"
               PROVE  Content(metas, Dir) = IF pc \in {"idle", "written", "synced"} THEN acked ELSE proposed
    BY DEF ReadersSeeCommits
  <2>1. disk \cup stable \subseteq DOMAIN data /\ Dir = [f \in disk |-> data[f]]
    BY <1>1 DEF Inv, Types, Dir
  <2>2. CASE pc \in Before
    <3>1. Core(metas, seqNo, acked, disk, stable, data)
      BY <1>1, <2>2, CoreUp
    <3>2. Content(metas, Dir) = acked
      BY <2>1, <3>1, CoreLookups
    <3> QED BY <2>2, <3>2 DEF Before
  <2>3. CASE pc \in After
    <3>1. Core(metas, seqNo, proposed, disk, stable, data)
      BY <1>1, <2>3, CoreUp
    <3>2. Content(metas, Dir) = proposed
      BY <2>1, <3>1, CoreLookups
    <3> QED BY <2>3, <3>2 DEF After
  <2> QED BY <1>1, <2>2, <2>3 DEF Inv, Types, Up
<1> QED BY <1>1, Invariant, PTL

\* The SSTs and blobs that a reader of the loaded meta files can come to are in
\* the directory, also while a commit deletes what it has superseded and after
\* it has failed.
THEOREM ReferencesAreKept == Spec => []NoDanglingReference
PROOF
<1>1. ASSUME Inv PROVE NoDanglingReference
  <2> SUFFICES ASSUME Up
               PROVE  /\ \A s \in ToSet(LiveSsts(metas)) : <<"sst", s>> \in disk
                      /\ \A k \in Keys : LET e == Newest(LiveSsts(metas), k, Dir)
                                         IN e[1] = "blob" => <<"blob", e[2]>> \in disk
    BY DEF NoDanglingReference
  <2>1. disk \cup stable \subseteq DOMAIN data /\ Dir = [f \in disk |-> data[f]]
    BY <1>1 DEF Inv, Types, Dir
  <2>2. PICK v : Core(metas, seqNo, v, disk, stable, data)
    BY <1>1, CoreUp
  <2> QED BY <2>1, <2>2, CoreLookups
<1> QED BY <1>1, Invariant, PTL

\* Commits are atomic and durable: whichever files a crash leaves, opening the
\* directory after it finds the contents of the last acknowledged commit, or all
\* of the one that was under way.
THEOREM CommitsAreDurable == Spec => RecoveredIsCommitted
PROOF
<1>1. ASSUME Inv, [Next]_vars
      PROVE  [(pc \in {"down", "initializing"} /\ pc' = "idle") => Content(metas', Dir') \in {acked, proposed}]_vars
  <2> SUFFICES ASSUME Next, pc \in {"down", "initializing"}, pc' = "idle"
               PROVE  Content(metas', Dir') \in {acked, proposed}
    BY <1>1
  <2>1. CASE WriteZero
    BY <1>1, <2>1, InvWriteZero
  <2>2. CASE Open
    BY <1>1, <2>2, InvOpen
  <2>3. ~ CreateCurrent /\ ~ Crash /\ ~ Fail
    BY DEF CreateCurrent, Crash, Fail
  <2>4. ~ Commit
    BY DEF Commit, SyncFiles, Publish, WriteDel, WriteCurrent, SyncCurrent, RemoveAndFinish
  <2>5. \A b \in Batches : ~ WriteBatch(b)
    BY DEF WriteBatch
  <2> QED BY <2>1, <2>2, <2>3, <2>4, <2>5 DEF Next
<1> QED BY <1>1, Invariant, PTL DEF Spec, RecoveredIsCommitted

=============================================================================
