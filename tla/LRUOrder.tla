------------------------------ MODULE LRUOrder ------------------------------
(* The contents of an LRU cache as a sequence of entries, most recently    *)
(* used first and at most one per key, and what reads and writes do to it. *)
EXTENDS Integers, Sequences, SequencesExt

CONSTANTS
  Keys, Data,
  SizeOf,   \* calculateSize
  MaxSize

ASSUME SizeAssumption == MaxSize \in Nat /\ SizeOf \in [Data -> Int]

\* What the first n entries of s add up to.
SizeUpTo(s, n) ==
  LET sum[i \in 0..Len(s)] == IF i = 0 THEN 0 ELSE sum[i - 1] + SizeOf[s[i].data]
  IN  sum[n]
TotalSize(s) == SizeUpTo(s, Len(s))

Holds(s, k) == \E i \in DOMAIN s : s[i].key = k
PositionOf(s, k) == CHOOSE i \in DOMAIN s : s[i].key = k

Without(s, k) == IF Holds(s, k) THEN RemoveAt(s, PositionOf(s, k)) ELSE s
Touched(s, k) == IF Holds(s, k) THEN <<s[PositionOf(s, k)]>> \o Without(s, k) ELSE s

\* How many entries of s stay: the longest prefix that fits.
Fitting(s) == CHOOSE n \in 0..Len(s) :
  /\ SizeUpTo(s, n) <= MaxSize
  /\ n = Len(s) \/ SizeUpTo(s, n + 1) > MaxSize

Kept(s) == SubSeq(s, 1, Fitting(s))
KeysOf(s) == [i \in DOMAIN s |-> s[i].key]
Dropped(s) == Reverse(KeysOf(SubSeq(s, Fitting(s) + 1, Len(s))))

\* A size of 0 or less throws, one above maxSize is refused: nothing changes.
Storable(d) == SizeOf[d] > 0 /\ SizeOf[d] <= MaxSize

\* The entries after a write, before anything is dropped.
Written(s, k, d) == <<[key |-> k, data |-> d]>> \o Without(s, k)
=============================================================================
