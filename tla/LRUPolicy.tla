----------------------------- MODULE LRUPolicy -----------------------------
(***************************************************************************)
(* What an LRU cache promises: its entries are a sequence, most recently   *)
(* used first; a write goes to the front and drops as many entries from    *)
(* the back as it takes to fit, and each of them is reported once.         *)
(***************************************************************************)
EXTENDS LRUOrder

VARIABLES
  order,    \* the entries, most recently used first
  evicted   \* keys the last set passed to onEvict, in that order

Init == order = <<>> /\ evicted = <<>>

Set(k, d) ==
  /\ Storable(d)
  /\ order' = Kept(Written(order, k, d))
  /\ evicted' = Dropped(Written(order, k, d))

Get(k) == order' = Touched(order, k) /\ UNCHANGED evicted
RemoveKey(k) == order' = Without(order, k) /\ UNCHANGED evicted

Next == \E k \in Keys : Get(k) \/ RemoveKey(k) \/ \E d \in Data : Set(k, d)

Spec == Init /\ [][Next]_<<order, evicted>>
=============================================================================
