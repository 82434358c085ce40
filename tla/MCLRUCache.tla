----------------------------- MODULE MCLRUCache -----------------------------
(* Model checking of LRUCache.  Values of sizes 1, 2 and 3 under a         *)
(* capacity of 3 make a write drop no, one or several entries; one value   *)
(* is too large, one has no size.                                          *)
EXTENDS LRUCache, TLC

MCSizeOf == "small" :> 1 @@ "medium" :> 2 @@ "whole" :> 3 @@ "tooLarge" :> 4 @@ "empty" :> 0
MCData == DOMAIN MCSizeOf

\* Neither the code nor a property tells nodes apart.
MCSymmetry == Permutations(Nodes)
=============================================================================
