------------------------- MODULE MCTurboPersistence -------------------------
(* Model checking of TurboPersistence.  Two keys suffice for a batch that  *)
(* touches only part of the store and for a merge that drops one entry and *)
(* keeps another; between them the batches make each kind of write, leave  *)
(* a key alone, and overwrite a blob.                                      *)
EXTENDS TurboPersistence

CONSTANTS k1, k2

MCKeys == {k1, k2}
MCBatches == {
  [k \in MCKeys |-> IF k = k1 THEN "blob" ELSE "val"],
  [k \in MCKeys |-> IF k = k1 THEN "deleted" ELSE "none"]}

\* After the last crash what a power loss would keep is of no consequence.
MCView ==
  <<disk, current, memVars, pc, op, acked, proposed, readOnlyOpens, batches, compactions, crashes,
    IF crashes < MaxCrashes THEN <<stable, data, currentMay>>
    ELSE Dir>>
=============================================================================
