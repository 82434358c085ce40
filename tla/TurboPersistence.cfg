\* Three write batches, two compactions and two crashes: an SST that is merged
\* away while its meta file lives on, a crash in any step, and a second one
\* while the leftovers of the first may still reappear.
CONSTANTS
  k1 = k1
  k2 = k2
  Keys <- MCKeys
  Batches <- MCBatches
  MaxBatches = 3
  MaxCompactions = 2
  MaxCrashes = 2
  MaxOdd = 1
  MaxSeq = 24
  MaxMergeSegments = 2
SPECIFICATION Spec
INVARIANTS TypeOK ReadersSeeCommits NoDanglingReference
PROPERTIES RecoveredIsCommitted
CHECK_DEADLOCK FALSE
VIEW MCView
