\* A second process opens the directory read-only while the first commits.
CONSTANTS
  k1 = k1
  k2 = k2
  Keys <- MCKeys
  Batches <- MCBatches
  MaxBatches = 1
  MaxCompactions = 0
  MaxCrashes = 1
  MaxOdd = 1
  MaxSeq = 6
  MaxMergeSegments = 2
SPECIFICATION SpecWithReader
PROPERTY ReadOnlyOpenModifiesNothing
CHECK_DEADLOCK FALSE
