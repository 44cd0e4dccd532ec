SPECIFICATION BatchSpec
CONSTANTS
  N = 3
  Concurrency = 2
  OtherReplica = TRUE
  MaxFaults = 1
INVARIANTS EventsTruthful
PROPERTIES UndisturbedBatchEnds
