SPECIFICATION BatchSpec
CONSTANTS
  N = 2
  Concurrency = 1
  OtherReplica = FALSE
  MaxFaults = 0
PROPERTIES CancelAborts
