SPECIFICATION OwnershipSpec
CONSTANTS
  Replica = {r1}
  Script = {s1}
  NoReplica = NoReplica
  E2EEnabled = TRUE
  MaxFaults = 1
PROPERTIES LockIsReacquired
