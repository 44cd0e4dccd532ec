SPECIFICATION OwnershipSpec
CONSTANTS
  Replica = {r1, r2}
  Script = {s1}
  NoReplica = NoReplica
  E2EEnabled = TRUE
  MaxFaults = 1
PROPERTIES NonOwnerNeverExecutes
