SPECIFICATION Spec
CONSTANTS
  r1 = r1
  r2 = r2
  d1 = d1
  d2 = d2
  Replica = {r1, r2}
  Script = {s1}
  Definition = {d1, d2}
  NoSchedule = NoSchedule
  NoScript = NoScript
  Request = {q1, q2}
  Unregistrable <- OldZones
  MaxEdits = 2
  MaxFaults = 1
INVARIANTS ReadyMeansRestored
PROPERTIES Converges RegistrationSettles
