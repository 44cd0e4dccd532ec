SPECIFICATION Spec
CONSTANTS
    N = 2
    Worker = {w1}
    Required = {1}
    Before = {1}
    Poison = {}
    MaxAttempts = 2
    Batch = 1
    MaxFaults = 1
INVARIANTS
    ChangeKeepsEvent
