SPECIFICATION Spec
CONSTANTS
    N = 3
    Worker = {w1, w2}
    Required = {1, 2}
    Before = {1}
    Poison = {1}
    MaxAttempts = 2
    Batch = 2
    MaxFaults = 1
INVARIANTS DeliveredExactlyOnce
PROPERTIES ImplementsTrail EventsSettle
