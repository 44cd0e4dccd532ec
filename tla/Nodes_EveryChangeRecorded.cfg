SPECIFICATION Spec
CONSTANTS
    Subscribers = {s1}
    MaxQueue = 2
    MaxHistory = 2
    MaxReplay = 1
    Nodes = {n1}
    Tags = {a, b}
    Workers = {w1, w2}
    MaxRequests = 3
INVARIANT EveryChangeRecorded
CHECK_DEADLOCK FALSE
SYMMETRY Symmetry
