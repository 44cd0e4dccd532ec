SPECIFICATION Spec
CONSTANTS
    Hosts = {h1, h2}
    Contained = {h1}
    Tasks = {1, 2}
    MaxKeys = 2
    MaxRequests = 3
CHECK_DEADLOCK FALSE
INVARIANTS SingleEntry KeysKept TrustOnFirstUse
PROPERTIES OperationsEnd
