SPECIFICATION Spec
CONSTANTS
    a = a
    b = b
    c = c
    Kinds <- MCKinds
    Names = {a, b, c}
    Payloads <- MCPayloads
    Batch = 2
    Slots = {1, 2}
    MaxRequests = 2
    MaxEdits = 1
CHECK_DEADLOCK FALSE
INVARIANTS TypeOK ImportWhole
PROPERTIES HandlersEnd
