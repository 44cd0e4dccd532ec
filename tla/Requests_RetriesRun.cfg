SPECIFICATION Spec
CONSTANTS
    N = 1
    Slots = {1}
CHECK_DEADLOCK FALSE
INVARIANTS RetriesRun
