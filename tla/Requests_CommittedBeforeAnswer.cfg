SPECIFICATION Spec
CONSTANTS
    N = 2
    Slots = {1, 2}
INVARIANT CommittedBeforeAnswer
CHECK_DEADLOCK FALSE
