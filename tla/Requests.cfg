SPECIFICATION Spec
CONSTANTS
    N = 2
    Slots = {1, 2}
CHECK_DEADLOCK FALSE
INVARIANTS TypeOK OnlyWritersChange SuccessIsReal IntentFirst EventsReal
PROPERTIES RequestsEnd
