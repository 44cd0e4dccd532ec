SPECIFICATION Spec
CONSTANTS
    QueueSize = 2
    MaxChunks = 4
    MaxCommands = 2
INVARIANT DisconnectClosesProcess
CHECK_DEADLOCK FALSE
