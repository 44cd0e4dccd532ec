SPECIFICATION Spec
CONSTANTS
    QueueSize = 2
    MaxChunks = 4
    MaxCommands = 2
CHECK_DEADLOCK FALSE
INVARIANTS OneProcess ReachableProcessDies ExitAfterOutput
PROPERTIES SessionEnds
