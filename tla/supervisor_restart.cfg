\* Launch and restart, nothing fails.
SPECIFICATION Spec
CHECK_DEADLOCK FALSE
CONSTANTS
    MaxLoops = 2
    MaxProcs = 3
    MaxCommands = 2
    MaxFaults = 0
INVARIANT RestartReplacesChild
