\* Three requests, two faults.
SPECIFICATION Spec
CHECK_DEADLOCK FALSE
CONSTANTS
    MaxLoops = 3
    MaxProcs = 5
    MaxCommands = 3
    MaxFaults = 2
INVARIANTS
    AtMostOneChild
    OrphansAccounted
PROPERTIES
    StopStops
    WantedRuns
    StatusCatchesUp
