\* Two pages of a room, one of them with an agent and with IndexedDB.
SPECIFICATION Spec
CHECK_DEADLOCK FALSE
CONSTANTS
    p1 = p1
    p2 = p2
    Pages = {p1, p2}
    Durable = {p1}
    Wired = {p1, p2}
    Hosts = {p1}
    Leavers = {p1}
    SnapshotEvery = 2
    KeepEvery = 2
    MaxEdits = 3
    Budgets <- mcBudgets
INVARIANTS
    NobodyStalls
    StoresKeep
PROPERTIES
    EchoFree
    Converges
