\* An update saved after a subscriber read the store never reaches it.
SPECIFICATION Spec
CHECK_DEADLOCK FALSE
CONSTANTS
    c1 = c1
    c2 = c2
    eng = eng
    agent = agent
    room = room
    ledger = ledger
    Conns = {c1, c2}
    Principals = {eng, agent}
    Who <- mcWho
    HasToken = {eng, agent}
    Docs = {room}
    UnsafeDoc = UnsafeDoc
    Rights <- mcRights
    Setups <- mcQuiet
    Capacity = 1
    MaxFrames = 3
    NoRx = NoRx
INVARIANT NoLostUpdate
