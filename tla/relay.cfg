\* Two connections in one room, one of which may go and one be revoked; or one
\* connection and two revocations.
SPECIFICATION Spec
CHECK_DEADLOCK FALSE
CONSTANTS
    c1 = c1
    c2 = c2
    eng = eng
    agent = agent
    room = room
    ledger = ledger
    Conns = {c1, c2}
    Principals = {eng, agent}
    Who <- mcWho
    HasToken = {eng, agent}
    Docs = {room}
    UnsafeDoc = UnsafeDoc
    Rights <- mcRights
    Setups <- mcSetups
    Capacity = 1
    MaxFrames = 3
    NoRx = NoRx
INVARIANTS
    FramesInOrder
    RevocationBoundsWrites
PROPERTY
    RoomsDrain
