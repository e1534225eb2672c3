\* A session that was told it is revoked keeps receiving the room.
SPECIFICATION Spec
CHECK_DEADLOCK FALSE
CONSTANTS
    c1 = c1
    c2 = c2
    eng = eng
    agent = agent
    room = room
    ledger = ledger
    Conns = {c1, c2}
    Principals = {eng, agent}
    Who <- mcWho
    HasToken = {eng, agent}
    Docs = {room}
    UnsafeDoc = UnsafeDoc
    Rights <- mcRights
    Setups <- mcRevoked
    Capacity = 1
    MaxFrames = 3
    NoRx = NoRx
INVARIANT RevokedSessionIsDropped
