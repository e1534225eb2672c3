\* One command at a time: revoking a delegate also refuses the owner.
SPECIFICATION Spec
CHECK_DEADLOCK FALSE
CONSTANTS
    cfo = cfo
    agent = agent
    finance_private = finance_private
    spend_by_team = spend_by_team
    salary = salary
    gross = gross
    team = team
    Principals = {cfo, agent}
    Views = {finance_private, spend_by_team}
    Fields = {salary, gross, team}
    Teams = {eng}
    Docs = {room}
    Keys = {p1, p2}
    NeverDelegable = {salary}
    RowLabels = {team}
    Procs = {p1}
    Revokers = {p1}
    Owner = cfo
    InitialView <- mcView
    InitialFields <- mcInitialFields
    InitialRows <- mcRows
    SeedOrder <- mcSeedOrder
    FieldRequests <- mcRequests
    TTLs = {1}
    MaxTime = 1
    MaxCommands = 3
    CrashLimit = 0
    NoToken = NoToken
    NoKey = NoKey
    TornKey = TornKey
    NoRegistry = NoRegistry
INVARIANT RevokeTouchesOnlyItsHolder
