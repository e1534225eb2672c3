\* Two processes, revocations from one of them, one crash between any two steps.
SPECIFICATION Spec
CHECK_DEADLOCK FALSE
CONSTANTS
    cfo = cfo
    agent = agent
    finance_private = finance_private
    spend_by_team = spend_by_team
    salary = salary
    gross = gross
    team = team
    Principals = {cfo, agent}
    Views = {finance_private, spend_by_team}
    Fields = {salary, gross, team}
    Teams = {eng}
    Docs = {room}
    Keys = {p1, p2}
    NeverDelegable = {salary}
    RowLabels = {team}
    Procs = {p1, p2}
    Revokers = {p1}
    Owner = cfo
    InitialView <- mcView
    InitialFields <- mcInitialFields
    InitialRows <- mcRows
    SeedOrder <- mcSeedOrder
    FieldRequests <- mcRequests
    TTLs = {1}
    MaxTime = 1
    MaxCommands = 4
    CrashLimit = 1
    NoToken = NoToken
    NoKey = NoKey
    TornKey = TornKey
    NoRegistry = NoRegistry
INVARIANTS
    RevocationSticks
    SalaryInvariant
    KeyAgreement
    QuietSystemIsUsable
