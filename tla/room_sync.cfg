\* Three deployments: two browsers at the relay, a relay that turns tabs away,
\* and tabs without a relay that close and crash.
SPECIFICATION Spec
CHECK_DEADLOCK FALSE
CONSTANTS
    t1 = t1
    t2 = t2
    t3 = t3
    home = home
    work = work
    Tabs = {t1, t2, t3}
    Browsers = {home, work}
    BrowserOf <- mcBrowserOf
    Poison = Poison
    Setups <- mcSetups
    EditLimit = 3
    DialLimit = 2
INVARIANTS
    TypeOK
    EarlierJoinersKnowAll
    FullLogHeals
PROPERTIES
    ImplementsSharedDoc
    LiveEditsArrive
    ComesBack
