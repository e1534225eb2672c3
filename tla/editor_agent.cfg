\* Five sessions of two people with one watcher, which may start again, or two.
SPECIFICATION Spec
CONSTANTS
    cfo = cfo
    eng = eng
    w1 = w1
    w2 = w2
    Nobody = Nobody
    Humans = {cfo, eng}
    Watchers = {w1, w2}
    Lines = {1, 2, 3}
    Author <- mcAuthor
    Plans <- mcPlans
    Serves <- mcServes
    Remembered <- mcRemembered
    Readable <- mcReadable
    PauseLimit = 3
INVARIANTS
    NeverMidTyping
    AskerAuthorizes
    RepliesInPlace
PROPERTIES
    AsksAnswered
