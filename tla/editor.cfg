\* Five pages, any selection, then two gestures.
SPECIFICATION Spec
CHECK_DEADLOCK FALSE
CONSTANTS
    Pages <- mcPages
    Typings <- mcTypings
    RemoteEdits = {"insert", "delete"}
    MaxGestures = 2
    MaxRanges = 1
INVARIANTS
    TypeOK
    CutPasteRestores
PROPERTIES
    TheRestStays
    MarksStayPut
    CaretFollowsTyping
    NothingElseThrows
