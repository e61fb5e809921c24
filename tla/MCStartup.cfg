CONSTANTS
    hor_res = 3
    ver_res = 5
    FONT = 2
    WIDTH = 1
    FIRST_WAIT = 2
    LAST_WAIT = 3
    Controllers = 1
    MaxChars = 3
    MaxFaults = 1
SPECIFICATION Spec
CHECK_DEADLOCK FALSE
INVARIANTS
    CursorInside
    TextIsWhole
    SpinsOnlyInHandlers
PROPERTIES
    StartupEnds
