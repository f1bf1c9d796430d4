SPECIFICATION Spec
CONSTANTS
    p1 = p1
    p2 = p2
    c1 = c1
    c2 = c2
    Processes <- TwoProcesses
    Chats <- TwoChats
    Home <- OneEach
    Nobody = Nobody
    Keep = 3
    Start = 4
    Capacity = 1
    MaxTurns = 6
    MaxFaults = 1
    Faults = {"overlap", "error", "lapse", "crash", "delete"}
INVARIANTS
    TypeOK
    SummaryIsPrefix
    OneCompression
    NothingForgotten
PROPERTIES
    SummaryNeverGoesBack
    DeletedStaysGone
CHECK_DEADLOCK FALSE
