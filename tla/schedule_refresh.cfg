SPECIFICATION FairSpec
CONSTANTS
    n1 = n1
    n2 = n2
    u1 = u1
    Nodes <- TwoNodes
    Users <- OneUser
    Nobody = Nobody
    MaxVersion = 2
    MaxRow = 2
    MaxFaults = 1
    Faults = {"crash", "stall", "close", "slow", "pause", "full", "again", "index"}
INVARIANTS
    TypeOK
    OneRefresh
    RecordedIsChunked
PROPERTIES
    RecordNeverGoesBack
    DueIsServed
CHECK_DEADLOCK FALSE
