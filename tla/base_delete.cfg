SPECIFICATION FairSpec
CONSTANTS
    u1 = u1
    d1 = d1
    d2 = d2
    Uploads <- OneUpload
    Deletes <- TwoDeletes
    MaxAttempts = 3
    MaxFaults = 2
    Faults = {"send", "database", "reply", "lost", "store", "crash"}
INVARIANTS
    TypeOK
    LiveIsWhole
    NoOrphans
PROPERTIES
    DeletedIsCleaned
CHECK_DEADLOCK FALSE
