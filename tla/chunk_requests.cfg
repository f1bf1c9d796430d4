SPECIFICATION FairSpec
CONSTANTS
    r1 = r1
    r2 = r2
    r3 = r3
    r4 = r4
    None = None
    Requests = {r1, r2, r3, r4}
    Workloads <- QueueOrEdit
    MaxAttempts = 2
    MaxCrashes = 1
INVARIANTS
    TypeOK
    SingleRun
    SearchIsWhole
    RunningIsTended
PROPERTIES
    StartsSettle
CHECK_DEADLOCK FALSE
