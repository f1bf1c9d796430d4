SPECIFICATION Spec
CONSTANTS
    c1 = c1
    c2 = c2
    c3 = c3
    c4 = c4
    local = local
    cloud = cloud
    Nobody = Nobody
    Calls <- OneCall
    Streams <- OneCall
    Order <- TwoModels
    FailureThreshold = 2
INVARIANTS FallbackIsHeard
CHECK_DEADLOCK FALSE
