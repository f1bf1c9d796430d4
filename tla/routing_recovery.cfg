SPECIFICATION FairSpec
CONSTANTS
    c1 = c1
    c2 = c2
    c3 = c3
    c4 = c4
    local = local
    cloud = cloud
    Nobody = Nobody
    Calls <- TwoCalls
    Streams <- OneCall
    Order <- TwoModels
    FailureThreshold = 1
PROPERTIES BreakerRecovers
CHECK_DEADLOCK FALSE
