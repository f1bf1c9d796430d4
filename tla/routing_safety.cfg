SPECIFICATION Spec
CONSTANTS
    c1 = c1
    c2 = c2
    c3 = c3
    c4 = c4
    local = local
    cloud = cloud
    Nobody = Nobody
    Calls <- FourCalls
    Streams <- OneCall
    Order <- OneModel
    FailureThreshold = 1
SYMMETRY Alike
INVARIANTS TypeOK ProbeHasHolder
PROPERTIES OnlyHolderReleases ImplementsBreaker
CHECK_DEADLOCK FALSE
