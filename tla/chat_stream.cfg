SPECIFICATION FairSpec
CONSTANTS
    c1 = c1
    c2 = c2
    asker = asker
    other = other
    System = System
    Nobody = Nobody
    Stops <- Two
    Who <- OwnerAndOther
    Owner = asker
    Redis = {"none", "sound", "failing"}
    QueueFull = TRUE
INVARIANTS TypeOK OnlyAllowedStop NoOrphanStream EndIsHeard
PROPERTIES StopEndsStream ResponseEnds
CHECK_DEADLOCK FALSE
