SPECIFICATION Spec
CONSTANTS
    t1 = t1
    t2 = t2
    t3 = t3
    Tickets <- MCTickets
    MaxConcurrent = 1
    Slack = 0
    Cancellable <- First
    Impatient <- Second
    Mortal <- None
    Faulty <- First
    FailAgain = FALSE
    LeaseExpires = FALSE
INVARIANTS
    TypeOK
    PermitsAccounted
    WaitersAreInLine
    NoGhostInLine
    NoCleanupAfterGrant
PROPERTIES
    ImplementsTicketQueue
CHECK_DEADLOCK FALSE
