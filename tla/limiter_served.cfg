SPECIFICATION FairSpec
CONSTANTS
    t1 = t1
    t2 = t2
    t3 = t3
    Tickets <- FirstTwo
    MaxConcurrent = 1
    Slack = 0
    Cancellable <- First
    Impatient <- First
    Mortal <- First
    Faulty <- First
    FailAgain = TRUE
    LeaseExpires = TRUE
PROPERTIES
    CallsReturn
    AllServed
CHECK_DEADLOCK FALSE
