SPECIFICATION FairSpec
CONSTANTS
    r1 = r1
    r2 = r2
    r3 = r3
    a = a
    b = b
    Requests <- MCRequests
    Services <- MCServices
    Payload <- MCPayload
    BatchSize = 2
    Rejected = {}
    MaxClock = 2
    MaxCrashes = 1
    MaxOutages = 1
    UniqueNames = TRUE
    DiskFails = TRUE
PROPERTIES
    SpoolLeavesByApply
    SpoolDrainsConnected
    EveryRequestAnswered
CHECK_DEADLOCK FALSE
