SPECIFICATION FairSpec
CONSTANTS
    r1 = r1
    r2 = r2
    r3 = r3
    a = a
    b = b
    Requests <- MCRequests
    Services <- MCServices
    Payload <- MCPayload1
    BatchSize = 2
    Rejected = {}
    MaxClock = 3
    MaxCrashes = 1
    MaxOutages = 1
    UniqueNames = TRUE
    DiskFails = FALSE
PROPERTIES
    SpoolDrains
CHECK_DEADLOCK FALSE
