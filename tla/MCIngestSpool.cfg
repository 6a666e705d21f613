SPECIFICATION Spec
CONSTANTS
    r1 = r1
    r2 = r2
    r3 = r3
    a = a
    b = b
    Requests <- MCRequests3
    Services <- MCServices
    Payload <- MCPayload
    BatchSize = 2
    Rejected <- MCRejected
    MaxClock = 2
    MaxCrashes = 1
    MaxOutages = 1
    UniqueNames = TRUE
    DiskFails = FALSE
INVARIANTS
    AckedDurable
PROPERTIES
    ImplementsDurable
CHECK_DEADLOCK FALSE
