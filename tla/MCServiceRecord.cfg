SPECIFICATION Spec
CONSTANTS
    r1 = r1
    r2 = r2
    r3 = r3
    None = None
    Requests <- MCRequests
    Captured <- MCCapturedMixed
    Landing = {r1, r3}
    Identified = {r2}
    Anonymous = {r1}
    Uploads = TRUE
    Fallback = FALSE
    MaxCrashes = 1
INVARIANTS
    NoDanglingReference
    AnonymityKept
    CaptureHonest
CHECK_DEADLOCK FALSE
