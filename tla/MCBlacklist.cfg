SPECIFICATION Spec
CONSTANTS
    a1 = a1
    loopback = loopback
    private = private
    optout = optout
    public = public
    Agents = {a1}
    Seed <- MCSeed
    Guarded = {loopback}
    OptOuts = {optout}
    Public = {public}
    InitialRows = {}
    TTL = 2
    Retry = 1
    Timeout = 1
    ReadTime = 1
    MaxClock = 6
    MaxEdits = 1
    MaxCrashes = 1
    MaxRestarts = 1
    MaxOutages = 0
    MaxFailures = 0
INVARIANT ExclusionHonored
