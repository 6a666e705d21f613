SPECIFICATION Spec
CONSTANTS
    w = w
    v = v
    s1 = s1
    s2 = s2
    f1 = f1
    f2 = f2
    Worker = w
    Viewers = {v}
    Services = {s1, s2}
    Feeds = {f1, f2}
    Outcomes <- MCOutcomes
    HasKey = FALSE
    TTL = 2
    ThreatTTL = 1
    Lag = 1
    MaxClock = 4
    MaxTroubles = 1
INVARIANTS
    VerdictCorroborated
    StampHonest
PROPERTIES
    LookupsSpaced
SYMMETRY MCSymmetry
