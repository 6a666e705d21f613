SPECIFICATION Spec
CONSTANTS
    x1 = x1
    c1 = c1
    c2 = c2
    Clients <- MCClients
    Calls <- MCCalls
    Rate = 1
    Cost = 2
    Burst = 3
    Idle = 5
    MaxLag = 1
    MaxClock = 9
INVARIANTS
    WindowBound
PROPERTIES
    QuietClientAdmitted
