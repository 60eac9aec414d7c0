SPECIFICATION Spec
CONSTANTS
    c1 = c1
    c2 = c2
    Clients <- MCClients
    MaxRuns = 2
CHECK_DEADLOCK FALSE
INVARIANTS TypeOK LostUnlessInUse
PROPERTY UpdateKeepsData
