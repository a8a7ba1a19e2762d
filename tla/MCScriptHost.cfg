SPECIFICATION MCSpec
CONSTANTS
    None = None
    Null = Null
    Names = {1, 2, 3, 4, 5}
    Jobs = {j1}
    MaxSessions = 2
    MaxRequests = 1
    MaxStatsLoads = 1
INVARIANTS
    SidesAreWorked
PROPERTIES
    ImplementsPin
