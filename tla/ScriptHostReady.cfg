SPECIFICATION Spec
CONSTANTS
    None = None
    Null = Null
    Names = {1, 2, 3, 4, 5}
    Jobs = {}
    MaxSessions = 1
    MaxRequests = 1
    MaxStatsLoads = 0
INVARIANTS
    StoryReadyIsWorked
