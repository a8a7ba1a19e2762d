SPECIFICATION MCSpec
CONSTANTS
    Priorities = {100, 200}
    MaxSubs = 3
    MaxDepth = 2
    NoTimer = NoTimer
    Delays <- MCDelays
    Periods <- MCPeriods
    MaxTimers = 2
    MaxTime = 3
    NoVar = NoVar
    VarKeys = {"tick", "hand", "both"}
    Options <- MCOptions
    Owners = {"o1"}
    ModKeys = {"tick"}
    VarValues = {1}
    MaxWrites = 3
    MaxForgets = 1
    Entities = {"e1"}
    SubKinds = {"create", "create-deferred", "destroy", "change"}
    MaxEntitySubs = 2
    MaxHappenings = 3
    PoolSize = 2
    MaxRequests = 4
    NoMod = NoMod
    Mods = {"m1", "m2"}
    Broken = {"m2"}
    Files = {"a"}
    Settings <- MCOrders
    MaxNesting = 3
    MaxOrders = 2
    Addresses = {"A", "B"}
    kMaxQueued = 1
    MaxWidgets = 2
    MaxCallbacks = 3
    MaxDrawn = 1
    MaxUiResets = 1
    UiCommands = {"c"}
    UiProperties = {"p"}
    UiElements = {"e"}
    MaxUiIds = 2
    MaxUiSubs = 1
    MaxFired = 1
    MaxUiStates = 2
    EventMods = {"m1"}
    ModEventNames = {"e1"}
    Listeners = {1, 2}
    CommandNames = {"c"}
    MaxThrown = 1
    MaxLines = 2
INVARIANTS
    ServerValueArrives
    OneRequestPerPath
    LoadedOnceAsItself
    UiReachesItsOwn
PROPERTIES
    ThrownInOrder
    TimersKeepTime
    NothingDroppedUnlessAdded
    HandlerRunsOnlyWhileSet
    EventsReachTheirs
CHECK_DEADLOCK FALSE
