SPECIFICATION MCSpec
CONSTANTS
    MathInputs <- MCMathInputs
    MathOps = {"Add", "Sub", "Mul", "Div", "Reflect", "Project", "Perpendicular", "Cross",
               "Dot", "OuterProduct", "Rotate", "Translate", "Scale", "Length", "Normalize",
               "Determinant", "Inverse", "Transpose", "QuatMul", "QuatRotate", "QuatToMat3",
               "QuatToMat4", "QuatDot", "QuatInverse"}
    Threads = {1, 2}
    Classes = 2
    ArenaChunk = 3
    Sizes = {0, 1}
    MaxChunks = 2
    MaxLive = 2
    StoryClasses = {"event", "fact"}
    NoThread = NoThread
    MaxStories = 2
    MaxListeners = 1
    MaxTuples = 2
    StoryKeys = {"e", "p", "q"}
    EngineKeys = {"e"}
    Stories <- MCStories
    MaxRuns = 3
    DbColumns <- MCColumns
    Outputs <- MCOutputs
    Overloads <- MCOverloads
    Alias <- MCAlias
    StoryTexts <- MCTexts
    Arguments <- MCArguments
    ArgWidth = 8
    MaxFacts = 2
    FieldKinds <- MCFieldKinds
    Assigned <- MCAssigned
    Labels <- MCLabels
    FlagBits <- MCFlagBits
    Byte = 8
    FlagBit = 4
    FieldGuids = {"guid"}
    Extent = 2
    Nil = Nil
    Bad = Bad
    ElementValues = {1}
    MapKeys = {"k1", "k2"}
    Spelling <- MCSpelling
    ObjectViews = {"a", "b"}
    MaxElements = 2
    StatKinds = {"int", "enum", "float", "flags", "string", "condition", "functors",
                 "requirements", "combo", "aiflags", "memo", "roll", "guid"}
    StatList <- MCStatList
    Proxies = {"p1", "p2"}
    GivenValues <- MCGiven
    LabelIndex <- MCLabelIndex
    StatNumber <- MCNumber
    Parts <- MCParts
    StatGuids = {"x"}
    PoolRoom = 2
    MaxFunctors = 2
    MaxSets = 2
    MaxNames = 1
    RemotePeers = {2, 3}
    OwnPeer = 1
    NoOne = 0
    MaxRouted = 1
    MaxPeerChanges = 4
    WireSizes = {1, 3, 4}
    SyncBudget = 2
    MaxPayload = 4
    MaxSynced = 3
    PeerAddresses = {1, 2}
    Nowhere = 0
    MaxProtocols = 2
    MaxPeersMade = 3
INVARIANTS
    RoutedAsAsked
    ArrivesAsSent
    OursIsFirst
    ProductsFit
    BlocksApart
    TupleAppliedAndHeard
    NoCircularWait
    DatabaseIsTheStorys
    CallsComeBack
PROPERTIES
    FieldsReadBack
    StatsInStep
    ChangesLand
CHECK_DEADLOCK FALSE
