SPECIFICATION MCSpec
CONSTANTS
    mod = mod
    old = old
    gone = gone
    quicksave = quicksave
    None = None
    Mods <- MCMods
    Installed <- MCInstalled
    Supported <- MCSupported
    Starting <- MCSupported
    Slots <- MCSlots
    MaxGames = 2
    MaxLoads = 3
    MaxSets = 1
    MaxResets = 1
    Heap <- MCHeap
    LabelsOfBits <- MCBits
    VarOwners <- MCVarOwners
    SavedVars = {"v"}
    OtherVars = {"t"}
    VarValues <- MCVarValues
    ForeignNodes <- MCForeignNodes
    StringifyDepth = 3
    MaxSaveOps = 4
    PakPaths = {"a", "b", "g"}
    OutPath = "out"
    GivenPaks <- MCGivenPaks
    PartPath <- MCPartPath
    GamePaths = {"g"}
    MetaNames = {"m"}
    WordNames = {"x"}
    TextNames = {"m", "x"}
    Renamed <- MCRenamed
    Replacement = 9
    MaxPakSteps = 3
    Releases <- MCReleases
    FixedStems = {"meta"}
    GuiDirs = {"icons", "items", "gui"}
    IconDirs = {"icons", "items"}
    SplitReleases = {1, 3, 5}
    MaxCrashes = 2
    MaxReplacements = 2
    PluginFiles <- MCPluginFiles
    SettingIds = {"b"}
    SettingTypes <- MCSettingTypes
    SettingValues = {1, 3}
    MaxStarts = 3
    Modules = {"a", "b", "c"}
    ModuleNeeds <- MCModuleNeeds
    Paks <- MCPaks
    Rank <- MCRank
    BaseModules = {"g"}
    DataPaths <- MCDataPaths
    Globs = {"all", "json"}
    GlobOf <- MCGlobOf
    ModPaks <- MCModPaks
    GamePaks <- MCGamePaks
    MaxIoCalls = 2
    Rounds = 8
    MinRounds = 6
    c1 = c1
    c2 = c2
    e1 = e1
    e2 = e2
    f1 = f1
    f2 = f2
    NoFd = NoFd
    Connections <- MCConnections
    Emitters <- MCEmitters
    Fds <- MCFds
    kStatusHistory = 1
    MaxLines = 2
INVARIANTS
    HeardAsReported
    SaveReachesMods
    SavedComesBack
    PaksHoldTheirFiles
    CorrectedAndServed
    PluginsKept
    OrderIsWhole
    FoundLoads
    FoundUnlessBehindMissing
PROPERTIES
    SaveKeepsValues
CHECK_DEADLOCK FALSE
