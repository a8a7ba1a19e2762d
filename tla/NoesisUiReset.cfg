SPECIFICATION NoesisSpec
CONSTANTS
    UiCommands = {"c"}
    UiProperties = {"p"}
    UiElements = {"e"}
    MaxUiIds = 2
    MaxUiSubs = 1
    MaxFired = 1
    MaxUiStates = 2
INVARIANTS
    RunsForItsState
CHECK_DEADLOCK FALSE
