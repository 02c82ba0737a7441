SPECIFICATION FairSpec
CONSTANTS
    Timeouts = {1}
    StopAfters = {0, 1}
    Graces = {1}
    Signalable = {TRUE, FALSE}
    ExitCodes = {0}
    WaitErrors = FALSE
    Daemons = TRUE
    CallerMayDrop = FALSE
    Horizon = 6
PROPERTIES
    CallReturns
    NothingLeftRunning
