SPECIFICATION FairSpec
CONSTANTS
    Timeouts = {1}
    StopAfters = {0}
    Graces = {1}
    Signalable = {TRUE}
    ExitCodes = {0}
    WaitErrors = FALSE
    Daemons = TRUE
    CallerMayDrop = FALSE
    Horizon = 8
PROPERTY
    TimeoutAlwaysReturns
